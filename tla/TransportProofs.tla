--------------------------- MODULE TransportProofs ---------------------------
(***************************************************************************)
(* Proofs about the transports below a session: the swap of the protocol   *)
(* transports (TransportSwap), the MASQUE tunnel (MasqueTunnel) and the    *)
(* HTTP/3 transport (HTTP3Transport), for every set of callers, origins,   *)
(* targets and every bound.                                                *)
(***************************************************************************)
EXTENDS TransportSwap, MasqueTunnel, HTTP3Transport, TLAPS

-----------------------------------------------------------------------------
(* TransportSwap.                                                          *)

Proxies == ProxyURLs \cup {NoProxy}
Constructions == [proxy : ProxyConfigs, h3 : Proxies, preset : SwapPresets,
                  verify : {Unverified, "own"}]
H3Builds == [via : Proxies, err : BOOLEAN]
Snapshots == [proxy : ProxyConfigs, preset : SwapPresets, tcpErr : BOOLEAN, h3Err : BOOLEAN,
              set : SetIds, mixed : {"nothing", "proxy", "preset"}]
ChangeRecords == [at : {"idle", "build", "publish", "close"}, proxy : ProxyConfigs,
                  preset : SwapPresets, h3 : H3Builds, old : SetIds, overtaken : BOOLEAN]
SwapStates ==
    /\ verification \in {Unverified, "own"} /\ config \in ProxyConfigs
    /\ fields \in Snapshots /\ built \in [SetIds -> Constructions]
    /\ sets \in [SetIds -> {"unborn", "open", "draining", "closed"}]
    /\ change \in [Setters -> ChangeRecords]
    /\ user \in [SwapUsers -> [at : {"idle", "started", "snapped"}, snap : Snapshots]]

\* Sets are born in the order of their numbers.
BornInOrder == \E b \in SetIds : \A n \in SetIds : sets[n] # "unborn" <=> n <= b

\* What an operation under way has in hand: the part of the fields it will not write
\* is the one it built for unless it has been overtaken, and the set it built is the
\* one it publishes.
InHand(w) ==
    /\ change[w].at \in {"build", "publish"} =>
          \/ change[w].overtaken = TRUE
          \/ /\ Reads(w) = "preset" => change[w].preset = fields.preset
             /\ Reads(w) = "proxy" => change[w].proxy = fields.proxy
    /\ change[w].at \in {"publish", "close"} => change[w].old \in Sets
    /\ change[w].at = "publish" =>
          /\ change[w].h3 \in H3Built(DeriveProxyRouting(change[w].proxy).udp)
          /\ built[change[w].old] =
                Construction(change[w].proxy, change[w].preset, change[w].h3, verification)

OnlyCurrent ==
    \A n \in Sets : \/ sets[n] = "closed"
                    \/ n = fields.set
                    \/ \E w \in Setters : change[w].at \in {"publish", "close"} /\ n = change[w].old

\* All that is published describes a set that will not be built again, and each set
\* that is not current is closed or in the hands of an operation.
SwapInv ==
    /\ SwapStates /\ BornInOrder /\ \A w \in Setters : InHand(w)
    /\ fields.set \in Sets /\ Matches(fields)
    /\ \A u \in SwapUsers : user[u].at = "snapped" =>
          user[u].snap.set \in Sets /\ Matches(user[u].snap)
    /\ OnlyCurrent

\* Routing and construction give what their types say.
LEMMA RoutingTypes ==
  ASSUME NEW p \in ProxyConfigs
  PROVE  /\ DeriveProxyRouting(p).tcp \in Proxies /\ DeriveProxyRouting(p).udp \in Proxies
         /\ DeriveProxyRouting(p).tcpErr \in BOOLEAN
<1>1. p.url \in Proxies /\ p.tcp \in Proxies /\ p.udp \in Proxies
  BY DEF ProxyConfigs, Proxies
<1>2. OrElse(p.tcp, p.url) \in Proxies /\ OrElse(p.udp, p.url) \in Proxies
  BY <1>1 DEF OrElse
<1>3. DeriveProxyRouting(p).tcp \in Proxies /\ DeriveProxyRouting(p).udp \in Proxies
  BY <1>2 DEF DeriveProxyRouting
<1>4. DeriveProxyRouting(p).tcpErr
      = (OrElse(p.tcp, p.url) = NoProxy /\ OrElse(p.udp, p.url) \in {"http", "masque"})
  BY DEF DeriveProxyRouting
<1>5. (OrElse(p.tcp, p.url) = NoProxy /\ OrElse(p.udp, p.url) \in {"http", "masque"}) \in BOOLEAN
  BY Zenon
<1> QED BY <1>3, <1>4, <1>5

\* An HTTP/3 transport is built for the proxy given, or not at all.
LEMMA H3BuiltTypes ==
  ASSUME NEW udp \in Proxies, NEW h3 \in H3Built(udp)
  PROVE  h3 \in H3Builds /\ (h3.via = udp \/ h3.err = TRUE)
<1>1. [via |-> NoProxy, err |-> FALSE] \in H3Builds /\ [via |-> NoProxy, err |-> TRUE] \in H3Builds
      /\ [via |-> udp, err |-> FALSE] \in H3Builds
  BY DEF H3Builds, Proxies
<1>2. h3 = [via |-> udp, err |-> FALSE] \/ h3 = [via |-> NoProxy, err |-> TRUE]
  BY DEF H3Built
<1>3. CASE h3 = [via |-> udp, err |-> FALSE]
  BY <1>1, <1>3
<1>4. CASE h3 = [via |-> NoProxy, err |-> TRUE]
  BY <1>1, <1>4
<1> QED BY <1>2, <1>3, <1>4

\* A description, by its fields.
Description(x, y, t, e, n, m) ==
    [proxy |-> x, preset |-> y, tcpErr |-> t, h3Err |-> e, set |-> n, mixed |-> m]

\* The fields of a description.
LEMMA SnapshotFields ==
  ASSUME NEW x \in ProxyConfigs, NEW y \in SwapPresets, NEW t \in BOOLEAN, NEW e \in BOOLEAN,
         NEW n \in SetIds, NEW m \in {"nothing", "proxy", "preset"}
  PROVE  LET s == Description(x, y, t, e, n, m)
         IN  /\ s \in Snapshots /\ s.proxy = x /\ s.preset = y /\ s.tcpErr = t
             /\ s.h3Err = e /\ s.set = n /\ s.mixed = m
BY Zenon DEF Description, Snapshots

\* What is built for a proxy and a preset fits what is then published of it, where one
\* field may be another.
LEMMA DescribedMatches ==
  ASSUME NEW p \in ProxyConfigs, NEW preset \in SwapPresets, NEW n \in SetIds,
         NEW h3 \in H3Built(DeriveProxyRouting(p).udp), verification \in {Unverified, "own"},
         NEW x \in ProxyConfigs, NEW y \in SwapPresets, NEW m \in {"nothing", "proxy", "preset"},
         x = p \/ m = "proxy", y = preset \/ m = "preset"
  PROVE  /\ Description(x, y, DeriveProxyRouting(p).tcpErr, h3.err, n, m) \in Snapshots
         /\ Description(x, y, DeriveProxyRouting(p).tcpErr, h3.err, n, m).set = n
         /\ built[n] = Construction(p, preset, h3, verification)
               => Matches(Description(x, y, DeriveProxyRouting(p).tcpErr, h3.err, n, m))
<1>1. DeriveProxyRouting(p).udp \in Proxies /\ DeriveProxyRouting(p).tcpErr \in BOOLEAN
  BY RoutingTypes
<1>2. h3 \in H3Builds /\ (h3.via = DeriveProxyRouting(p).udp \/ h3.err = TRUE)
  BY <1>1, H3BuiltTypes
<1>3. h3.via \in Proxies /\ h3.err \in BOOLEAN
  BY <1>2 DEF H3Builds
<1> DEFINE s == Description(x, y, DeriveProxyRouting(p).tcpErr, h3.err, n, m)
<1>4. /\ s \in Snapshots /\ s.proxy = x /\ s.preset = y /\ s.tcpErr = DeriveProxyRouting(p).tcpErr
      /\ s.h3Err = h3.err /\ s.set = n /\ s.mixed = m
  BY <1>1, <1>3, SnapshotFields
<1> HIDE DEF s
<1>5. ASSUME built[n] = Construction(p, preset, h3, verification)
      PROVE  Matches(s)
  <2>1. /\ built[n].proxy = p /\ built[n].h3 = h3.via /\ built[n].preset = preset
        /\ built[n].verify = verification
    BY <1>5 DEF Construction
  <2>2. /\ s.tcpErr = DeriveProxyRouting(built[s.set].proxy).tcpErr
        /\ built[s.set].verify = verification
        /\ s.mixed # "proxy" => built[s.set].proxy = s.proxy
        /\ s.mixed # "preset" => built[s.set].preset = s.preset
    BY <1>4, <2>1
  <2>3. built[s.set].h3 = DeriveProxyRouting(built[s.set].proxy).udp \/ s.h3Err
    BY <1>2, <1>4, <2>1
  <2> QED BY <2>2, <2>3 DEF Matches
<1> QED BY <1>4, <1>5 DEF s

\* The construction of a set is one.
LEMMA ConstructionTypes ==
  ASSUME NEW p \in ProxyConfigs, NEW preset \in SwapPresets,
         NEW h3 \in H3Built(DeriveProxyRouting(p).udp), verification \in {Unverified, "own"}
  PROVE  Construction(p, preset, h3, verification) \in Constructions
<1>1. DeriveProxyRouting(p).udp \in Proxies
  BY RoutingTypes
<1>2. h3 \in H3Builds
  BY <1>1, H3BuiltTypes
<1>3. h3.via \in Proxies
  BY <1>2 DEF H3Builds
<1> QED BY <1>3 DEF Construction, Constructions

\* The description of a set as it stands.
LEMMA PlainDescription ==
  ASSUME NEW p \in ProxyConfigs, NEW preset \in SwapPresets, NEW n \in SetIds,
         NEW h3 \in H3Built(DeriveProxyRouting(p).udp), verification \in {Unverified, "own"}
  PROVE  /\ Described(p, preset, h3, n) \in Snapshots /\ Described(p, preset, h3, n).set = n
         /\ Construction(p, preset, h3, verification) \in Constructions
         /\ built[n] = Construction(p, preset, h3, verification)
               => Matches(Described(p, preset, h3, n))
<1>1. Described(p, preset, h3, n)
         = Description(p, preset, DeriveProxyRouting(p).tcpErr, h3.err, n, "nothing")
  BY Zenon DEF Described, Description
<1> DEFINE s == Description(p, preset, DeriveProxyRouting(p).tcpErr, h3.err, n, "nothing")
<1>2. /\ s \in Snapshots /\ s.set = n
      /\ built[n] = Construction(p, preset, h3, verification) => Matches(s)
  BY DescribedMatches
<1> HIDE DEF s
<1>3. Described(p, preset, h3, n) = s
  BY <1>1 DEF s
<1> QED BY <1>2, <1>3, ConstructionTypes

\* Without a proxy the HTTP/3 transport is a direct one.
LEMMA NoProxyBuilt == NoChange.h3 \in H3Built(DeriveProxyRouting(NoProxyConfig).udp)
<1>1. DeriveProxyRouting(NoProxyConfig).udp = NoProxy
  BY DEF DeriveProxyRouting, OrElse, NoProxyConfig
<1>2. H3Built(NoProxy) = {[via |-> NoProxy, err |-> FALSE]}
  BY DEF H3Built, NoProxy
<1>3. NoChange.h3 = [via |-> NoProxy, err |-> FALSE]
  BY Zenon DEF NoChange
<1> QED BY <1>1, <1>2, <1>3

\* A set that is there is not built again: what is said of it stays true.
LEMMA MatchesStays ==
  ASSUME NEW s, Matches(s), built'[s.set] = built[s.set], verification' = verification
  PROVE  Matches(s)'
BY DEF Matches

\* The least unborn set, while there is one, is the one after the last born.
LEMMA NewSetNext ==
  ASSUME SwapConstants, BornInOrder, Sets # SetIds
  PROVE  /\ NewSet \in SetIds /\ sets[NewSet] = "unborn"
         /\ \A n \in SetIds : sets[n] # "unborn" <=> n <= NewSet - 1
<1>1. PICK b \in SetIds : \A n \in SetIds : sets[n] # "unborn" <=> n <= b
  BY DEF BornInOrder
<1>2. MaxSwaps \in Nat /\ b \in Nat
  BY DEF SwapConstants, SetIds
<1>3. b + 1 \in SetIds
  <2>1. PICK n \in SetIds : sets[n] = "unborn"
    BY DEF Sets
  <2> QED BY <1>1, <1>2, <2>1 DEF SetIds
<1> DEFINE Least(n) == sets[n] = "unborn" /\ \A k \in SetIds : k < n => sets[k] # "unborn"
<1>4. Least(b + 1)
  BY <1>1, <1>2, <1>3 DEF SetIds
<1>5. NewSet \in SetIds /\ Least(NewSet)
  BY <1>3, <1>4 DEF NewSet
<1>6. NewSet = b + 1
  BY <1>1, <1>2, <1>3, <1>4, <1>5 DEF SetIds
<1> QED BY <1>1, <1>2, <1>5, <1>6

\* As AliveField, of an operation.
LEMMA OvertakenField ==
  ASSUME NEW c \in ChangeRecords, NEW b \in BOOLEAN PROVE [c EXCEPT !.overtaken = b] \in ChangeRecords
  BY Zenon DEF ChangeRecords

\* No operation is under way in the record that an operation starts from.
LEMMA NoChangeRecord ==
  ASSUME SwapConstants PROVE NoChange \in ChangeRecords /\ NoChange.at = "idle"
<1>1. [via |-> NoProxy, err |-> FALSE] \in H3Builds /\ NoProxyConfig \in ProxyConfigs
  BY DEF H3Builds, Proxies, NoProxyConfig, ProxyConfigs
<1>2. FirstPreset \in SwapPresets /\ 1 \in SetIds
  BY DEF SwapConstants, SetIds
<1> DEFINE h3 == [via |-> NoProxy, err |-> FALSE]
<1>3. h3 \in H3Builds /\ NoChange = [at |-> "idle", proxy |-> NoProxyConfig, preset |-> FirstPreset,
                                    h3 |-> h3, old |-> 1, overtaken |-> FALSE]
  BY <1>1 DEF NoChange
<1> HIDE DEF h3
<1> QED BY <1>1, <1>2, <1>3 DEF ChangeRecords

\* One setter's operation is replaced by another record.
LEMMA ChangeReplaced ==
  ASSUME SwapStates, NEW w \in Setters, NEW c \in ChangeRecords, change' = [change EXCEPT ![w] = c]
  PROVE  /\ change' \in [Setters -> ChangeRecords] /\ change'[w] = c
         /\ \A x \in Setters : x # w => change'[x] = change[x]
BY DEF SwapStates

\* What a setter has in hand is not disturbed by sets that change their state.
LEMMA InHandKept ==
  ASSUME NEW w \in Setters, InHand(w), change'[w] = change[w],
         UNCHANGED <<verification, fields>>, Sets \subseteq Sets',
         \A n \in Sets : built'[n] = built[n]
  PROVE  InHand(w)'
<1>1. Reads(w)' = Reads(w)
  BY DEF Reads
<1> QED BY <1>1 DEF InHand

\* Every operation and every request keeps SwapInv.
LEMMA SwapStep ==
  ASSUME SwapConstants, SwapInv, [SwapNext]_swapVars
  PROVE  SwapInv'
<1>t. SwapStates /\ BornInOrder /\ \A w \in Setters : InHand(w)
  BY DEF SwapInv
<1>o. OnlyCurrent
  BY DEF SwapInv
<1>r. \A w \in Setters : Reads(w)' = Reads(w)
  BY DEF Reads
<1>b. ASSUME NEW w \in Setters, NEW p \in ProxyConfigs, NEW preset \in SwapPresets,
             Begins(w, p, preset), config' \in ProxyConfigs,
             Reads(w) = "preset" => preset = fields.preset,
             Reads(w) = "proxy" => p = fields.proxy
      PROVE  SwapInv'
  <2> DEFINE c == [NoChange EXCEPT !.at = "build", !.proxy = p, !.preset = preset]
  <2>1. /\ change[w].at = "idle" /\ UNCHANGED <<verification, fields, built, sets, user>>
        /\ change' = [change EXCEPT ![w] = c]
    BY <1>b DEF Begins
  <2>2. /\ c \in ChangeRecords /\ c.at = "build" /\ c.proxy = p /\ c.preset = preset
    BY <1>b, NoChangeRecord DEF ChangeRecords
  <2> HIDE DEF c
  <2>3. /\ change' \in [Setters -> ChangeRecords] /\ change'[w] = c
        /\ \A x \in Setters : x # w => change'[x] = change[x]
    BY <1>t, <2>1, <2>2, ChangeReplaced
  <2>4. SwapStates'
    BY <1>b, <1>t, <2>1, <2>3 DEF SwapStates
  <2>5. Sets' = Sets /\ BornInOrder'
    BY <1>t, <2>1 DEF Sets, BornInOrder
  <2>6. ASSUME NEW x \in Setters PROVE InHand(x)'
    <3>1. CASE x = w
      BY <1>b, <1>r, <2>1, <2>2, <2>3, <3>1 DEF InHand
    <3>2. CASE x # w
      BY <1>t, <2>1, <2>3, <2>5, <3>2, InHandKept
    <3> QED BY <3>1, <3>2
  <2>7. Matches(fields)' /\ \A u \in SwapUsers : user[u].at = "snapped" => Matches(user[u].snap)'
    BY <2>1 DEF SwapInv, Matches
  <2>8. OnlyCurrent'
    BY <1>o, <2>1, <2>3, <2>5 DEF OnlyCurrent
  <2> QED BY <2>1, <2>4, <2>5, <2>6, <2>7, <2>8 DEF SwapInv
<1>1. ASSUME NEW p \in Proxies, SetUnifiedProxy(p) \/ SetTCPProxy(p) \/ SetUDPProxyOf(p)
      PROVE  SwapInv'
  <2>1. config' \in ProxyConfigs /\ Begins(SessionSetter, config', fields.preset)
    BY <1>1, <1>t DEF SetUnifiedProxy, SetTCPProxy, SetUDPProxyOf, SwapStates, ProxyConfigs,
       NoProxyConfig, Proxies
  <2>2. fields.preset \in SwapPresets /\ SessionSetter \in Setters /\ Reads(SessionSetter) = "preset"
    BY <1>t DEF SwapStates, Snapshots, Setters, Reads
  <2> DEFINE p1 == config'
  <2>3. p1 \in ProxyConfigs /\ Begins(SessionSetter, p1, fields.preset) /\ config' \in ProxyConfigs
    BY <2>1
  <2> HIDE DEF p1
  <2> QED BY <1>b, <2>2, <2>3
<1>2. ASSUME NEW w \in PresetCallers, NEW preset \in SwapPresets, SetTransportPreset(w, preset)
      PROVE  SwapInv'
  <2>1. config' \in ProxyConfigs /\ Begins(w, fields.proxy, preset)
    BY <1>2, <1>t DEF SetTransportPreset, SwapStates
  <2>2. fields.proxy \in ProxyConfigs /\ w \in Setters
    BY <1>t DEF SwapStates, Snapshots, Setters
  <2>3. Reads(w) = "proxy"
    BY DEF Reads, SwapConstants, SessionSetter
  <2> QED BY <1>b, <1>2, <2>1, <2>2, <2>3
<1>3. ASSUME NEW w \in Setters, BuildTransports(w) PROVE SwapInv'
  <2> DEFINE new == NewSet
  <2>1. PICK h3 \in H3Built(DeriveProxyRouting(change[w].proxy).udp) :
          /\ built' = [built EXCEPT ![new] =
                          Construction(change[w].proxy, change[w].preset, h3, verification)]
          /\ sets' = [sets EXCEPT ![new] = "open"]
          /\ change' = [change EXCEPT ![w].at = "publish", ![w].h3 = h3, ![w].old = new]
    BY <1>3 DEF BuildTransports, Reapplied
  <2>2. /\ change[w].at = "build" /\ Sets # SetIds
        /\ UNCHANGED <<verification, config, fields, user>>
    BY <1>3 DEF BuildTransports
  <2>3. /\ new \in SetIds /\ sets[new] = "unborn"
        /\ \A n \in SetIds : sets[n] # "unborn" <=> n <= new - 1
    BY <1>t, <2>2, NewSetNext
  <2> HIDE DEF new
  <2>4. /\ change[w] \in ChangeRecords /\ change[w].proxy \in ProxyConfigs
        /\ change[w].preset \in SwapPresets /\ verification \in {Unverified, "own"}
    BY <1>t DEF SwapStates, ChangeRecords
  <2>5. Construction(change[w].proxy, change[w].preset, h3, verification) \in Constructions
    BY <2>1, <2>3, <2>4, PlainDescription
  <2>6. h3 \in H3Builds
    BY <2>1, <2>4, RoutingTypes, H3BuiltTypes
  <2> DEFINE c == [change[w] EXCEPT !.at = "publish", !.h3 = h3, !.old = new]
  <2>7. /\ c \in ChangeRecords /\ c.at = "publish" /\ c.proxy = change[w].proxy
        /\ c.preset = change[w].preset /\ c.h3 = h3 /\ c.old = new
        /\ c.overtaken = change[w].overtaken
    BY <2>3, <2>4, <2>6 DEF ChangeRecords
  <2>8. change' = [change EXCEPT ![w] = c]
    BY <2>1
  <2> HIDE DEF c
  <2>9. /\ change' \in [Setters -> ChangeRecords] /\ change'[w] = c
        /\ \A x \in Setters : x # w => change'[x] = change[x]
    BY <1>t, <2>7, <2>8, ChangeReplaced
  <2>10. SwapStates'
    BY <1>t, <2>1, <2>2, <2>3, <2>5, <2>9 DEF SwapStates
  <2>11. BornInOrder'
    <3>1. \A n \in SetIds : sets'[n] # "unborn" <=> n <= new
      BY <1>t, <2>1, <2>3 DEF SwapStates, SetIds
    <3> QED BY <2>3, <3>1 DEF BornInOrder, SetIds
  <2>12. Sets' = Sets \cup {new} /\ new \notin Sets
    BY <1>t, <2>1, <2>3 DEF Sets, SwapStates
  <2>13. \A n \in Sets : built'[n] = built[n] /\ sets'[n] = sets[n]
    BY <1>t, <2>1, <2>12 DEF SwapStates, Sets
  <2>14. ASSUME NEW x \in Setters PROVE InHand(x)'
    <3>1. CASE x = w
      <4>1. built'[new] = Construction(change[w].proxy, change[w].preset, h3, verification)
        BY <1>t, <2>1, <2>3 DEF SwapStates
      <4>2. InHand(w)
        BY <1>t
      <4> QED BY <1>r, <2>1, <2>2, <2>7, <2>9, <2>12, <3>1, <4>1, <4>2 DEF InHand
    <3>2. CASE x # w
      BY <1>t, <2>2, <2>9, <2>12, <2>13, <3>2, InHandKept
    <3> QED BY <3>1, <3>2
  <2>15. fields' = fields /\ user' = user /\ fields.set \in Sets /\ Matches(fields)
    BY <2>2 DEF SwapInv
  <2>16. Matches(fields)'
    BY <2>2, <2>13, <2>15 DEF Matches
  <2>17. ASSUME NEW u \in SwapUsers, user'[u].at = "snapped"
         PROVE  user'[u].snap.set \in Sets' /\ Matches(user[u].snap)'
    <3>1. user[u].snap.set \in Sets /\ Matches(user[u].snap)
      BY <2>15, <2>17 DEF SwapInv
    <3> QED BY <2>2, <2>12, <2>13, <2>15, <3>1 DEF Matches
  <2>18. OnlyCurrent'
    <3>1. ASSUME NEW n \in Sets'
          PROVE  \/ sets'[n] = "closed" \/ n = fields'.set
                 \/ \E x \in Setters : change'[x].at \in {"publish", "close"} /\ n = change'[x].old
      <4>1. CASE n = new
        BY <2>7, <2>9, <4>1
      <4>2. CASE n \in Sets
        <5>1. \A x \in Setters : change[x].at \in {"publish", "close"} => x # w
          BY <2>2
        <5> QED BY <1>o, <2>9, <2>13, <2>15, <4>2, <5>1 DEF OnlyCurrent
      <4> QED BY <2>12, <3>1, <4>1, <4>2
    <3> QED BY <3>1 DEF OnlyCurrent
  <2> QED BY <2>10, <2>11, <2>12, <2>14, <2>15, <2>16, <2>17, <2>18 DEF SwapInv
<1>4. ASSUME NEW w \in Setters, PublishTransports(w) PROVE SwapInv'
  <2> DEFINE c == change[w]
             x == IF Reads(w) = "proxy" THEN fields.proxy ELSE c.proxy
             y == IF Reads(w) = "preset" THEN fields.preset ELSE c.preset
             m == IF c.overtaken THEN Reads(w) ELSE "nothing"
             closing == [NoChange EXCEPT !.at = "close", !.old = fields.set]
  <2>1. /\ c.at = "publish" /\ UNCHANGED <<verification, config, built, sets, user>>
        /\ fields' = [Described(c.proxy, c.preset, c.h3, c.old) EXCEPT
                         !.proxy = x, !.preset = y, !.mixed = m]
    BY <1>4 DEF PublishTransports, Described
  <2>2. change' = [e \in Setters |->
              IF e = w THEN closing
              ELSE IF change[e].at \in {"build", "publish"} /\ Reads(e) # Reads(w)
              THEN [change[e] EXCEPT !.overtaken = TRUE] ELSE change[e]]
    BY <1>4 DEF PublishTransports
  <2>3. /\ c \in ChangeRecords /\ c.proxy \in ProxyConfigs /\ c.overtaken \in BOOLEAN
        /\ c.preset \in SwapPresets /\ c.old \in SetIds
        /\ fields.proxy \in ProxyConfigs /\ fields.preset \in SwapPresets
        /\ fields.set \in SetIds /\ verification \in {Unverified, "own"}
    BY <1>t DEF SwapStates, ChangeRecords, Snapshots
  <2>4. Reads(w) \in {"preset", "proxy"}
    BY DEF Reads
  <2>5. /\ c.old \in Sets /\ c.h3 \in H3Built(DeriveProxyRouting(c.proxy).udp)
        /\ built[c.old] = Construction(c.proxy, c.preset, c.h3, verification)
        /\ \/ c.overtaken = TRUE
           \/ /\ Reads(w) = "preset" => c.preset = fields.preset
              /\ Reads(w) = "proxy" => c.proxy = fields.proxy
    BY <1>t, <2>1 DEF InHand
  <2>6. fields' \in Snapshots /\ fields'.set = c.old /\ Matches(fields')
    <3>1. x \in ProxyConfigs /\ y \in SwapPresets /\ m \in {"nothing", "proxy", "preset"}
      BY <2>3, <2>4
    <3>2. x = c.proxy \/ m = "proxy"
      BY <2>4, <2>5
    <3>3. y = c.preset \/ m = "preset"
      BY <2>4, <2>5
    <3> DEFINE s == Description(x, y, DeriveProxyRouting(c.proxy).tcpErr, c.h3.err, c.old, m)
    <3>4. fields' = s
      BY <2>1 DEF Described, Description
    <3> HIDE DEF x, y, m, c
    <3>5. /\ s \in Snapshots /\ s.set = c.old
          /\ built[c.old] = Construction(c.proxy, c.preset, c.h3, verification) => Matches(s)
      BY <2>3, <2>5, <3>1, <3>2, <3>3, DescribedMatches
    <3> HIDE DEF s
    <3> QED BY <2>5, <3>4, <3>5
  <2>7. /\ Reads(w) = "proxy" => fields'.proxy = fields.proxy
        /\ Reads(w) = "preset" => fields'.preset = fields.preset
    <3>1. fields'.proxy = x /\ fields'.preset = y
      BY <2>1 DEF Described
    <3> QED BY <3>1
  <2> HIDE DEF x, y, m
  <2>8. closing \in ChangeRecords /\ closing.at = "close" /\ closing.old = fields.set
    BY <2>3, NoChangeRecord DEF ChangeRecords
  <2> HIDE DEF closing
  <2>9. ASSUME NEW e \in Setters, e # w
        PROVE  /\ change'[e] \in ChangeRecords
               /\ change'[e].at = change[e].at /\ change'[e].proxy = change[e].proxy
               /\ change'[e].preset = change[e].preset /\ change'[e].h3 = change[e].h3
               /\ change'[e].old = change[e].old
               /\ \/ change'[e].overtaken = TRUE
                  \/ change'[e].overtaken = change[e].overtaken
                     /\ (change[e].at \in {"build", "publish"} => Reads(e) = Reads(w))
    <3> DEFINE d == [change[e] EXCEPT !.overtaken = TRUE]
    <3>1. change[e] \in ChangeRecords
      BY <1>t DEF SwapStates
    <3>2. /\ d.at = change[e].at /\ d.proxy = change[e].proxy /\ d.preset = change[e].preset
          /\ d.h3 = change[e].h3 /\ d.old = change[e].old /\ d.overtaken = TRUE
      BY <3>1 DEF ChangeRecords
    <3>3. d \in ChangeRecords
      BY <3>1, OvertakenField
    <3>4. change'[e] = IF change[e].at \in {"build", "publish"} /\ Reads(e) # Reads(w)
                       THEN d ELSE change[e]
      BY <2>2, <2>9
    <3> HIDE DEF d
    <3> QED BY <3>1, <3>2, <3>3, <3>4
  <2>10. change'[w] = closing
    BY <2>2
  <2>11. change' \in [Setters -> ChangeRecords]
    <3>1. \A e \in Setters : change'[e] \in ChangeRecords
      BY <2>8, <2>9, <2>10
    <3>2. change' = [e \in Setters |-> change'[e]]
      BY <2>2
    <3> QED BY <3>1, <3>2
  <2>12. SwapStates'
    BY <1>t, <2>1, <2>6, <2>11 DEF SwapStates
  <2>13. Sets' = Sets /\ BornInOrder'
    BY <1>t, <2>1 DEF Sets, BornInOrder
  <2>14. fields.set \in Sets
    BY DEF SwapInv
  <2>15. ASSUME NEW e \in Setters PROVE InHand(e)'
    <3>1. CASE e = w
      BY <2>8, <2>10, <2>13, <2>14, <3>1 DEF InHand
    <3>2. CASE e # w
      <4>1. InHand(e)
        BY <1>t
      <4>2. change'[e].at \in {"build", "publish"} =>
              \/ change'[e].overtaken = TRUE
              \/ /\ Reads(e) = "preset" => change'[e].preset = fields'.preset
                 /\ Reads(e) = "proxy" => change'[e].proxy = fields'.proxy
        BY <2>7, <2>9, <3>2, <4>1 DEF InHand
      <4>3. /\ change'[e].at \in {"publish", "close"} => change'[e].old \in Sets'
            /\ change'[e].at = "publish" =>
                  /\ change'[e].h3 \in H3Built(DeriveProxyRouting(change'[e].proxy).udp)
                  /\ built'[change'[e].old] = Construction(change'[e].proxy, change'[e].preset,
                                                            change'[e].h3, verification')
        <5>1. UNCHANGED <<built, verification>>
          BY <2>1
        <5> QED BY <2>9, <2>13, <3>2, <4>1, <5>1 DEF InHand
      <4> QED BY <1>r, <4>2, <4>3 DEF InHand
    <3> QED BY <3>1, <3>2
  <2>16. Matches(fields)'
    BY <2>1, <2>6 DEF Matches
  <2>17. \A u \in SwapUsers : user'[u].at = "snapped" =>
            user'[u].snap.set \in Sets' /\ Matches(user[u].snap)'
    BY <2>1, <2>13 DEF SwapInv, Matches
  <2>18. OnlyCurrent'
    <3>1. ASSUME NEW n \in Sets'
          PROVE  \/ sets'[n] = "closed" \/ n = fields'.set
                 \/ \E e \in Setters : change'[e].at \in {"publish", "close"} /\ n = change'[e].old
      <4>1. CASE n = fields.set
        BY <2>8, <2>10, <4>1
      <4>2. CASE sets[n] = "closed"
        BY <2>1, <4>2
      <4>3. ASSUME NEW e \in Setters, change[e].at \in {"publish", "close"}, n = change[e].old
            PROVE  \/ n = fields'.set
                   \/ \E z \in Setters : change'[z].at \in {"publish", "close"} /\ n = change'[z].old
        <5>1. CASE e = w
          BY <2>6, <4>3, <5>1
        <5>2. CASE e # w
          BY <2>9, <4>3, <5>2
        <5> QED BY <5>1, <5>2
      <4> QED BY <1>o, <2>13, <4>1, <4>2, <4>3 DEF OnlyCurrent
    <3> QED BY <3>1 DEF OnlyCurrent
  <2>19. fields'.set \in Sets'
    BY <2>5, <2>6, <2>13
  <2> QED BY <2>12, <2>13, <2>15, <2>16, <2>17, <2>18, <2>19 DEF SwapInv
<1>s. ASSUME NEW n \in Sets, NEW state \in {"draining", "closed"},
             sets' = [sets EXCEPT ![n] = state],
             UNCHANGED <<verification, config, fields, built, user>>
      PROVE  /\ Sets' = Sets /\ BornInOrder' /\ fields'.set \in Sets' /\ Matches(fields)'
             /\ \A u \in SwapUsers : user'[u].at = "snapped" =>
                  user'[u].snap.set \in Sets' /\ Matches(user[u].snap)'
             /\ sets' \in [SetIds -> {"unborn", "open", "draining", "closed"}]
             /\ \A k \in Sets : sets'[k] = IF k = n THEN state ELSE sets[k]
  <2>1. n \in SetIds /\ sets[n] # "unborn"
    BY <1>s DEF Sets
  <2>2. /\ sets' \in [SetIds -> {"unborn", "open", "draining", "closed"}]
        /\ \A k \in SetIds : sets'[k] = IF k = n THEN state ELSE sets[k]
    BY <1>s, <1>t, <2>1 DEF SwapStates
  <2>3. \A k \in SetIds : sets'[k] # "unborn" <=> sets[k] # "unborn"
    BY <1>s, <2>1, <2>2
  <2>4. Sets' = Sets /\ BornInOrder'
    BY <1>t, <2>3 DEF Sets, BornInOrder
  <2>5. fields'.set \in Sets' /\ Matches(fields)'
    BY <1>s, <2>4 DEF SwapInv, Matches
  <2>6. \A u \in SwapUsers : user'[u].at = "snapped" =>
           user'[u].snap.set \in Sets' /\ Matches(user[u].snap)'
    BY <1>s, <2>4 DEF SwapInv, Matches
  <2>7. \A k \in Sets : k \in SetIds
    BY DEF Sets
  <2> QED BY <2>2, <2>4, <2>5, <2>6, <2>7
<1>5. ASSUME NEW w \in Setters, CloseSuperseded(w) PROVE SwapInv'
  <2>1. /\ change[w].at = "close" /\ sets' = [sets EXCEPT ![change[w].old] = "closed"]
        /\ change' = [change EXCEPT ![w] = NoChange]
        /\ UNCHANGED <<verification, config, fields, built, user>>
    BY <1>5 DEF CloseSuperseded
  <2>2. change[w].old \in Sets
    BY <1>t, <2>1 DEF InHand
  <2>3. /\ change' \in [Setters -> ChangeRecords] /\ change'[w] = NoChange
        /\ \A x \in Setters : x # w => change'[x] = change[x]
    BY <1>t, <2>1, NoChangeRecord, ChangeReplaced
  <2> DEFINE n == change[w].old
             state == "closed"
  <2>o. /\ n \in Sets /\ state \in {"draining", "closed"} /\ sets' = [sets EXCEPT ![n] = state]
    BY <2>1, <2>2
  <2> HIDE DEF n, state
  <2>4. /\ Sets' = Sets /\ sets' \in [SetIds -> {"unborn", "open", "draining", "closed"}]
        /\ \A k \in Sets : sets'[k] = IF k = n THEN state ELSE sets[k]
    BY <1>s, <2>o, <2>1
  <2>k. /\ BornInOrder' /\ fields'.set \in Sets' /\ Matches(fields)'
        /\ \A u \in SwapUsers : user'[u].at = "snapped" =>
              user'[u].snap.set \in Sets' /\ Matches(user[u].snap)'
    BY <1>s, <2>o, <2>1
  <2> USE DEF n, state
  <2>5. SwapStates'
    BY <1>t, <2>1, <2>3, <2>4 DEF SwapStates
  <2>6. ASSUME NEW x \in Setters PROVE InHand(x)'
    <3>1. CASE x = w
      BY <2>3, <3>1, NoChangeRecord DEF InHand
    <3>2. CASE x # w
      BY <1>t, <2>1, <2>3, <2>4, <3>2, InHandKept
    <3> QED BY <3>1, <3>2
  <2>7. OnlyCurrent'
    BY <1>o, <2>1, <2>3, <2>4 DEF OnlyCurrent
  <2> QED BY <2>1, <2>4, <2>5, <2>6, <2>7, <2>k DEF SwapInv
<1>6. ASSUME CloseTransports \/ DrainTransports PROVE SwapInv'
  <2>1. PICK state \in {"draining", "closed"} :
          /\ sets' = [sets EXCEPT ![fields.set] = state] /\ change' = change
          /\ UNCHANGED <<verification, config, fields, built, user>>
    BY <1>6 DEF CloseTransports, DrainTransports
  <2> DEFINE n == fields.set
  <2>2. n \in Sets /\ sets' = [sets EXCEPT ![n] = state]
    BY <2>1 DEF SwapInv
  <2> HIDE DEF n
  <2>3. /\ Sets' = Sets /\ sets' \in [SetIds -> {"unborn", "open", "draining", "closed"}]
        /\ \A k \in Sets : sets'[k] = IF k = n THEN state ELSE sets[k]
    BY <1>s, <2>1, <2>2
  <2>k. /\ BornInOrder' /\ fields'.set \in Sets' /\ Matches(fields)'
        /\ \A u \in SwapUsers : user'[u].at = "snapped" =>
              user'[u].snap.set \in Sets' /\ Matches(user[u].snap)'
    BY <1>s, <2>1, <2>2
  <2> USE DEF n
  <2>4. SwapStates'
    BY <1>t, <2>1, <2>3 DEF SwapStates
  <2>5. \A x \in Setters : InHand(x)'
    BY <1>t, <2>1, <2>3, InHandKept
  <2>6. OnlyCurrent'
    BY <1>o, <2>1, <2>3 DEF OnlyCurrent
  <2> QED BY <2>1, <2>3, <2>4, <2>5, <2>6, <2>k DEF SwapInv
<1>k. ASSUME NEW u \in SwapUsers, NEW at \in {"idle", "started", "snapped"}, NEW snap \in Snapshots,
             user' = [user EXCEPT ![u] = [at |-> at, snap |-> snap]],
             UNCHANGED <<verification, config, fields, built, sets, change>>,
             at = "snapped" => snap.set \in Sets /\ Matches(snap)
      PROVE  SwapInv'
  <2>1. user' \in [SwapUsers -> [at : {"idle", "started", "snapped"}, snap : Snapshots]]
    BY <1>k, <1>t DEF SwapStates
  <2>2. SwapStates'
    BY <1>k, <1>t, <2>1 DEF SwapStates
  <2>3. Sets' = Sets /\ BornInOrder' /\ \A w \in Setters : InHand(w)'
    <3>1. Sets' = Sets /\ BornInOrder'
      BY <1>k, <1>t DEF Sets, BornInOrder
    <3> QED BY <1>k, <1>t, <3>1, InHandKept
  <2>4. ASSUME NEW x \in SwapUsers, user'[x].at = "snapped"
        PROVE  user'[x].snap.set \in Sets' /\ Matches(user[x].snap)'
    <3>1. CASE x = u
      <4>1. user'[x] = [at |-> at, snap |-> snap]
        BY <1>k, <1>t, <3>1 DEF SwapStates
      <4>2. user'[x].snap = snap /\ snap.set \in Sets /\ Matches(snap)
        BY <1>k, <2>4, <4>1
      <4> QED BY <1>k, <2>3, <4>2 DEF Matches
    <3>2. CASE x # u
      <4>1. user'[x] = user[x]
        BY <1>k, <1>t, <3>2 DEF SwapStates
      <4>2. user[x].snap.set \in Sets /\ Matches(user[x].snap)
        BY <2>4, <4>1 DEF SwapInv
      <4> QED BY <1>k, <2>3, <4>1, <4>2 DEF Matches
    <3> QED BY <3>1, <3>2
  <2>5. fields'.set \in Sets' /\ Matches(fields)'
    BY <1>k, <2>3 DEF SwapInv, Matches
  <2> QED BY <1>k, <2>2, <2>3, <2>4, <2>5 DEF SwapInv, OnlyCurrent
<1>7. ASSUME NEW u \in SwapUsers, StartUser(u) PROVE SwapInv'
  <2>1. user[u] = [at |-> user[u].at, snap |-> user[u].snap] /\ user[u].snap \in Snapshots
    BY <1>t DEF SwapStates
  <2>2. user' = [user EXCEPT ![u] = [at |-> "started", snap |-> user[u].snap]]
    <3>1. [user[u] EXCEPT !.at = "started"] = [at |-> "started", snap |-> user[u].snap]
      BY <2>1
    <3>2. user' = [user EXCEPT ![u] = [user[u] EXCEPT !.at = "started"]]
      BY <1>7 DEF StartUser
    <3> QED BY <3>1, <3>2
  <2> QED BY <1>7, <1>k, <2>1, <2>2 DEF StartUser
<1>8. ASSUME NEW u \in SwapUsers, TakeSnapshot(u) PROVE SwapInv'
  BY <1>8, <1>k, <1>t DEF TakeSnapshot, SwapInv, SwapStates
<1>9. ASSUME NEW u \in SwapUsers, EndUser(u) PROVE SwapInv'
  <2> DEFINE snap == Described(NoProxyConfig, FirstPreset, NoChange.h3, 1)
  <2>1. snap \in Snapshots
    <3>1. NoProxyConfig \in ProxyConfigs /\ FirstPreset \in SwapPresets /\ 1 \in SetIds
      BY DEF NoProxyConfig, ProxyConfigs, SwapConstants, SetIds
    <3>2. NoChange.h3 \in H3Built(DeriveProxyRouting(NoProxyConfig).udp)
      BY NoProxyBuilt
    <3> QED BY <1>t, <3>1, <3>2, PlainDescription DEF SwapStates
  <2>2. user' = [user EXCEPT ![u] = [at |-> "idle", snap |-> snap]]
    BY <1>9 DEF EndUser, NoUser
  <2> HIDE DEF snap
  <2> QED BY <1>9, <1>k, <2>1, <2>2 DEF EndUser
<1>10. CASE UNCHANGED swapVars
  <2>1. UNCHANGED <<verification, config, fields, built, sets, change, user>>
    BY <1>10 DEF swapVars
  <2>2. Sets' = Sets
    BY <2>1 DEF Sets
  <2>3. \A w \in Setters : InHand(w)'
    BY <1>t, <2>1, <2>2, InHandKept
  <2> QED BY <2>1, <2>2, <2>3 DEF SwapInv, OnlyCurrent, SwapStates, BornInOrder, Matches
<1>11. \A p \in SwapProxies \cup {NoProxy} : p \in Proxies
  BY DEF Proxies, ProxyURLs, SwapConstants
<1> QED BY <1>1, <1>2, <1>3, <1>4, <1>5, <1>6, <1>7, <1>8, <1>9, <1>10, <1>11 DEF SwapNext

\* What the type invariant says besides.
SwapBounds == life \in {"active", "draining", "closed"}

\* Every step of an operation or a request keeps it.
LEMMA SwapBoundsStep ==
  ASSUME SwapBounds, [SwapNext]_swapVars
  PROVE  SwapBounds'
<1>1. ASSUME UNCHANGED life PROVE SwapBounds'
  BY <1>1 DEF SwapBounds
<1>2. CASE CloseTransports \/ DrainTransports
  BY <1>2 DEF CloseTransports, DrainTransports, SwapBounds
<1>3. CASE \/ \E p : SetUnifiedProxy(p) \/ SetTCPProxy(p) \/ SetUDPProxyOf(p)
           \/ \E w, preset : SetTransportPreset(w, preset)
  BY <1>1, <1>3 DEF SetUnifiedProxy, SetTCPProxy, SetUDPProxyOf, SetTransportPreset, Begins
<1>4. CASE \E w : BuildTransports(w) \/ PublishTransports(w) \/ CloseSuperseded(w)
  BY <1>1, <1>4 DEF BuildTransports, PublishTransports, CloseSuperseded
<1>5. CASE \E u \in SwapUsers : StartUser(u) \/ TakeSnapshot(u) \/ EndUser(u)
  BY <1>1, <1>5 DEF StartUser, TakeSnapshot, EndUser
<1>6. CASE UNCHANGED swapVars
  BY <1>1, <1>6 DEF swapVars
<1> QED BY <1>2, <1>3, <1>4, <1>5, <1>6 DEF SwapNext

\* The invariant gives the type invariant.
LEMMA SwapTyped ==
  ASSUME SwapInv, SwapBounds
  PROVE  SwapTypeOK
<1>1. /\ config \in ProxyConfigs /\ fields \in Snapshots /\ fields.set \in Sets
      /\ sets \in [SetIds -> {"unborn", "open", "draining", "closed"}]
  BY DEF SwapInv, SwapStates
<1>2. fields.proxy \in ProxyConfigs /\ fields.preset \in SwapPresets
  BY <1>1 DEF Snapshots
<1>3. \A w \in Setters : change[w].at \in {"idle", "build", "publish", "close"}
  BY DEF SwapInv, SwapStates, ChangeRecords
<1>4. \A u \in SwapUsers : user[u].at \in {"idle", "started", "snapped"}
  BY DEF SwapInv, SwapStates
<1> QED BY <1>1, <1>2, <1>3, <1>4 DEF SwapTypeOK, SwapBounds

\* One set is built at first and described by the fields.
LEMMA SwapStarts ==
  ASSUME SwapInit
  PROVE  SwapInv /\ SwapBounds
<1>1. PICK p \in Proxies : config = [NoProxyConfig EXCEPT !.url = p]
  BY SwapConstants DEF SwapInit, Proxies, ProxyURLs, SwapConstants
<1>2. config \in ProxyConfigs /\ config.url = p /\ config.udp = NoProxy
  BY <1>1 DEF ProxyConfigs, NoProxyConfig, Proxies
<1>3. PICK h3 \in H3Built(config.url) :
        /\ fields = Described(config, FirstPreset, h3, 1)
        /\ built = [n \in SetIds |-> Construction(config, FirstPreset, h3, verification)]
  BY DEF SwapInit
<1>4. DeriveProxyRouting(config).udp = config.url
  BY <1>2 DEF DeriveProxyRouting, OrElse
<1>5. FirstPreset \in SwapPresets /\ 1 \in SetIds /\ \A n \in SetIds : n \in Nat /\ n >= 1
  BY SwapConstants DEF SwapConstants, SetIds
<1>6. verification \in {Unverified, "own"} /\ change = [w \in Setters |-> NoChange]
      /\ sets = [n \in SetIds |-> IF n = 1 THEN "open" ELSE "unborn"]
      /\ user = [u \in SwapUsers |-> NoUser]
  BY DEF SwapInit
<1>7. built[1] = Construction(config, FirstPreset, h3, verification)
  BY <1>3, <1>5
<1>8. fields \in Snapshots /\ Matches(fields) /\ fields.set = 1
      /\ Construction(config, FirstPreset, h3, verification) \in Constructions
  BY <1>2, <1>3, <1>4, <1>5, <1>6, <1>7, PlainDescription
<1>9. NoProxyConfig \in ProxyConfigs /\ NoChange.h3 \in H3Builds
  BY DEF NoProxyConfig, ProxyConfigs, NoChange, H3Builds, Proxies
<1>10. NoUser \in [at : {"idle", "started", "snapped"}, snap : Snapshots] /\ NoUser.at = "idle"
  <2>1. NoChange.h3 \in H3Built(DeriveProxyRouting(NoProxyConfig).udp)
    BY NoProxyBuilt
  <2>2. Described(NoProxyConfig, FirstPreset, NoChange.h3, 1) \in Snapshots
    BY <1>5, <1>6, <1>9, <2>1, PlainDescription
  <2> QED BY <2>2 DEF NoUser
<1>11. SwapStates
  <2>1. change \in [Setters -> ChangeRecords]
    BY <1>6, NoChangeRecord, SwapConstants
  <2> QED BY <1>2, <1>3, <1>5, <1>6, <1>8, <1>10, <2>1 DEF SwapStates
<1>12. BornInOrder /\ Sets = {1}
  BY <1>5, <1>6 DEF BornInOrder, Sets
<1>13. \A w \in Setters : InHand(w)
  <2>1. \A w \in Setters : change[w].at = "idle"
    BY <1>6, NoChangeRecord, SwapConstants
  <2> QED BY <2>1 DEF InHand
<1>14. SwapInv
  BY <1>6, <1>8, <1>10, <1>11, <1>12, <1>13 DEF SwapInv, OnlyCurrent
<1> QED BY <1>14 DEF SwapInit, SwapBounds

\* However the proxy operations of the session, any number of calls of SetPreset beside
\* them and the requests interleave: what a request read of the transports in one
\* snapshot describes the set it will use, except the proxy, or the preset, that the
\* other kind of operation published while that set was built; and a set that was
\* replaced is closed or about to be.
THEOREM SwapSafe == SwapSpec => [](SwapTypeOK /\ SwapSound)
<1>1. SwapInit => SwapInv /\ SwapBounds
  BY SwapStarts
<1>2. SwapInv /\ SwapBounds /\ [SwapNext]_swapVars => (SwapInv /\ SwapBounds)'
  BY SwapStep, SwapBoundsStep, SwapConstants
<1>3. SwapInv /\ SwapBounds => SwapTypeOK /\ SwapSound
  BY SwapTyped DEF SwapInv, OnlyCurrent, SwapSound
<1> QED BY <1>1, <1>2, <1>3, PTL DEF SwapSpec

-----------------------------------------------------------------------------
(* MasqueTunnel.                                                           *)

DialRecords ==
    [at : DialStages, target : TunnelTargets \cup {""}, tried : 0..ProxyAddrs,
     sock : 0..MaxTunnelSockets, granted : 0..MaxTunnelSockets]
TunnelStates ==
    /\ tunnel \in [established : BOOLEAN, closed : BOOLEAN, target : TunnelTargets \cup {""},
                   udpConn : 0..MaxTunnelSockets, ctx : 0..MaxTunnelSockets,
                   locked : BOOLEAN]
    /\ tunnelSocket \in [TunnelSockets ->
           [state : {"none", "open", "ended", "closed"}, bound : TunnelTargets \cup {""}]]
    /\ tunnelDial \in [TunnelDialers -> DialRecords]

\* An Establish that runs, and one that has a socket of its own.
HasSocket(d) == tunnelDial[d].at \in {"settings", "offered", "connectUDP"}
Building(d) == tunnelDial[d].at = "proxy" \/ HasSocket(d)

\* Establish is alone, on a tunnel that is not up, for the target it recorded.
Alone ==
    \A d \in TunnelDialers : Building(d) =>
        /\ tunnel.locked /\ ~tunnel.established /\ tunnel.target = tunnelDial[d].target
        /\ \A e \in TunnelDialers : Building(e) => e = d

\* The socket of an Establish was given to nobody, so that naming a target in
\* its CONNECT-UDP changes no tunnel that a dialer was let through to.
SocketKept ==
    \A d \in TunnelDialers :
        /\ HasSocket(d) => /\ tunnelDial[d].sock # 0
                           /\ tunnelSocket[tunnelDial[d].sock].state # "none"
                           /\ \A e \in TunnelDialers : tunnelDial[e].granted # tunnelDial[d].sock
        /\ tunnelDial[d].at = "connectUDP" =>
              tunnelSocket[tunnelDial[d].sock].bound = tunnel.target
        /\ tunnelDial[d].at \in {"idle", "proxy"} => tunnelDial[d].sock = 0
        /\ tunnelDial[d].at = "idle" \/ Building(d) => tunnelDial[d].granted = 0

\* The tunnel's own socket goes with established, and names its target.
OwnSocket ==
    /\ ~tunnel.established => tunnel.udpConn = 0
    /\ tunnel.udpConn # 0 => /\ tunnelSocket[tunnel.udpConn].state # "none"
                             /\ tunnelSocket[tunnel.udpConn].bound = tunnel.target

NoneLost ==
    \A s \in TunnelSockets : tunnelSocket[s].state \in {"open", "ended"} =>
        s = tunnel.udpConn \/ \E d \in TunnelDialers : HasSocket(d) /\ tunnelDial[d].sock = s

GrantsMatch ==
    \A d \in TunnelDialers : tunnelDial[d].granted # 0 =>
        /\ tunnelSocket[tunnelDial[d].granted].state # "none"
        /\ tunnelSocket[tunnelDial[d].granted].bound = tunnelDial[d].target

TunnelInv ==
    TunnelStates /\ Alone /\ SocketKept /\ OwnSocket /\ NoneLost /\ GrantsMatch

\* Sockets are numbered from one.
LEMMA SocketNumbers ==
  ASSUME TunnelConstants, NEW n \in 0..MaxTunnelSockets
  PROVE  n # 0 <=> n \in TunnelSockets
BY DEF TunnelConstants, TunnelSockets

\* Every step of the dialers, of the proxy, of Close and of Reset keeps TunnelInv.
LEMMA TunnelStep ==
  ASSUME TunnelConstants, TunnelInv, [TunnelNext]_tunnelVars
  PROVE  TunnelInv'
<1> USE DEF DialStages
<1>t. TunnelStates /\ Alone /\ SocketKept /\ OwnSocket /\ NoneLost /\ GrantsMatch
  BY DEF TunnelInv
<1>n. /\ tunnel.udpConn \in 0..MaxTunnelSockets
      /\ tunnel.udpConn # 0 => tunnel.udpConn \in TunnelSockets
      /\ \A d \in TunnelDialers : /\ tunnelDial[d].sock \in 0..MaxTunnelSockets
                                  /\ tunnelDial[d].granted \in 0..MaxTunnelSockets
                                  /\ tunnelDial[d].sock # 0 => tunnelDial[d].sock \in TunnelSockets
                                  /\ tunnelDial[d].granted # 0 =>
                                        tunnelDial[d].granted \in TunnelSockets
  BY <1>t, SocketNumbers DEF TunnelStates, DialRecords
<1>z. 0 \in 0..MaxTunnelSockets /\ 0 \in 0..ProxyAddrs /\ 0 \notin TunnelSockets
      /\ TunnelSockets \subseteq 0..MaxTunnelSockets
  BY DEF TunnelConstants, TunnelSockets
<1>r. \A d \in TunnelDialers : /\ tunnelDial[d] \in DialRecords /\ tunnelDial[d].at \in DialStages
                             /\ tunnelDial[d].target \in TunnelTargets \cup {""}
  BY <1>t DEF TunnelStates, DialRecords
<1>d. ASSUME NEW d \in TunnelDialers, NEW n \in DialRecords,
             tunnelDial' = [tunnelDial EXCEPT ![d] = n]
      PROVE  /\ tunnelDial' \in [TunnelDialers -> DialRecords] /\ tunnelDial'[d] = n
             /\ \A e \in TunnelDialers : e # d => tunnelDial'[e] = tunnelDial[e]
  BY <1>d, <1>t DEF TunnelStates
<1>h. ASSUME NEW d \in TunnelDialers, NEW n \in DialRecords,
             tunnelDial' = [tunnelDial EXCEPT ![d] = n],
             UNCHANGED <<tunnel, tunnelSocket>>,
             tunnelDial[d].at \in {"resolve", "inner", "write", "read", "select"},
             n.at \in {"resolve", "inner", "write", "read", "select", "failed"},
             n.granted = tunnelDial[d].granted, n.target = tunnelDial[d].target
      PROVE  TunnelInv'
  <2>1. /\ tunnelDial' \in [TunnelDialers -> DialRecords] /\ tunnelDial'[d] = n
        /\ \A e \in TunnelDialers : e # d => tunnelDial'[e] = tunnelDial[e]
    BY <1>d, <1>h
  <2>2. TunnelStates' /\ OwnSocket'
    BY <1>h, <1>t, <2>1 DEF TunnelStates, OwnSocket
  <2>3. /\ \A e \in TunnelDialers : HasSocket(e)' <=> HasSocket(e)
        /\ \A e \in TunnelDialers : Building(e)' <=> Building(e)
        /\ \A e \in TunnelDialers : tunnelDial'[e].granted = tunnelDial[e].granted
                                    /\ tunnelDial'[e].target = tunnelDial[e].target
        /\ \A e \in TunnelDialers : HasSocket(e) => tunnelDial'[e] = tunnelDial[e]
    BY <1>h, <2>1 DEF HasSocket, Building
  <2>4. Alone'
    BY <1>h, <1>t, <2>3 DEF Alone
  <2>5. SocketKept'
    BY <1>h, <1>t, <2>1, <2>3 DEF SocketKept, HasSocket, Building
  <2>6. NoneLost'
    BY <1>h, <1>t, <2>3 DEF NoneLost
  <2>7. GrantsMatch'
    BY <1>h, <1>t, <2>3 DEF GrantsMatch
  <2> QED BY <2>2, <2>4, <2>5, <2>6, <2>7 DEF TunnelInv
<1>1. ASSUME NEW d \in TunnelDialers, DialInner(d) PROVE TunnelInv'
  <2>1. PICK next \in {"inner", "failed"} :
          tunnelDial' = [tunnelDial EXCEPT ![d] = [tunnelDial[d] EXCEPT !.at = next]]
    BY <1>1 DEF DialInner, At
  <2> DEFINE n == [tunnelDial[d] EXCEPT !.at = next]
  <2>2. n \in DialRecords /\ n.at = next /\ n.granted = tunnelDial[d].granted
        /\ n.target = tunnelDial[d].target
    BY <1>r DEF DialRecords
  <2>3. tunnelDial[d].at = "resolve" /\ UNCHANGED <<tunnel, tunnelSocket>>
    BY <1>1 DEF DialInner
  <2> HIDE DEF n
  <2> QED BY <1>h, <2>1, <2>2, <2>3 DEF n
<1>2. ASSUME NEW d \in TunnelDialers, NEW op \in {"write", "read"}, UseTunnel(d, op)
      PROVE  TunnelInv'
  <2> DEFINE at == IF tunnel.closed \/ ~tunnel.established THEN "failed" ELSE op
             sock == IF tunnel.closed \/ op = "read" THEN 0 ELSE tunnel.udpConn
             n == [tunnelDial[d] EXCEPT !.at = at, !.sock = sock]
  <2>1. tunnelDial' = [tunnelDial EXCEPT ![d] = n]
    BY <1>2 DEF UseTunnel
  <2>2. at \in {"write", "read", "failed"} /\ sock \in 0..MaxTunnelSockets
    BY <1>n, <1>z
  <2> HIDE DEF at, sock
  <2>3. n \in DialRecords /\ n.at = at /\ n.granted = tunnelDial[d].granted
        /\ n.target = tunnelDial[d].target
    BY <1>r, <2>2 DEF DialRecords
  <2>4. tunnelDial[d].at = "inner" /\ UNCHANGED <<tunnel, tunnelSocket>>
    BY <1>2 DEF UseTunnel
  <2> HIDE DEF n
  <2> QED BY <1>h, <2>1, <2>2, <2>3, <2>4
<1>3. ASSUME NEW d \in TunnelDialers, WriteTo(d) PROVE TunnelInv'
  <2> DEFINE at == IF tunnelSocket[tunnelDial[d].sock].state = "open" THEN "inner" ELSE "failed"
             n == [tunnelDial[d] EXCEPT !.sock = 0, !.at = at]
  <2>1. tunnelDial' = [tunnelDial EXCEPT ![d] = n]
    BY <1>3 DEF WriteTo
  <2>2. at \in {"inner", "failed"}
    OBVIOUS
  <2> HIDE DEF at
  <2>3. n \in DialRecords /\ n.at = at /\ n.granted = tunnelDial[d].granted
        /\ n.target = tunnelDial[d].target
    BY <1>r, <1>z, <2>2 DEF DialRecords
  <2>4. tunnelDial[d].at = "write" /\ UNCHANGED <<tunnel, tunnelSocket>>
    BY <1>3 DEF WriteTo
  <2> HIDE DEF n
  <2> QED BY <1>h, <2>1, <2>2, <2>3, <2>4
<1>4. ASSUME NEW d \in TunnelDialers, SelectRead(d) PROVE TunnelInv'
  <2> DEFINE n == [tunnelDial[d] EXCEPT !.at = "select", !.sock = tunnel.ctx]
  <2>1. tunnelDial' = [tunnelDial EXCEPT ![d] = n]
    BY <1>4 DEF SelectRead
  <2>2. tunnel.ctx \in 0..MaxTunnelSockets
    BY <1>t DEF TunnelStates
  <2>3. n \in DialRecords /\ n.at = "select" /\ n.granted = tunnelDial[d].granted
        /\ n.target = tunnelDial[d].target
    BY <1>r, <2>2 DEF DialRecords
  <2>4. tunnelDial[d].at = "read" /\ UNCHANGED <<tunnel, tunnelSocket>>
    BY <1>4 DEF SelectRead
  <2> HIDE DEF n
  <2> QED BY <1>h, <2>1, <2>3, <2>4
<1>5. ASSUME NEW d \in TunnelDialers, ReadFrom(d) PROVE TunnelInv'
  <2>1. PICK at \in {"inner", "failed"} :
          tunnelDial' = [tunnelDial EXCEPT ![d] = [tunnelDial[d] EXCEPT !.at = at, !.sock = 0]]
    BY <1>5 DEF ReadFrom
  <2> DEFINE n == [tunnelDial[d] EXCEPT !.at = at, !.sock = 0]
  <2>2. n \in DialRecords /\ n.at = at /\ n.granted = tunnelDial[d].granted
        /\ n.target = tunnelDial[d].target
    BY <1>r, <1>z DEF DialRecords
  <2>3. tunnelDial[d].at = "select" /\ UNCHANGED <<tunnel, tunnelSocket>>
    BY <1>5 DEF ReadFrom
  <2> HIDE DEF n
  <2> QED BY <1>h, <2>1, <2>2, <2>3 DEF n
<1>u. ASSUME UNCHANGED <<tunnel, tunnelSocket, tunnelDial>> PROVE TunnelInv'
  <2>1. TunnelStates' /\ OwnSocket' /\ GrantsMatch'
    BY <1>u, <1>t DEF TunnelStates, OwnSocket, GrantsMatch
  <2>2. \A d \in TunnelDialers : (HasSocket(d)' <=> HasSocket(d)) /\ (Building(d)' <=> Building(d))
    BY <1>u DEF HasSocket, Building
  <2>3. Alone' /\ NoneLost'
    BY <1>u, <1>t, <2>2 DEF Alone, NoneLost
  <2>4. SocketKept'
    BY <1>u, <1>t, <2>2 DEF SocketKept
  <2> QED BY <2>1, <2>3, <2>4 DEF TunnelInv
<1>6. ASSUME NEW s \in TunnelSockets, ReceiveDatagram(s) \/ ReceiverExits(s) PROVE TunnelInv'
  BY <1>6, <1>u DEF ReceiveDatagram, ReceiverExits
<1>7. ASSUME NEW s \in TunnelSockets, ProxyEnds(s) PROVE TunnelInv'
  <2>1. /\ tunnelSocket[s].state = "open" /\ UNCHANGED <<tunnel, tunnelDial>>
        /\ tunnelSocket' = [tunnelSocket EXCEPT ![s].state = "ended"]
    BY <1>7 DEF ProxyEnds
  <2>2. /\ tunnelSocket' \in [TunnelSockets ->
              [state : {"none", "open", "ended", "closed"}, bound : TunnelTargets \cup {""}]]
        /\ \A x \in TunnelSockets :
              /\ tunnelSocket'[x].bound = tunnelSocket[x].bound
              /\ tunnelSocket'[x].state = IF x = s THEN "ended" ELSE tunnelSocket[x].state
    BY <1>t, <2>1 DEF TunnelStates
  <2>3. TunnelStates' /\ Alone'
    BY ZenonT(60), <1>t, <2>1, <2>2 DEF TunnelStates, Alone, HasSocket, Building
  <2>4. /\ \A x \in TunnelSockets :
              tunnelSocket'[x].state # "none" <=> tunnelSocket[x].state # "none"
        /\ \A x \in TunnelSockets :
              tunnelSocket'[x].state \in {"open", "ended"} =>
                 tunnelSocket[x].state \in {"open", "ended"}
    BY ZenonT(60), <2>1, <2>2
  <2>5. \A d \in TunnelDialers : (HasSocket(d)' <=> HasSocket(d)) /\ (Building(d)' <=> Building(d))
    BY <2>1 DEF HasSocket, Building
  <2>6. OwnSocket' /\ GrantsMatch'
    <3>1. /\ \A x \in TunnelSockets : tunnelSocket'[x].bound = tunnelSocket[x].bound
          /\ tunnel' = tunnel /\ tunnelDial' = tunnelDial
      BY <2>1, <2>2
    <3>2. OwnSocket'
      BY <1>n, <1>t, <2>4, <3>1 DEF OwnSocket
    <3>3. GrantsMatch'
      BY <1>n, <1>t, <2>4, <3>1 DEF GrantsMatch
    <3> QED BY <3>2, <3>3
  <2>7. SocketKept'
    <3>1. \A d \in TunnelDialers : tunnelDial[d].at = "connectUDP" => HasSocket(d)
      BY DEF HasSocket
    <3>2. /\ \A x \in TunnelSockets : tunnelSocket'[x].bound = tunnelSocket[x].bound
          /\ tunnel' = tunnel /\ tunnelDial' = tunnelDial
      BY <2>1, <2>2
    <3> QED BY <1>n, <1>t, <2>4, <2>5, <3>1, <3>2 DEF SocketKept
  <2>8. NoneLost'
    BY <1>t, <2>1, <2>4, <2>5 DEF NoneLost
  <2> QED BY <2>3, <2>6, <2>7, <2>8 DEF TunnelInv
<1>8. ASSUME Reset \/ CloseTunnelConn PROVE TunnelInv'
  <2>1. CASE UNCHANGED <<tunnel, tunnelSocket>>
    BY <1>8, <1>u, <2>1 DEF Reset, CloseTunnelConn
  <2>2. CASE ~UNCHANGED <<tunnel, tunnelSocket>>
    <3>1. /\ ~tunnel.locked /\ UNCHANGED tunnelDial /\ tunnelSocket' = TearDown
          /\ \/ tunnel' = [tunnel EXCEPT !.udpConn = 0, !.established = FALSE]
             \/ tunnel' = [tunnel EXCEPT !.closed = TRUE, !.udpConn = 0]
      BY <1>8, <2>2 DEF Reset, CloseTunnelConn
    <3>2. /\ tunnelSocket' \in [TunnelSockets ->
                [state : {"none", "open", "ended", "closed"}, bound : TunnelTargets \cup {""}]]
          /\ \A x \in TunnelSockets :
                /\ tunnelSocket'[x].bound = tunnelSocket[x].bound
                /\ tunnelSocket'[x].state =
                      IF x = tunnel.udpConn THEN "closed" ELSE tunnelSocket[x].state
      <4>1. ASSUME NEW x \in TunnelSockets
            PROVE  /\ tunnelSocket'[x] = IF x = tunnel.udpConn
                                         THEN [tunnelSocket[x] EXCEPT !.state = "closed"]
                                         ELSE tunnelSocket[x]
                   /\ tunnelSocket[x] \in [state : {"none", "open", "ended", "closed"},
                                          bound : TunnelTargets \cup {""}]
        BY <1>t, <3>1, <4>1 DEF TunnelStates, TearDown
      <4>2. ASSUME NEW x \in TunnelSockets
            PROVE  /\ tunnelSocket'[x] \in [state : {"none", "open", "ended", "closed"},
                                            bound : TunnelTargets \cup {""}]
                   /\ tunnelSocket'[x].bound = tunnelSocket[x].bound
                   /\ tunnelSocket'[x].state
                         = IF x = tunnel.udpConn THEN "closed" ELSE tunnelSocket[x].state
        BY ZenonT(60), <4>1, <4>2
      <4>3. tunnelSocket' = [x \in TunnelSockets |-> tunnelSocket'[x]]
        BY <3>1 DEF TearDown
      <4> QED BY <4>2, <4>3
    <3>3. /\ tunnel' \in [established : BOOLEAN, closed : BOOLEAN, target : TunnelTargets \cup {""},
                          udpConn : 0..MaxTunnelSockets, ctx : 0..MaxTunnelSockets,
                          locked : BOOLEAN]
          /\ tunnel'.udpConn = 0
      BY <1>t, <1>z, <3>1 DEF TunnelStates
    <3>4. \A d \in TunnelDialers : ~Building(d) /\ ~HasSocket(d)
      BY <1>t, <3>1 DEF Alone, Building
    <3>5. \A d \in TunnelDialers : ~Building(d)' /\ ~HasSocket(d)'
      BY <3>1, <3>4 DEF Building, HasSocket
    <3>6. TunnelStates' /\ Alone' /\ OwnSocket'
      BY <1>t, <3>1, <3>2, <3>3, <3>5 DEF TunnelStates, Alone, OwnSocket
    <3>7. GrantsMatch'
      BY <1>n, <1>t, <3>1, <3>2 DEF GrantsMatch
    <3>9. SocketKept'
      <4>1. \A d \in TunnelDialers : tunnelDial[d].at \notin {"proxy", "connectUDP"}
        BY <3>4 DEF Building, HasSocket
      <4> QED BY <1>t, <3>1, <3>5, <4>1 DEF SocketKept
    <3>8. NoneLost'
      BY <1>t, <3>1, <3>2, <3>4 DEF NoneLost
    <3> QED BY <3>6, <3>7, <3>8, <3>9 DEF TunnelInv
  <2> QED BY <2>1, <2>2
<1>9. ASSUME NEW d \in TunnelDialers, NEW t \in TunnelTargets, Establish(d, t) PROVE TunnelInv'
  <2>0. tunnelDial[d].at = "idle" /\ ~tunnel.locked /\ UNCHANGED tunnelSocket
    BY <1>9 DEF Establish
  <2>1. \A e \in TunnelDialers : ~Building(e) /\ ~HasSocket(e)
    BY <1>t, <2>0 DEF Alone, Building
  <2>2. CASE /\ tunnel' = tunnel
             /\ \/ tunnel.established
                \/ tunnelDial' = [tunnelDial EXCEPT ![d].at = "failed"]
    <3>1. PICK n \in DialRecords :
            /\ tunnelDial' = [tunnelDial EXCEPT ![d] = n] /\ n.at \in {"failed", "resolve"}
            /\ n.granted # 0 => n.granted = tunnel.udpConn /\ n.target = tunnel.target
      <4>1. CASE tunnelDial' = [tunnelDial EXCEPT ![d].at = "failed"]
        <5>1. tunnelDial' = [tunnelDial EXCEPT ![d] = [tunnelDial[d] EXCEPT !.at = "failed"]]
          BY <4>1
        <5>2. tunnelDial[d].granted = 0
          BY <1>t, <2>0 DEF SocketKept
        <5> DEFINE m == [tunnelDial[d] EXCEPT !.at = "failed"]
        <5>3. m \in DialRecords /\ m.at = "failed" /\ m.granted = 0
          BY <1>r, <5>2 DEF DialRecords
        <5> HIDE DEF m
        <5> QED BY <5>1, <5>3 DEF m
      <4>2. CASE tunnelDial' # [tunnelDial EXCEPT ![d].at = "failed"]
        <5> DEFINE at == IF tunnel.target # t THEN "failed" ELSE "resolve"
                   granted == IF tunnel.target # t THEN 0 ELSE tunnel.udpConn
                   m == [tunnelDial[d] EXCEPT !.target = t, !.at = at, !.granted = granted]
        <5>1. /\ tunnel.established
              /\ tunnelDial' = [tunnelDial EXCEPT ![d] = m]
          BY <1>9, <2>2, <4>2 DEF Establish, BoundElsewhere, At
        <5>2. /\ at \in {"failed", "resolve"} /\ granted \in 0..MaxTunnelSockets
              /\ granted # 0 => granted = tunnel.udpConn /\ t = tunnel.target
          BY <1>n, <1>z
        <5> HIDE DEF at, granted
        <5>3. m \in DialRecords /\ m.at = at /\ m.granted = granted /\ m.target = t
          BY <1>9, <1>r, <5>2 DEF DialRecords
        <5> HIDE DEF m
        <5> QED BY <5>1, <5>2, <5>3
      <4> QED BY <4>1, <4>2
    <3>2. /\ tunnelDial' \in [TunnelDialers -> DialRecords] /\ tunnelDial'[d] = n
          /\ \A e \in TunnelDialers : e # d => tunnelDial'[e] = tunnelDial[e]
      BY <1>d, <3>1
    <3>3. \A e \in TunnelDialers : ~Building(e)' /\ ~HasSocket(e)'
      BY <2>1, <3>1, <3>2 DEF Building, HasSocket
    <3>4. TunnelStates' /\ OwnSocket' /\ Alone'
      BY <1>t, <2>0, <2>2, <3>2, <3>3 DEF TunnelStates, OwnSocket, Alone
    <3>5. NoneLost'
      BY <1>t, <2>0, <2>1, <2>2 DEF NoneLost
    <3>6. GrantsMatch'
      BY <1>n, <1>t, <2>0, <3>1, <3>2 DEF GrantsMatch, OwnSocket
    <3>7. SocketKept'
      <4>1. \A e \in TunnelDialers : tunnelDial'[e].at \notin {"proxy", "connectUDP"}
        BY <3>3 DEF Building, HasSocket
      <4> QED BY <1>t, <3>1, <3>2, <3>3, <4>1 DEF SocketKept
    <3> QED BY <3>4, <3>5, <3>6, <3>7 DEF TunnelInv
  <2>3. CASE ~(/\ tunnel' = tunnel
               /\ \/ tunnel.established
                  \/ tunnelDial' = [tunnelDial EXCEPT ![d].at = "failed"])
    <3> DEFINE n == [tunnelDial[d] EXCEPT !.target = t, !.at = "proxy", !.tried = 0]
    <3>1. /\ ~tunnel.established /\ tunnel' = [tunnel EXCEPT !.target = t, !.locked = TRUE]
          /\ tunnelDial' = [tunnelDial EXCEPT ![d] = n]
      BY <1>9, <2>3 DEF Establish, At
    <3>2. /\ n \in DialRecords /\ n.at = "proxy" /\ n.target = t /\ n.sock = tunnelDial[d].sock
          /\ n.granted = tunnelDial[d].granted
      BY <1>9, <1>r, <1>z DEF DialRecords
    <3>3. tunnelDial[d].sock = 0 /\ tunnelDial[d].granted = 0
      BY <1>t, <2>0 DEF SocketKept
    <3> HIDE DEF n
    <3>4. /\ tunnelDial' \in [TunnelDialers -> DialRecords] /\ tunnelDial'[d] = n
          /\ \A e \in TunnelDialers : e # d => tunnelDial'[e] = tunnelDial[e]
      BY <1>d, <3>1, <3>2
    <3>5. /\ tunnel' \in [established : BOOLEAN, closed : BOOLEAN, target : TunnelTargets \cup {""},
                          udpConn : 0..MaxTunnelSockets, ctx : 0..MaxTunnelSockets,
                          locked : BOOLEAN]
          /\ tunnel'.locked /\ tunnel'.target = t /\ tunnel'.udpConn = tunnel.udpConn
          /\ tunnel'.established = tunnel.established
      BY <1>t, <1>9, <3>1 DEF TunnelStates
    <3>6. \A e \in TunnelDialers : ~HasSocket(e)' /\ (Building(e)' <=> e = d)
      BY <2>1, <3>2, <3>4 DEF Building, HasSocket
    <3>7. TunnelStates' /\ OwnSocket'
      BY <1>t, <2>0, <3>1, <3>4, <3>5 DEF TunnelStates, OwnSocket
    <3>8. Alone'
      BY ZenonT(60), <3>1, <3>2, <3>4, <3>5, <3>6 DEF Alone
    <3>9. NoneLost'
      BY <1>t, <2>0, <2>1, <3>5 DEF NoneLost
    <3>10. GrantsMatch'
      BY <1>t, <2>0, <3>2, <3>3, <3>4 DEF GrantsMatch
    <3>11. SocketKept'
      <4>1. \A e \in TunnelDialers : tunnelDial'[e].at # "connectUDP"
        BY <3>6 DEF HasSocket
      <4>2. \A e \in TunnelDialers : e # d => tunnelDial'[e].at # "proxy"
        BY <3>6 DEF Building
      <4> QED BY <1>t, <3>2, <3>3, <3>4, <3>6, <4>1, <4>2 DEF SocketKept
    <3> QED BY <3>7, <3>8, <3>9, <3>10, <3>11 DEF TunnelInv
  <2> QED BY <2>2, <2>3
<1>b. ASSUME NEW d \in TunnelDialers, Building(d)
      PROVE  /\ tunnel.locked /\ ~tunnel.established /\ tunnel.target = tunnelDial[d].target
             /\ tunnel.udpConn = 0 /\ tunnelDial[d].granted = 0
             /\ \A e \in TunnelDialers : e # d => ~Building(e) /\ ~HasSocket(e)
  BY <1>b, <1>t DEF Alone, OwnSocket, SocketKept, Building
<1>10. ASSUME NEW d \in TunnelDialers, NEW s \in TunnelSockets, DialAddress(d, s)
       PROVE  TunnelInv'
  <2>1. /\ tunnelDial[d].at = "proxy" /\ Building(d) /\ tunnelSocket[s].state = "none"
        /\ tunnelDial[d].tried < ProxyAddrs /\ UNCHANGED tunnel
    BY <1>10 DEF DialAddress, Building
  <2>2. PICK state \in {"open", "closed"}, n \in DialRecords :
          /\ tunnelSocket' = [tunnelSocket EXCEPT ![s].state = state]
          /\ tunnelDial' = [tunnelDial EXCEPT ![d] = n]
          /\ n.target = tunnelDial[d].target /\ n.granted = 0
          /\ \/ state = "closed" /\ n.at = "proxy" /\ n.sock = 0
             \/ state = "open" /\ n.at = "settings" /\ n.sock = s
    <3>1. tunnelDial[d].sock = 0 /\ tunnelDial[d].granted = 0
      BY <1>t, <2>1 DEF SocketKept
    <3>2. tunnelDial[d].tried + 1 \in 0..ProxyAddrs /\ s \in 0..MaxTunnelSockets
      <4>1. tunnelDial[d].tried \in 0..ProxyAddrs /\ ProxyAddrs \in Nat
        BY <1>r, TunnelConstants DEF DialRecords, TunnelConstants
      <4>2. s \in 0..MaxTunnelSockets
        BY <1>z, <1>10
      <4> QED BY <2>1, <4>1, <4>2
    <3>3. CASE CloseSocket(s) /\ tunnelDial' =
                  [tunnelDial EXCEPT ![d].tried = tunnelDial[d].tried + 1]
      <4> DEFINE m == [tunnelDial[d] EXCEPT !.tried = tunnelDial[d].tried + 1]
      <4>1. tunnelDial' = [tunnelDial EXCEPT ![d] = m]
        BY <3>3
      <4>2. /\ m \in DialRecords /\ m.target = tunnelDial[d].target /\ m.granted = 0
            /\ m.at = "proxy" /\ m.sock = 0
        BY <1>r, <2>1, <3>1, <3>2 DEF DialRecords
      <4> HIDE DEF m
      <4> QED BY <3>3, <4>1, <4>2 DEF CloseSocket
    <3>4. CASE /\ tunnelSocket' = [tunnelSocket EXCEPT ![s].state = "open"]
               /\ tunnelDial' = [tunnelDial EXCEPT ![d].at = "settings", ![d].sock = s]
      <4> DEFINE m == [tunnelDial[d] EXCEPT !.at = "settings", !.sock = s]
      <4>1. tunnelDial' = [tunnelDial EXCEPT ![d] = m]
        BY <3>4
      <4>2. /\ m \in DialRecords /\ m.target = tunnelDial[d].target /\ m.granted = 0
            /\ m.at = "settings" /\ m.sock = s
        BY <1>r, <2>1, <3>1, <3>2 DEF DialRecords
      <4> HIDE DEF m
      <4> QED BY <3>4, <4>1, <4>2
    <3> QED BY <1>10, <3>3, <3>4 DEF DialAddress
  <2>3. /\ tunnelDial' \in [TunnelDialers -> DialRecords] /\ tunnelDial'[d] = n
        /\ \A e \in TunnelDialers : e # d => tunnelDial'[e] = tunnelDial[e]
    BY <1>d, <2>2
  <2>4. /\ tunnelSocket' \in [TunnelSockets ->
              [state : {"none", "open", "ended", "closed"}, bound : TunnelTargets \cup {""}]]
        /\ tunnelSocket'[s].state = state
        /\ \A x \in TunnelSockets : tunnelSocket'[x].bound = tunnelSocket[x].bound
        /\ \A x \in TunnelSockets : x # s => tunnelSocket'[x] = tunnelSocket[x]
    BY ZenonT(60), <1>t, <2>2 DEF TunnelStates
  <2>5. /\ Building(d)' /\ (HasSocket(d)' <=> state = "open")
        /\ \A e \in TunnelDialers : e # d => ~Building(e)' /\ ~HasSocket(e)'
    BY <1>b, <2>1, <2>2, <2>3 DEF Building, HasSocket
  <2>6. /\ tunnel' = tunnel /\ tunnel.locked /\ ~tunnel.established /\ tunnel.udpConn = 0
        /\ tunnel.target = tunnelDial[d].target
    BY <1>b, <2>1
  <2>7. TunnelStates'
    BY <1>t, <2>3, <2>4, <2>6 DEF TunnelStates
  <2>8. Alone' /\ OwnSocket'
    BY <2>2, <2>3, <2>5, <2>6 DEF Alone, OwnSocket
  <2>9. \A e \in TunnelDialers : tunnelDial'[e].granted = tunnelDial[e].granted
                                 /\ tunnelDial[e].granted # s
                                 /\ tunnelDial'[e].target = tunnelDial[e].target
    BY <1>b, <1>t, <1>z, <2>1, <2>2, <2>3 DEF GrantsMatch
  <2>10. GrantsMatch'
    <3>1. ASSUME NEW e \in TunnelDialers, tunnelDial'[e].granted # 0
          PROVE  tunnelSocket'[tunnelDial'[e].granted] = tunnelSocket[tunnelDial[e].granted]
      BY <1>n, <2>4, <2>9, <3>1
    <3> QED BY <1>t, <2>9, <3>1 DEF GrantsMatch
  <2>11. NoneLost'
    <3>1. ASSUME NEW x \in TunnelSockets, tunnelSocket'[x].state \in {"open", "ended"}
          PROVE  \E e \in TunnelDialers : HasSocket(e)' /\ tunnelDial'[e].sock = x
      <4>1. CASE x = s
        BY <2>2, <2>3, <2>4, <2>5, <3>1, <4>1
      <4>2. CASE x # s
        <5>1. PICK e \in TunnelDialers : HasSocket(e) /\ tunnelDial[e].sock = x
          BY <1>t, <1>z, <2>4, <2>6, <3>1, <4>2 DEF NoneLost
        <5>2. e = d /\ ~HasSocket(d)
          BY <1>b, <2>1, <5>1 DEF HasSocket
        <5> QED BY <5>1, <5>2
      <4> QED BY <4>1, <4>2
    <3> QED BY <3>1 DEF NoneLost
  <2>12. SocketKept'
    <3>1. ASSUME NEW e \in TunnelDialers, e # d
          PROVE  /\ ~Building(e)' /\ ~HasSocket(e)'
                 /\ tunnelDial'[e].at \notin {"proxy", "connectUDP"}
                 /\ tunnelDial'[e] = tunnelDial[e]
      BY <2>3, <2>5, <3>1 DEF Building, HasSocket
    <3>2. /\ HasSocket(d)' => tunnelDial'[d].sock = s /\ tunnelSocket'[s].state # "none"
          /\ tunnelDial'[d].at \in {"proxy", "settings"} /\ tunnelDial'[d].granted = 0
          /\ tunnelDial'[d].at = "proxy" => tunnelDial'[d].sock = 0
      BY <2>2, <2>3, <2>4, <2>5
    <3> QED BY <1>t, <1>z, <1>10, <2>9, <3>1, <3>2 DEF SocketKept
  <2> QED BY <2>7, <2>8, <2>10, <2>11, <2>12 DEF TunnelInv
<1>11. ASSUME NEW d \in TunnelDialers, EstablishFails(d) PROVE TunnelInv'
  <2> DEFINE n == [tunnelDial[d] EXCEPT !.at = "failed", !.sock = 0]
  <2>1. /\ Building(d) /\ tunnelDial' = [tunnelDial EXCEPT ![d] = n]
        /\ tunnel' = [tunnel EXCEPT !.locked = FALSE]
    BY <1>11 DEF EstablishFails, Building, HasSocket
  <2>2. /\ n \in DialRecords /\ n.at = "failed" /\ n.target = tunnelDial[d].target
        /\ n.granted = tunnelDial[d].granted
    BY <1>r, <1>z DEF DialRecords
  <2> HIDE DEF n
  <2>3. /\ tunnelDial' \in [TunnelDialers -> DialRecords] /\ tunnelDial'[d] = n
        /\ \A e \in TunnelDialers : e # d => tunnelDial'[e] = tunnelDial[e]
    BY <1>d, <2>1, <2>2
  <2>4. /\ tunnelSocket' \in [TunnelSockets ->
              [state : {"none", "open", "ended", "closed"}, bound : TunnelTargets \cup {""}]]
        /\ \A x \in TunnelSockets : tunnelSocket'[x].bound = tunnelSocket[x].bound
        /\ \A x \in TunnelSockets : tunnelSocket'[x].state
              = IF x = tunnelDial[d].sock THEN "closed" ELSE tunnelSocket[x].state
    <3>1. tunnelSocket' = [x \in TunnelSockets |->
             IF x = tunnelDial[d].sock THEN [tunnelSocket[x] EXCEPT !.state = "closed"]
             ELSE tunnelSocket[x]]
      BY <1>11 DEF EstablishFails
    <3>2. ASSUME NEW x \in TunnelSockets
          PROVE  /\ tunnelSocket'[x] \in [state : {"none", "open", "ended", "closed"},
                                          bound : TunnelTargets \cup {""}]
                 /\ tunnelSocket'[x].bound = tunnelSocket[x].bound
                 /\ tunnelSocket'[x].state
                       = IF x = tunnelDial[d].sock THEN "closed" ELSE tunnelSocket[x].state
      <4>1. tunnelSocket[x] \in [state : {"none", "open", "ended", "closed"},
                                 bound : TunnelTargets \cup {""}]
        BY <1>t, <3>2 DEF TunnelStates
      <4> QED BY <3>1, <3>2, <4>1
    <3> QED BY <3>1, <3>2
  <2>5. \A e \in TunnelDialers : ~Building(e)' /\ ~HasSocket(e)'
    BY <1>b, <2>1, <2>2, <2>3 DEF Building, HasSocket
  <2>6. /\ tunnel' \in [established : BOOLEAN, closed : BOOLEAN, target : TunnelTargets \cup {""},
                        udpConn : 0..MaxTunnelSockets, ctx : 0..MaxTunnelSockets,
                        locked : BOOLEAN]
        /\ tunnel'.udpConn = 0 /\ tunnel.udpConn = 0
    BY <1>b, <1>t, <2>1 DEF TunnelStates
  <2>7. TunnelStates' /\ Alone' /\ OwnSocket'
    BY <2>3, <2>4, <2>5, <2>6 DEF TunnelStates, Alone, OwnSocket
  <2>8. \A e \in TunnelDialers : tunnelDial'[e].granted = tunnelDial[e].granted
                                 /\ tunnelDial'[e].target = tunnelDial[e].target
    BY <2>2, <2>3
  <2>9. GrantsMatch'
    <3>1. \A x \in TunnelSockets : tunnelSocket[x].state # "none" => tunnelSocket'[x].state # "none"
      BY <2>4
    <3>2. \A x \in TunnelSockets : tunnelSocket'[x].bound = tunnelSocket[x].bound
      BY <2>4
    <3> QED BY <1>n, <1>t, <2>8, <3>1, <3>2 DEF GrantsMatch
  <2>10. NoneLost'
    <3>1. ASSUME NEW x \in TunnelSockets, tunnelSocket'[x].state \in {"open", "ended"}
          PROVE  FALSE
      <4>1. x # tunnelDial[d].sock /\ tunnelSocket[x].state \in {"open", "ended"}
        BY <2>4, <3>1
      <4>2. PICK e \in TunnelDialers : HasSocket(e) /\ tunnelDial[e].sock = x
        BY <1>t, <1>z, <2>6, <3>1, <4>1 DEF NoneLost
      <4> QED BY <1>b, <2>1, <4>1, <4>2
    <3> QED BY <3>1 DEF NoneLost
  <2>11. SocketKept'
    <3>1. ASSUME NEW e \in TunnelDialers
          PROVE  /\ tunnelDial'[e].at \notin {"proxy", "connectUDP"}
                 /\ tunnelDial'[e].at = "idle" => tunnelDial'[e] = tunnelDial[e]
      BY <2>2, <2>3, <2>5, <3>1 DEF Building, HasSocket
    <3> QED BY <1>t, <2>5, <3>1 DEF SocketKept
  <2> QED BY <2>7, <2>9, <2>10, <2>11 DEF TunnelInv
<1>12. ASSUME NEW d \in TunnelDialers, ReceivedSettings(d) PROVE TunnelInv'
  <2> DEFINE n == [tunnelDial[d] EXCEPT !.at = "offered"]
  <2>1. /\ HasSocket(d) /\ Building(d) /\ tunnelDial' = [tunnelDial EXCEPT ![d] = n]
        /\ UNCHANGED <<tunnel, tunnelSocket>>
    BY <1>12 DEF ReceivedSettings, At, Building, HasSocket
  <2>2. /\ n \in DialRecords /\ n.at = "offered" /\ n.target = tunnelDial[d].target
        /\ n.granted = tunnelDial[d].granted /\ n.sock = tunnelDial[d].sock
    BY <1>r DEF DialRecords
  <2> HIDE DEF n
  <2>3. /\ tunnelDial' \in [TunnelDialers -> DialRecords] /\ tunnelDial'[d] = n
        /\ \A e \in TunnelDialers : e # d => tunnelDial'[e] = tunnelDial[e]
    BY <1>d, <2>1, <2>2
  <2>4. \A e \in TunnelDialers : (HasSocket(e)' <=> HasSocket(e)) /\ (Building(e)' <=> Building(e))
    BY <2>1, <2>2, <2>3 DEF Building, HasSocket
  <2>5. \A e \in TunnelDialers : /\ tunnelDial'[e].granted = tunnelDial[e].granted
                                 /\ tunnelDial'[e].target = tunnelDial[e].target
                                 /\ tunnelDial'[e].sock = tunnelDial[e].sock
                                 /\ tunnelDial'[e].at # "offered" => tunnelDial'[e] = tunnelDial[e]
    BY <2>2, <2>3
  <2>6. TunnelStates' /\ OwnSocket'
    BY <1>t, <2>1, <2>3 DEF TunnelStates, OwnSocket
  <2>7. Alone' /\ NoneLost'
    BY <1>t, <2>1, <2>4, <2>5 DEF Alone, NoneLost
  <2>8. GrantsMatch'
    BY <1>t, <2>1, <2>5 DEF GrantsMatch
  <2>9. SocketKept'
    BY <1>t, <2>1, <2>4, <2>5 DEF SocketKept
  <2> QED BY <2>6, <2>7, <2>8, <2>9 DEF TunnelInv
<1>13. ASSUME NEW d \in TunnelDialers, SendConnectUDP(d) PROVE TunnelInv'
  <2> DEFINE n == [tunnelDial[d] EXCEPT !.at = "connectUDP"]
             s == tunnelDial[d].sock
  <2>1. /\ HasSocket(d) /\ Building(d) /\ tunnelDial' = [tunnelDial EXCEPT ![d] = n]
        /\ tunnelSocket' = [tunnelSocket EXCEPT ![s].bound = tunnel.target] /\ UNCHANGED tunnel
    BY <1>13 DEF SendConnectUDP, At, Building, HasSocket
  <2>2. /\ n \in DialRecords /\ n.at = "connectUDP" /\ n.target = tunnelDial[d].target
        /\ n.granted = tunnelDial[d].granted /\ n.sock = s
    BY <1>r DEF DialRecords
  <2>3. /\ s \in TunnelSockets /\ \A e \in TunnelDialers : tunnelDial[e].granted # s
    BY <1>n, <1>t, <2>1 DEF SocketKept
  <2> HIDE DEF n, s
  <2>4. /\ tunnelDial' \in [TunnelDialers -> DialRecords] /\ tunnelDial'[d] = n
        /\ \A e \in TunnelDialers : e # d => tunnelDial'[e] = tunnelDial[e]
    BY <1>d, <2>1, <2>2
  <2>5. /\ tunnelSocket' \in [TunnelSockets ->
              [state : {"none", "open", "ended", "closed"}, bound : TunnelTargets \cup {""}]]
        /\ tunnelSocket'[s].bound = tunnel.target
        /\ \A x \in TunnelSockets : tunnelSocket'[x].state = tunnelSocket[x].state
        /\ \A x \in TunnelSockets : x # s => tunnelSocket'[x] = tunnelSocket[x]
    <3>1. tunnel.target \in TunnelTargets \cup {""}
      BY <1>t DEF TunnelStates
    <3> QED BY <1>t, <2>1, <2>3, <3>1 DEF TunnelStates
  <2>6. \A e \in TunnelDialers : (HasSocket(e)' <=> HasSocket(e)) /\ (Building(e)' <=> Building(e))
    BY <2>1, <2>2, <2>4 DEF Building, HasSocket
  <2>7. \A e \in TunnelDialers : /\ tunnelDial'[e].granted = tunnelDial[e].granted
                                 /\ tunnelDial'[e].target = tunnelDial[e].target
                                 /\ tunnelDial'[e].sock = tunnelDial[e].sock
    BY <2>2, <2>4 DEF s
  <2>8. tunnel' = tunnel /\ tunnel.udpConn = 0
    BY <1>b, <2>1
  <2>9. TunnelStates'
    BY <1>t, <2>4, <2>5, <2>8 DEF TunnelStates
  <2>10. OwnSocket'
    BY <2>8 DEF OwnSocket
  <2>11. Alone' /\ NoneLost'
    <3>1. Alone'
      BY <1>t, <2>6, <2>7, <2>8 DEF Alone
    <3>2. NoneLost'
      <4>1. ASSUME NEW x \in TunnelSockets, tunnelSocket'[x].state \in {"open", "ended"},
                   x # tunnel.udpConn
            PROVE  \E e \in TunnelDialers : HasSocket(e)' /\ tunnelDial'[e].sock = x
        <5>1. PICK e \in TunnelDialers : HasSocket(e) /\ tunnelDial[e].sock = x
          BY <1>t, <2>5, <4>1 DEF NoneLost
        <5> QED BY <2>6, <2>7, <5>1
      <4> QED BY <2>8, <4>1 DEF NoneLost
    <3> QED BY <3>1, <3>2
  <2>12. GrantsMatch'
    <3>1. ASSUME NEW e \in TunnelDialers, tunnelDial'[e].granted # 0
          PROVE  tunnelSocket'[tunnelDial'[e].granted] = tunnelSocket[tunnelDial[e].granted]
      BY <1>n, <2>3, <2>5, <2>7, <3>1
    <3> QED BY <1>t, <2>7, <3>1 DEF GrantsMatch
  <2>13. SocketKept'
    <3>1. ASSUME NEW e \in TunnelDialers, e # d
          PROVE  ~Building(e)' /\ ~HasSocket(e)' /\ tunnelDial'[e].at \notin {"proxy", "connectUDP"}
      BY <1>b, <2>1, <2>6, <3>1 DEF Building, HasSocket
    <3>2. /\ tunnelDial'[d].at = "connectUDP" /\ tunnelDial'[d].sock = s
          /\ s # 0 /\ tunnelSocket[s].state # "none" /\ tunnelDial[d].granted = 0
      BY <1>b, <1>t, <1>z, <2>1, <2>2, <2>3, <2>4 DEF SocketKept, s
    <3>3. ASSUME NEW e \in TunnelDialers, e # d
          PROVE  tunnelDial'[e] = tunnelDial[e]
      BY <2>4, <3>3
    <3>4. tunnelSocket'[s].state # "none" /\ tunnelSocket'[s].bound = tunnel'.target
      BY <2>3, <2>5, <2>8, <3>2
    <3>5. /\ tunnelDial'[d].granted = 0
          /\ \A e \in TunnelDialers : tunnelDial'[e].granted # s
      BY <2>3, <2>7, <3>2
    <3>6. \A e \in TunnelDialers : e # d /\ tunnelDial[e].at = "idle" =>
             tunnelDial[e].sock = 0 /\ tunnelDial[e].granted = 0
      BY <1>t DEF SocketKept
    <3>7. ASSUME NEW e \in TunnelDialers
          PROVE  /\ HasSocket(e)' => e = d
                 /\ tunnelDial'[e].at = "connectUDP" => e = d
                 /\ tunnelDial'[e].at \in {"idle", "proxy"} => tunnelDial'[e].sock = 0
                 /\ tunnelDial'[e].at = "idle" \/ Building(e)' => tunnelDial'[e].granted = 0
      <4>1. CASE e = d
        BY <3>2, <3>5, <4>1
      <4>2. CASE e # d
        BY <3>1, <3>3, <3>6, <4>2
      <4> QED BY <4>1, <4>2
    <3> QED BY <3>2, <3>4, <3>5, <3>7 DEF SocketKept
  <2> QED BY <2>9, <2>10, <2>11, <2>12, <2>13 DEF TunnelInv
<1>14. ASSUME NEW d \in TunnelDialers, Established(d) PROVE TunnelInv'
  <2> DEFINE s == tunnelDial[d].sock
             n == [tunnelDial[d] EXCEPT !.at = "resolve", !.sock = 0, !.granted = s]
  <2>1. /\ HasSocket(d) /\ Building(d) /\ tunnelDial[d].at = "connectUDP"
        /\ tunnelDial' = [tunnelDial EXCEPT ![d] = n]
        /\ tunnel' = [tunnel EXCEPT !.established = TRUE, !.udpConn = s, !.ctx = s,
                                    !.locked = FALSE]
        /\ UNCHANGED tunnelSocket
    BY <1>14 DEF Established, Building, HasSocket
  <2>2. /\ s \in TunnelSockets /\ s \in 0..MaxTunnelSockets /\ s # 0
        /\ tunnelSocket[s].state # "none" /\ tunnelSocket[s].bound = tunnel.target
    BY <1>n, <1>t, <2>1 DEF SocketKept
  <2>3. /\ n \in DialRecords /\ n.at = "resolve" /\ n.target = tunnelDial[d].target
        /\ n.granted = s
    BY <1>r, <1>z, <2>2 DEF DialRecords
  <2> HIDE DEF n, s
  <2>4. /\ tunnelDial' \in [TunnelDialers -> DialRecords] /\ tunnelDial'[d] = n
        /\ \A e \in TunnelDialers : e # d => tunnelDial'[e] = tunnelDial[e]
    BY <1>d, <2>1, <2>3
  <2>5. \A e \in TunnelDialers : ~Building(e)' /\ ~HasSocket(e)'
    BY <1>b, <2>1, <2>3, <2>4 DEF Building, HasSocket
  <2>6. /\ tunnel' \in [established : BOOLEAN, closed : BOOLEAN, target : TunnelTargets \cup {""},
                        udpConn : 0..MaxTunnelSockets, ctx : 0..MaxTunnelSockets,
                        locked : BOOLEAN]
        /\ tunnel'.udpConn = s /\ tunnel'.established /\ tunnel'.target = tunnel.target
    BY <1>t, <2>1, <2>2 DEF TunnelStates
  <2>7. TunnelStates' /\ Alone' /\ OwnSocket'
    BY <1>t, <2>1, <2>2, <2>4, <2>5, <2>6 DEF TunnelStates, Alone, OwnSocket
  <2>8. NoneLost'
    <3>1. ASSUME NEW x \in TunnelSockets, tunnelSocket'[x].state \in {"open", "ended"}
          PROVE  x = tunnel'.udpConn
      <4>1. x = tunnel.udpConn \/ \E e \in TunnelDialers : HasSocket(e) /\ tunnelDial[e].sock = x
        BY <1>t, <2>1, <3>1 DEF NoneLost
      <4> QED BY <1>b, <1>z, <2>1, <2>6, <4>1 DEF s
    <3> QED BY <3>1 DEF NoneLost
  <2>9. GrantsMatch'
    <3>1. tunnel.target = tunnelDial[d].target
      BY <1>b, <2>1
    <3> QED BY <1>t, <2>1, <2>2, <2>3, <2>4, <3>1 DEF GrantsMatch
  <2>10. SocketKept'
    <3>1. ASSUME NEW e \in TunnelDialers
          PROVE  /\ tunnelDial'[e].at \notin {"proxy", "connectUDP"}
                 /\ tunnelDial'[e].at = "idle" => tunnelDial'[e] = tunnelDial[e]
      BY <2>3, <2>4, <2>5, <3>1 DEF Building, HasSocket
    <3> QED BY <1>t, <2>5, <3>1 DEF SocketKept
  <2> QED BY <2>7, <2>8, <2>9, <2>10 DEF TunnelInv
<1>15. CASE UNCHANGED tunnelVars
  BY <1>15, <1>u DEF tunnelVars
<1> QED
  <2>1. CASE \E d \in TunnelDialers :
               \/ \E t \in TunnelTargets : Establish(d, t)
               \/ \E s \in TunnelSockets : DialAddress(d, s)
               \/ EstablishFails(d) \/ ReceivedSettings(d) \/ SendConnectUDP(d) \/ Established(d)
               \/ DialInner(d) \/ WriteTo(d) \/ SelectRead(d) \/ ReadFrom(d)
               \/ \E op \in {"write", "read"} : UseTunnel(d, op)
    BY <1>1, <1>2, <1>3, <1>4, <1>5, <1>9, <1>10, <1>11, <1>12, <1>13, <1>14, <2>1
  <2>2. CASE \E s \in TunnelSockets : ReceiveDatagram(s) \/ ReceiverExits(s) \/ ProxyEnds(s)
    BY <1>6, <1>7, <2>2
  <2> QED BY <1>8, <1>15, <2>1, <2>2 DEF TunnelNext

\* What the type invariant says besides: the receivers and the queue they fill.
TunnelBounds ==
    /\ receiver \subseteq TunnelSockets /\ resets \in 0..MaxResets
    /\ datagramCh \in Seq(TunnelSockets) /\ Len(datagramCh) <= DatagramCap

\* Every step of the dialers, of the proxy, of Close and of Reset keeps it.
LEMMA TunnelBoundsStep ==
  ASSUME TunnelConstants, TunnelInv, TunnelBounds, [TunnelNext]_tunnelVars
  PROVE  TunnelBounds'
<1>n. MaxResets \in Nat /\ DatagramCap \in Nat
  BY DEF TunnelConstants
<1>u. ASSUME UNCHANGED <<receiver, datagramCh, resets>> PROVE TunnelBounds'
  BY <1>u DEF TunnelBounds
<1>1. ASSUME NEW d \in TunnelDialers, Established(d) PROVE TunnelBounds'
  <2>1. tunnelDial[d].sock \in TunnelSockets
    <3>1. tunnelDial[d].sock # 0 /\ tunnelDial[d].sock \in 0..MaxTunnelSockets
      BY <1>1 DEF Established, TunnelInv, SocketKept, HasSocket, TunnelStates, DialRecords
    <3> QED BY <3>1, SocketNumbers
  <2> QED BY <1>1, <2>1 DEF Established, TunnelBounds
<1>2. ASSUME NEW d \in TunnelDialers, ReadFrom(d) PROVE TunnelBounds'
  <2>1. UNCHANGED <<receiver, resets>>
    BY <1>2 DEF ReadFrom
  <2>2. UNCHANGED datagramCh \/ (datagramCh # <<>> /\ datagramCh' = Tail(datagramCh))
    BY <1>2 DEF ReadFrom
  <2>3. datagramCh' \in Seq(TunnelSockets) /\ Len(datagramCh') <= DatagramCap
    BY <1>n, <2>2 DEF TunnelBounds
  <2> QED BY <2>1, <2>3 DEF TunnelBounds
<1>3. ASSUME NEW s \in TunnelSockets, ReceiveDatagram(s) PROVE TunnelBounds'
  <2>1. datagramCh' \in Seq(TunnelSockets) /\ Len(datagramCh') <= DatagramCap
    BY <1>n, <1>3 DEF ReceiveDatagram, TunnelBounds
  <2> QED BY <1>3, <2>1 DEF ReceiveDatagram, TunnelBounds
<1>4. ASSUME NEW s \in TunnelSockets, ReceiverExits(s) PROVE TunnelBounds'
  BY <1>4 DEF ReceiverExits, TunnelBounds
<1>5. CASE Reset
  BY SMTT(40), <1>n, <1>5 DEF Reset, TunnelBounds
<1>6. ASSUME NEW d \in TunnelDialers,
             \/ \E t \in TunnelTargets : Establish(d, t)
             \/ \E s \in TunnelSockets : DialAddress(d, s)
             \/ EstablishFails(d) \/ ReceivedSettings(d) \/ SendConnectUDP(d)
      PROVE  TunnelBounds'
  BY <1>u, <1>6 DEF Establish, DialAddress, EstablishFails, ReceivedSettings, SendConnectUDP
<1>7. ASSUME NEW d \in TunnelDialers,
             \/ DialInner(d) \/ WriteTo(d) \/ SelectRead(d)
             \/ \E op \in {"write", "read"} : UseTunnel(d, op)
      PROVE  TunnelBounds'
  BY <1>u, <1>7 DEF DialInner, WriteTo, SelectRead, UseTunnel
<1>8. ASSUME NEW s \in TunnelSockets, ProxyEnds(s) PROVE TunnelBounds'
  BY <1>u, <1>8 DEF ProxyEnds
<1>9. CASE CloseTunnelConn
  BY <1>u, <1>9 DEF CloseTunnelConn
<1>10. CASE UNCHANGED tunnelVars
  BY <1>u, <1>10 DEF tunnelVars
<1> QED BY <1>1, <1>2, <1>3, <1>4, <1>5, <1>6, <1>7, <1>8, <1>9, <1>10 DEF TunnelNext

\* The invariant gives the type invariant.
LEMMA TunnelTyped ==
  ASSUME TunnelInv, TunnelBounds
  PROVE  TunnelTypeOK
BY DEF TunnelInv, TunnelStates, DialRecords, TunnelBounds, TunnelTypeOK

\* No tunnel is up at first.
LEMMA TunnelStarts ==
  ASSUME TunnelInit
  PROVE  TunnelInv /\ TunnelBounds
<1>1. 0 \in 0..MaxTunnelSockets /\ 0 \in 0..ProxyAddrs
  BY TunnelConstants DEF TunnelConstants
<1>2. \A d \in TunnelDialers : tunnelDial[d].at = "idle" /\ tunnelDial[d].sock = 0
                               /\ tunnelDial[d].granted = 0
  BY DEF TunnelInit
<1>3. TunnelStates
  BY <1>1 DEF TunnelInit, TunnelStates, DialRecords, DialStages
<1>4. \A d \in TunnelDialers : ~Building(d) /\ ~HasSocket(d)
  BY <1>2 DEF Building, HasSocket
<1>5. tunnel.udpConn = 0 /\ \A s \in TunnelSockets : tunnelSocket[s].state = "none"
  BY DEF TunnelInit
<1>6. Alone /\ OwnSocket /\ NoneLost
  BY <1>4, <1>5 DEF Alone, OwnSocket, NoneLost
<1>7. SocketKept /\ GrantsMatch
  BY <1>2, <1>4 DEF SocketKept, GrantsMatch
<1>8. TunnelInv
  BY <1>3, <1>6, <1>7 DEF TunnelInv
<1>9. TunnelBounds
  <2>1. receiver = {} /\ resets = 0 /\ datagramCh = <<>>
    BY DEF TunnelInit
  <2>2. <<>> \in Seq(TunnelSockets) /\ Len(<<>>) = 0
    OBVIOUS
  <2> QED BY <2>1, <2>2, TunnelConstants DEF TunnelConstants, TunnelBounds
<1> QED BY <1>8, <1>9

\* However dials, Reset, Close and the proxy interleave: a socket that is not
\* closed belongs to the tunnel or to the Establish that runs, and a dialer that
\* was let through has a tunnel whose CONNECT-UDP named its own target.
THEOREM TunnelSafe == TunnelSpec => [](TunnelTypeOK /\ TunnelOwned)
<1>1. TunnelInit => TunnelInv /\ TunnelBounds
  BY TunnelStarts
<1>2. TunnelInv /\ TunnelBounds /\ [TunnelNext]_tunnelVars => (TunnelInv /\ TunnelBounds)'
  BY TunnelStep, TunnelBoundsStep, TunnelConstants
<1>3. TunnelInv /\ TunnelBounds => TunnelTypeOK /\ TunnelOwned
  BY TunnelTyped DEF TunnelInv, NoneLost, GrantsMatch, HasSocket, TunnelOwned
<1> QED BY <1>1, <1>2, <1>3, PTL DEF TunnelSpec

-----------------------------------------------------------------------------
(* HTTP3Transport.                                                         *)

ConnStages == {"free", "dialling", "dialled", "registered", "ready", "gone"}
ConnRecords ==
    [stage : ConnStages, origin : Origins, of : Nat, ech : {"none", "good", "stale"},
     offered : Nat, early : {"none", "accepted", "rejected"}, key : Nat, alive : BOOLEAN,
     socket : BOOLEAN, issued : BOOLEAN, probe : BOOLEAN]
CallStages ==
    {"idle", "send", "dial", "stream", "rejected", "drop", "done", "failed", "failed0RTT"}
CallRecords ==
    [pc : CallStages, origin : Origins, of : Nat, conn : Nat, rejections : Nat, late : BOOLEAN]
H3States ==
    /\ transport \in Nat /\ dialled \in Nat
    /\ h3conn \in [H3Conns -> ConnRecords] /\ h3call \in [H3Requests -> CallRecords]
    /\ ticket \in [Origins -> Nat] /\ serverKey \in [Origins -> Nat]
    /\ echConfig \in [Origins -> {"none", "good", "stale"}]

\* Numbers not given out yet belong to no connection, a dial has no early data yet,
\* and only a connection whose handshake has run is alive.
Lifecycle ==
    \A c \in H3Conns :
        /\ c > dialled => h3conn[c].stage = "free"
        /\ h3conn[c].stage = "dialling" => h3conn[c].early = "none"
        /\ h3conn[c].alive => h3conn[c].stage \in {"dialled", "registered", "ready"}

\* The sockets: a relay socket is tracked before its handshake, a direct one after
\* it, and the table that Close has swept stays empty.
SocketTables ==
    /\ \A c \in H3Conns :
          /\ h3conn[c].socket =>
                \/ h3conn[c].stage \in {"dialling", "dialled"}
                \/ c \in sockets \cup proxyConns
                \/ h3conn[c].stage \in {"registered", "ready"} /\ ~h3conn[c].alive
          /\ route = "socks" /\ h3conn[c].stage = "dialling" /\ h3conn[c].socket => c \in proxyConns
          /\ route = "direct" /\ h3conn[c].alive => h3conn[c].stage = "dialled" \/ c \in sockets
    /\ h3Closed => sockets = {}

InPool(c) ==
    /\ ~h3conn[c].probe
    /\ \/ h3conn[c].stage \in {"dialling", "dialled", "registered"}
       \/ h3conn[c].stage = "ready" /\ h3conn[c].alive

\* The connection has offered a ticket that is or may be refused.
Stale(c) ==
    \/ h3conn[c].stage = "dialling" /\ h3conn[c].offered # NoTicket
    \/ h3conn[c].early = "rejected" /\ h3conn[c].stage \in {"dialled", "registered", "ready"}

\* http3.Transport has one connection or dial per origin, and closeOrigin finds it.
Pooled ==
    /\ \A c, e \in H3Conns :
          InPool(c) /\ InPool(e) /\ h3conn[c].of = h3conn[e].of
             /\ h3conn[c].origin = h3conn[e].origin => c = e
    /\ \A c \in H3Conns : h3conn[c].stage = "ready" /\ InPool(c) => c \in byOrigin

CallConn(r, c) ==
    h3conn[c].of = h3call[r].of /\ h3conn[c].origin = h3call[r].origin /\ ~h3conn[c].probe

\* A caller waits for a dial, or uses a connection, of its own transport and origin.
OnOwnConn(r) ==
    /\ h3call[r].pc = "dial" =>
          /\ h3call[r].conn \in H3Conns /\ CallConn(r, h3call[r].conn)
          /\ h3conn[h3call[r].conn].stage \in {"dialling", "dialled", "registered"}
    /\ h3call[r].pc = "stream" =>
          /\ h3call[r].conn \in H3Conns
          /\ \/ h3conn[h3call[r].conn].stage = "gone"
             \/ h3conn[h3call[r].conn].stage = "ready" /\ CallConn(r, h3call[r].conn)

\* The call has removed the ticket of its origin and none has been cached since.
Clean(r) == RemovedTicket(r) /\ ~h3call[r].late

StaleFor(r, c) == InPool(c) /\ CallConn(r, c) /\ Stale(c)

\* Of a call that is clean, the second rejection came from the only stale connection
\* left, and none is left after it.
Recovers(r) ==
    /\ Clean(r) => ticket[h3call[r].origin] = NoTicket
    /\ Clean(r) /\ h3call[r].rejections = 1 /\ h3call[r].pc \in {"rejected", "drop"} =>
          \A c \in H3Conns : StaleFor(r, c) => c = h3call[r].conn /\ h3conn[c].stage = "ready"
    /\ Clean(r) /\ h3call[r].rejections = 2 /\ h3call[r].pc \in {"send", "dial", "stream"} =>
          \A c \in H3Conns : ~StaleFor(r, c)
    /\ h3call[r].rejections = 2 /\ h3call[r].pc \in {"rejected", "drop"} => h3call[r].late
    /\ h3call[r].pc = "failed0RTT" => h3call[r].late

H3Inv ==
    /\ H3States /\ Lifecycle /\ SocketTables /\ Pooled
    /\ \A r \in H3Requests : OnOwnConn(r) /\ Recovers(r)

\* What a step may do to a connection: it enters no pool, keeps its place there and
\* turns stale only if it was so before.
Calm(c) ==
    InPool(c)' =>
        /\ InPool(c) /\ h3conn'[c].of = h3conn[c].of /\ h3conn'[c].origin = h3conn[c].origin
        /\ Stale(c)' => Stale(c)
        /\ h3conn[c].stage = "ready" => h3conn'[c].stage = "ready"

\* The same connection at the same stage, at most no longer alive.
Quiet(c) ==
    /\ h3conn'[c].stage = h3conn[c].stage /\ h3conn'[c].origin = h3conn[c].origin
    /\ h3conn'[c].of = h3conn[c].of /\ h3conn'[c].probe = h3conn[c].probe
    /\ h3conn'[c].offered = h3conn[c].offered /\ h3conn'[c].early = h3conn[c].early
    /\ h3conn'[c].alive => h3conn[c].alive

\* Each Boolean field of a connection or a call may take any value.
LEMMA AliveField ==
  ASSUME NEW d \in ConnRecords, NEW b \in BOOLEAN PROVE [d EXCEPT !.alive = b] \in ConnRecords
  BY Zenon DEF ConnRecords

\* As AliveField.
LEMMA SocketField ==
  ASSUME NEW d \in ConnRecords, NEW b \in BOOLEAN PROVE [d EXCEPT !.socket = b] \in ConnRecords
  BY Zenon DEF ConnRecords

\* As AliveField.
LEMMA IssuedField ==
  ASSUME NEW d \in ConnRecords, NEW b \in BOOLEAN PROVE [d EXCEPT !.issued = b] \in ConnRecords
  BY Zenon DEF ConnRecords

\* As AliveField.
LEMMA ProbeField ==
  ASSUME NEW d \in ConnRecords, NEW b \in BOOLEAN PROVE [d EXCEPT !.probe = b] \in ConnRecords
  BY Zenon DEF ConnRecords

\* As AliveField.
LEMMA LateField ==
  ASSUME NEW d \in CallRecords, NEW b \in BOOLEAN PROVE [d EXCEPT !.late = b] \in CallRecords
  BY Zenon DEF CallRecords

\* No ticket has a number of its own, and connections are numbered from 1.
LEMMA H3Numbers == NoTicket \in Nat /\ H3Conns \subseteq Nat \ {0}
BY H3Constants DEF NoTicket, H3Conns

\* The records a connection and a call start from.
LEMMA EmptyRecords ==
  /\ FreeConn \in ConnRecords /\ GoneConn \in ConnRecords /\ NoCall \in CallRecords
  /\ FreeConn.stage = "free" /\ FreeConn.early = "none" /\ ~FreeConn.alive /\ ~FreeConn.socket
  /\ GoneConn.stage = "gone" /\ GoneConn.early = "none" /\ ~GoneConn.alive /\ ~GoneConn.socket
  /\ NoCall.pc = "idle" /\ NoCall.rejections = 0
<1>1. (CHOOSE o \in Origins : TRUE) \in Origins
  BY H3Constants
<1> DEFINE any == CHOOSE o \in Origins : TRUE
<1> HIDE DEF any
<1>2. /\ FreeConn = [stage |-> "free", origin |-> any, of |-> 1, ech |-> "none",
             offered |-> NoTicket, early |-> "none", key |-> 0, alive |-> FALSE,
             socket |-> FALSE, issued |-> FALSE, probe |-> FALSE]
      /\ NoCall = [pc |-> "idle", origin |-> any, of |-> 1, conn |-> 0,
                   rejections |-> 0, late |-> FALSE]
  BY DEF FreeConn, NoCall, any
<1>3. any \in Origins
  BY <1>1 DEF any
<1>4. FreeConn \in ConnRecords /\ NoCall \in CallRecords
  BY <1>2, <1>3, H3Numbers DEF ConnRecords, CallRecords, ConnStages, CallStages
<1>5. GoneConn \in ConnRecords
  BY <1>4 DEF GoneConn, ConnRecords, ConnStages
<1> QED BY <1>2, <1>4, <1>5 DEF GoneConn, ConnRecords

\* One connection is replaced by another record.
LEMMA ConnReplaced ==
  ASSUME H3States, NEW c \in H3Conns, NEW n \in ConnRecords, h3conn' = [h3conn EXCEPT ![c] = n]
  PROVE  /\ h3conn' \in [H3Conns -> ConnRecords] /\ h3conn'[c] = n
         /\ \A e \in H3Conns : e # c => h3conn'[e] = h3conn[e]
BY DEF H3States

\* A record of a call is replaced by another one.
LEMMA CallReplaced ==
  ASSUME H3States, NEW r \in H3Requests, NEW n \in CallRecords, h3call' = [h3call EXCEPT ![r] = n]
  PROVE  /\ h3call' \in [H3Requests -> CallRecords] /\ h3call'[r] = n
         /\ \A e \in H3Requests : e # r => h3call'[e] = h3call[e]
BY DEF H3States

\* The pool keeps one connection per origin when all its connections are calm.
LEMMA CalmPool ==
  ASSUME H3Inv, \A c \in H3Conns : Calm(c),
         \A c \in H3Conns : h3conn'[c].stage = "ready" /\ InPool(c)' => c \in byOrigin'
  PROVE  Pooled'
<1>1. ASSUME NEW c \in H3Conns, NEW e \in H3Conns, InPool(c)', InPool(e)',
             h3conn'[c].of = h3conn'[e].of, h3conn'[c].origin = h3conn'[e].origin
      PROVE  c = e
  <2>1. /\ InPool(c) /\ InPool(e) /\ h3conn[c].of = h3conn[e].of
        /\ h3conn[c].origin = h3conn[e].origin
    BY <1>1 DEF Calm
  <2> QED BY <2>1 DEF H3Inv, Pooled
<1> QED BY <1>1 DEF Pooled

\* A call whose connections stay calm and whose origin gets no new ticket recovers as
\* before.
LEMMA RecoversKept ==
  ASSUME H3Inv, NEW r \in H3Requests,
         h3call'[r].origin = h3call[r].origin, h3call'[r].of = h3call[r].of,
         h3call'[r].rejections = h3call[r].rejections, h3call'[r].late = h3call[r].late,
         \/ h3call'[r].pc = h3call[r].pc /\ h3call'[r].conn = h3call[r].conn
         \/ h3call[r].pc \in {"send", "dial", "stream"}
            /\ h3call'[r].pc \in {"send", "dial", "stream", "failed"},
         Clean(r) => ticket'[h3call[r].origin] \in {ticket[h3call[r].origin], NoTicket},
         Clean(r) => \A c \in H3Conns : StaleFor(r, c)' =>
                        StaleFor(r, c) /\ (h3conn[c].stage = "ready" => h3conn'[c].stage = "ready")
  PROVE  Recovers(r)'
<1>1. Recovers(r) /\ (Clean(r)' => Clean(r))
  BY DEF H3Inv, Clean, RemovedTicket
<1>2. Clean(r)' => ticket'[h3call'[r].origin] = NoTicket
  BY <1>1 DEF Recovers
<1>3. ASSUME Clean(r)', h3call'[r].rejections = 1, h3call'[r].pc \in {"rejected", "drop"},
             NEW c \in H3Conns, StaleFor(r, c)'
      PROVE  c = h3call'[r].conn /\ h3conn'[c].stage = "ready"
  BY <1>1, <1>3 DEF Recovers
<1>4. ASSUME Clean(r)', h3call'[r].rejections = 2, h3call'[r].pc \in {"send", "dial", "stream"},
             NEW c \in H3Conns, StaleFor(r, c)'
      PROVE  FALSE
  <2>1. h3call[r].pc \in {"send", "dial", "stream"}
    BY <1>4
  <2> QED BY <1>1, <1>4, <2>1 DEF Recovers
<1>5. /\ h3call'[r].rejections = 2 /\ h3call'[r].pc \in {"rejected", "drop"} => h3call'[r].late
      /\ h3call'[r].pc = "failed0RTT" => h3call'[r].late
  BY <1>1 DEF Recovers
<1> QED BY <1>2, <1>3, <1>4, <1>5 DEF Recovers

\* A call that has seen a ticket come back recovers from nothing any more.
LEMMA RecoversLate ==
  ASSUME NEW r \in H3Requests, h3call'[r].late = TRUE
  PROVE  Recovers(r)'
<1>1. ~Clean(r)'
  BY Zenon DEF Clean
<1> QED BY <1>1 DEF Recovers

\* What becomes of the calls when a ticket of the origin is cached.
LEMMA LateCalls ==
  ASSUME H3States, NEW o \in Origins
  PROVE  /\ CallsLate(o) \in [H3Requests -> CallRecords]
         /\ \A r \in H3Requests :
               /\ CallsLate(o)[r].pc = h3call[r].pc /\ CallsLate(o)[r].conn = h3call[r].conn
               /\ CallsLate(o)[r].origin = h3call[r].origin /\ CallsLate(o)[r].of = h3call[r].of
               /\ CallsLate(o)[r].rejections = h3call[r].rejections
               /\ \/ CallsLate(o)[r].late = TRUE
                  \/ CallsLate(o)[r].late = h3call[r].late
                     /\ (RemovedTicket(r) => h3call[r].origin # o)
<1>1. ASSUME NEW r \in H3Requests
      PROVE  /\ CallsLate(o)[r] \in CallRecords
             /\ CallsLate(o)[r].pc = h3call[r].pc /\ CallsLate(o)[r].conn = h3call[r].conn
             /\ CallsLate(o)[r].origin = h3call[r].origin /\ CallsLate(o)[r].of = h3call[r].of
             /\ CallsLate(o)[r].rejections = h3call[r].rejections
             /\ \/ CallsLate(o)[r].late = TRUE
                \/ CallsLate(o)[r].late = h3call[r].late
                   /\ (RemovedTicket(r) => h3call[r].origin # o)
  <2> DEFINE l == [h3call[r] EXCEPT !.late = TRUE]
  <2>1. h3call[r] \in CallRecords
    BY DEF H3States
  <2>2. CallsLate(o)[r] = IF RemovedTicket(r) /\ h3call[r].origin = o THEN l ELSE h3call[r]
    BY DEF CallsLate
  <2>3. l \in CallRecords
    BY <2>1, LateField
  <2>4. /\ l.pc = h3call[r].pc /\ l.conn = h3call[r].conn /\ l.origin = h3call[r].origin
        /\ l.of = h3call[r].of /\ l.rejections = h3call[r].rejections /\ l.late = TRUE
    BY <2>1 DEF CallRecords
  <2> HIDE DEF l
  <2> QED BY <2>1, <2>2, <2>3, <2>4
<1>2. CallsLate(o) = [r \in H3Requests |-> CallsLate(o)[r]]
  BY DEF CallsLate
<1>3. CallsLate(o) \in [H3Requests -> CallRecords]
  BY <1>1, <1>2
<1> QED BY <1>1, <1>3

\* What becomes of the calls when a dial has looked its ticket up.
LEMMA LookedUpCalls ==
  ASSUME H3States, NEW o \in Origins, NEW got \in Nat
  PROVE  /\ CallsAfterLookup(o, got) \in [H3Requests -> CallRecords]
         /\ \A r \in H3Requests :
               /\ CallsAfterLookup(o, got)[r].pc = h3call[r].pc
               /\ CallsAfterLookup(o, got)[r].conn = h3call[r].conn
               /\ CallsAfterLookup(o, got)[r].origin = h3call[r].origin
               /\ CallsAfterLookup(o, got)[r].of = h3call[r].of
               /\ CallsAfterLookup(o, got)[r].rejections = h3call[r].rejections
               /\ \/ CallsAfterLookup(o, got)[r].late = TRUE
                  \/ CallsAfterLookup(o, got)[r].late = h3call[r].late
                     /\ (RemovedTicket(r) => h3call[r].origin # o \/ got = ticket[o])
<1>1. CASE got = ticket[o]
  <2>1. CallsAfterLookup(o, got) = h3call
    BY <1>1 DEF CallsAfterLookup
  <2> QED BY <1>1, <2>1 DEF H3States
<1>2. CASE got # ticket[o]
  <2>1. CallsAfterLookup(o, got) = CallsLate(o)
    BY <1>2 DEF CallsAfterLookup
  <2>2. /\ CallsLate(o) \in [H3Requests -> CallRecords]
        /\ \A r \in H3Requests :
              /\ CallsLate(o)[r].pc = h3call[r].pc /\ CallsLate(o)[r].conn = h3call[r].conn
              /\ CallsLate(o)[r].origin = h3call[r].origin /\ CallsLate(o)[r].of = h3call[r].of
              /\ CallsLate(o)[r].rejections = h3call[r].rejections
              /\ \/ CallsLate(o)[r].late = TRUE
                 \/ CallsLate(o)[r].late = h3call[r].late
                    /\ (RemovedTicket(r) => h3call[r].origin # o)
    BY LateCalls
  <2> QED BY <2>1, <2>2
<1> QED BY <1>1, <1>2

\* Calm connections bring a call no stale one.
LEMMA CalmStale ==
  ASSUME NEW r \in H3Requests, \A c \in H3Conns : Calm(c),
         h3call'[r].origin = h3call[r].origin, h3call'[r].of = h3call[r].of,
         \A c \in H3Conns : InPool(c)' => ~h3conn[c].probe
  PROVE  \A c \in H3Conns : StaleFor(r, c)' =>
            StaleFor(r, c) /\ (h3conn[c].stage = "ready" => h3conn'[c].stage = "ready")
BY DEF StaleFor, CallConn, Calm

\* A call that starts anew has nothing to recover from.
LEMMA RecoversFresh ==
  ASSUME NEW r \in H3Requests, h3call'[r].rejections = 0,
         h3call'[r].pc \notin {"drop", "failed0RTT"}
  PROVE  Recovers(r)'
<1>1. ~Clean(r)'
  BY DEF Clean, RemovedTicket
<1> QED BY <1>1 DEF Recovers

\* Quiet connections are calm and keep their life cycle.
LEMMA QuietConns ==
  ASSUME H3Inv, \A c \in H3Conns : Quiet(c), dialled' = dialled
  PROVE  Lifecycle' /\ \A c \in H3Conns : Calm(c) /\ (InPool(c)' => InPool(c))
<1>1. Lifecycle
  BY DEF H3Inv
<1>2. Lifecycle'
  BY <1>1 DEF Lifecycle, Quiet
<1>3. ASSUME NEW c \in H3Conns PROVE Calm(c) /\ (InPool(c)' => InPool(c))
  BY <1>3 DEF Calm, Quiet, InPool, Stale
<1> QED BY <1>2, <1>3

\* A call stays on its own connection while connections change quietly.
LEMMA QuietOnOwnConn ==
  ASSUME H3Inv, \A c \in H3Conns : Quiet(c), NEW r \in H3Requests,
         h3call'[r].pc = h3call[r].pc, h3call'[r].conn = h3call[r].conn,
         h3call'[r].origin = h3call[r].origin, h3call'[r].of = h3call[r].of
  PROVE  OnOwnConn(r)'
<1>1. OnOwnConn(r)
  BY DEF H3Inv
<1>2. \A c \in H3Conns : CallConn(r, c)' <=> CallConn(r, c)
  BY DEF CallConn, Quiet
<1> QED BY <1>1, <1>2 DEF OnOwnConn, Quiet

\* A step that disturbs neither calls nor tickets, and connections only quietly.
LEMMA QuietInv ==
  ASSUME H3Inv, \A c \in H3Conns : Quiet(c), UNCHANGED <<dialled, ticket, h3call, byOrigin>>,
         H3States', SocketTables'
  PROVE  H3Inv'
<1>1. Lifecycle' /\ \A c \in H3Conns : Calm(c) /\ (InPool(c)' => InPool(c))
  BY QuietConns
<1>2. Pooled'
  <2>1. \A c \in H3Conns : h3conn[c].stage = "ready" /\ InPool(c) => c \in byOrigin
    BY DEF H3Inv, Pooled
  <2>2. \A c \in H3Conns : h3conn'[c].stage = "ready" /\ InPool(c)' => c \in byOrigin'
    BY <1>1, <2>1 DEF Quiet
  <2> QED BY <1>1, <2>2, CalmPool
<1>3. ASSUME NEW r \in H3Requests PROVE OnOwnConn(r)' /\ Recovers(r)'
  <2>1. \A c \in H3Conns : StaleFor(r, c)' =>
            StaleFor(r, c) /\ (h3conn[c].stage = "ready" => h3conn'[c].stage = "ready")
    <3>1. \A c \in H3Conns : InPool(c)' => ~h3conn[c].probe
      BY <1>1 DEF InPool
    <3> QED BY <1>1, <3>1, CalmStale
  <2>2. Recovers(r)'
    BY <2>1, RecoversKept
  <2>3. OnOwnConn(r)'
    BY QuietOnOwnConn
  <2> QED BY <2>2, <2>3
<1> QED BY <1>1, <1>2, <1>3 DEF H3Inv

\* A connection that ends keeps its stage, its pool and its socket.
LEMMA EndedRecord ==
  ASSUME NEW d \in ConnRecords
  PROVE  /\ EndedConn(d) \in ConnRecords
         /\ EndedConn(d).stage = d.stage /\ EndedConn(d).origin = d.origin
         /\ EndedConn(d).of = d.of /\ EndedConn(d).probe = d.probe
         /\ EndedConn(d).offered = d.offered /\ EndedConn(d).early = d.early
         /\ EndedConn(d).socket = d.socket /\ EndedConn(d).alive = FALSE
<1> DEFINE m == [d EXCEPT !.alive = FALSE]
           n == [m EXCEPT !.issued = FALSE]
<1>1. m \in ConnRecords /\ n \in ConnRecords
  BY AliveField, IssuedField
<1>2. EndedConn(d) = [n EXCEPT !.key = 0]
  BY DEF EndedConn
<1>3. /\ m.stage = d.stage /\ m.origin = d.origin /\ m.of = d.of /\ m.probe = d.probe
      /\ m.offered = d.offered /\ m.early = d.early /\ m.socket = d.socket /\ m.alive = FALSE
  BY DEF ConnRecords
<1> HIDE DEF m
<1>4. /\ n.stage = m.stage /\ n.origin = m.origin /\ n.of = m.of /\ n.probe = m.probe
      /\ n.offered = m.offered /\ n.early = m.early /\ n.socket = m.socket /\ n.alive = m.alive
  BY <1>1 DEF ConnRecords
<1> HIDE DEF n
<1>5. /\ [n EXCEPT !.key = 0] \in ConnRecords
      /\ [n EXCEPT !.key = 0].stage = n.stage /\ [n EXCEPT !.key = 0].origin = n.origin
      /\ [n EXCEPT !.key = 0].of = n.of /\ [n EXCEPT !.key = 0].probe = n.probe
      /\ [n EXCEPT !.key = 0].offered = n.offered /\ [n EXCEPT !.key = 0].early = n.early
      /\ [n EXCEPT !.key = 0].socket = n.socket /\ [n EXCEPT !.key = 0].alive = n.alive
  BY <1>1 DEF ConnRecords
<1> QED BY <1>2, <1>3, <1>4, <1>5

\* What the two ways to end a set of connections do to each connection.
LEMMA EndedConns ==
  ASSUME H3States, NEW S, h3conn' = Ended(S)
  PROVE  /\ h3conn' \in [H3Conns -> ConnRecords]
         /\ \A c \in H3Conns : Quiet(c) /\ h3conn'[c].socket = h3conn[c].socket
         /\ \A c \in H3Conns : c \in S => ~h3conn'[c].alive
<1>1. ASSUME NEW c \in H3Conns
      PROVE  /\ h3conn'[c] \in ConnRecords /\ Quiet(c) /\ h3conn'[c].socket = h3conn[c].socket
             /\ c \in S => ~h3conn'[c].alive
  <2>1. h3conn[c] \in ConnRecords
    BY DEF H3States
  <2> DEFINE m == EndedConn(h3conn[c])
  <2>2. h3conn'[c] = IF c \in S THEN m ELSE h3conn[c]
    BY DEF Ended
  <2>3. m \in ConnRecords
    BY <2>1, EndedRecord
  <2>4. /\ m.stage = h3conn[c].stage /\ m.origin = h3conn[c].origin /\ m.of = h3conn[c].of
        /\ m.probe = h3conn[c].probe /\ m.offered = h3conn[c].offered
        /\ m.early = h3conn[c].early /\ m.socket = h3conn[c].socket /\ m.alive = FALSE
    BY <2>1, EndedRecord
  <2> HIDE DEF m
  <2> QED BY <2>1, <2>2, <2>3, <2>4 DEF Quiet
<1>2. h3conn' \in [H3Conns -> ConnRecords]
  <2>1. h3conn' = [c \in H3Conns |-> h3conn'[c]]
    BY DEF Ended
  <2> QED BY <1>1, <2>1
<1> QED BY <1>1, <1>2

\* As EndedConns, for connections whose sockets are closed too.
LEMMA TornConns ==
  ASSUME H3States, NEW S, h3conn' = Torn(S)
  PROVE  /\ h3conn' \in [H3Conns -> ConnRecords]
         /\ \A c \in H3Conns : Quiet(c) /\ (h3conn'[c].socket => h3conn[c].socket)
         /\ \A c \in H3Conns : c \in S => ~h3conn'[c].alive /\ ~h3conn'[c].socket
<1>1. ASSUME NEW c \in H3Conns
      PROVE  /\ h3conn'[c] \in ConnRecords /\ Quiet(c) /\ (h3conn'[c].socket => h3conn[c].socket)
             /\ c \in S => ~h3conn'[c].alive /\ ~h3conn'[c].socket
  <2> DEFINE m == EndedConn(h3conn[c])
             n == [m EXCEPT !.socket = FALSE]
  <2>1. h3conn[c] \in ConnRecords
    BY DEF H3States
  <2>2. m \in ConnRecords
    BY <2>1, EndedRecord
  <2>3. /\ m.stage = h3conn[c].stage /\ m.origin = h3conn[c].origin /\ m.of = h3conn[c].of
        /\ m.probe = h3conn[c].probe /\ m.offered = h3conn[c].offered
        /\ m.early = h3conn[c].early /\ m.alive = FALSE
    BY <2>1, EndedRecord
  <2>4. h3conn'[c] = IF c \in S THEN n ELSE h3conn[c]
    BY DEF Torn
  <2> HIDE DEF m
  <2>5. n \in ConnRecords
    BY <2>2, SocketField
  <2>6. /\ n.stage = m.stage /\ n.origin = m.origin /\ n.of = m.of /\ n.probe = m.probe
        /\ n.offered = m.offered /\ n.early = m.early /\ n.alive = m.alive /\ n.socket = FALSE
    BY <2>2 DEF ConnRecords
  <2> HIDE DEF n
  <2> QED BY <2>1, <2>3, <2>4, <2>5, <2>6 DEF Quiet
<1>2. h3conn' \in [H3Conns -> ConnRecords]
  <2>1. h3conn' = [c \in H3Conns |-> h3conn'[c]]
    BY DEF Torn
  <2> QED BY <1>1, <2>1
<1> QED BY <1>1, <1>2

\* The tables of sockets hold what they held when connections only end.
LEMMA SocketsQuiet ==
  ASSUME H3Inv, \A c \in H3Conns : Quiet(c) /\ (h3conn'[c].socket => h3conn[c].socket),
         UNCHANGED <<route, h3Closed, sockets, proxyConns>>
  PROVE  SocketTables'
<1>1. SocketTables
  BY DEF H3Inv
<1> QED BY <1>1 DEF SocketTables, Quiet

\* A step that changes nothing.
LEMMA H3Unchanged ==
  ASSUME H3Inv, UNCHANGED h3Vars PROVE H3Inv'
<1>1. \A c \in H3Conns : Quiet(c) /\ (h3conn'[c].socket => h3conn[c].socket)
  BY DEF h3Vars, Quiet
<1>2. H3States'
  BY DEF H3Inv, H3States, h3Vars, h3Admin, h3Peer
<1>3. SocketTables'
  BY <1>1, SocketsQuiet DEF h3Vars, h3Admin, h3Tables
<1> QED BY <1>1, <1>2, <1>3, QuietInv DEF h3Vars, h3Peer, h3Tables

\* The steps that only end connections, or change what a dial will offer.
LEMMA EndingSteps ==
  ASSUME H3Inv,
         \/ \E c \in H3Conns : EchRejected(c) \/ ConnEnds(c)
         \/ \E o \in Origins : RotateKeys(o)
         \/ CloseBegin \/ RefreshBegin \/ RefreshEnd
  PROVE  H3Inv'
<1>s. H3States
  BY DEF H3Inv
<1>1. ASSUME h3conn' \in [H3Conns -> ConnRecords],
             \A c \in H3Conns : Quiet(c) /\ (h3conn'[c].socket => h3conn[c].socket),
             transport' \in Nat, serverKey' \in [Origins -> Nat],
             echConfig' \in [Origins -> {"none", "good", "stale"}],
             UNCHANGED <<route, h3Closed, sockets, proxyConns, byOrigin, dialled, ticket, h3call>>
      PROVE  H3Inv'
  <2>1. H3States'
    BY <1>1, <1>s DEF H3States
  <2>2. SocketTables'
    BY <1>1, SocketsQuiet
  <2> QED BY <1>1, <2>1, <2>2, QuietInv
<1>2. ASSUME NEW c \in H3Conns, EchRejected(c) PROVE H3Inv'
  <2> DEFINE n == [h3conn[c] EXCEPT !.ech = "none"]
  <2>1. h3conn[c] \in ConnRecords /\ h3conn' = [h3conn EXCEPT ![c] = n]
    BY <1>2, <1>s DEF EchRejected, H3States
  <2>2. /\ n \in ConnRecords
        /\ n.stage = h3conn[c].stage /\ n.origin = h3conn[c].origin /\ n.of = h3conn[c].of
        /\ n.probe = h3conn[c].probe /\ n.offered = h3conn[c].offered
        /\ n.early = h3conn[c].early /\ n.alive = h3conn[c].alive /\ n.socket = h3conn[c].socket
    BY <2>1 DEF ConnRecords
  <2> HIDE DEF n
  <2>3. /\ h3conn' \in [H3Conns -> ConnRecords] /\ h3conn'[c] = n
        /\ \A e \in H3Conns : e # c => h3conn'[e] = h3conn[e]
    BY <1>s, <2>1, <2>2, ConnReplaced
  <2>4. \A e \in H3Conns : Quiet(e) /\ (h3conn'[e].socket => h3conn[e].socket)
    BY <2>2, <2>3 DEF Quiet
  <2>5. echConfig' \in [Origins -> {"none", "good", "stale"}]
    BY <1>2, <1>s DEF EchRejected, H3States
  <2> QED BY <1>1, <1>2, <1>s, <2>3, <2>4, <2>5
         DEF EchRejected, H3States, h3Admin, h3Tables, h3Peer
<1>3. ASSUME NEW c \in H3Conns, ConnEnds(c) PROVE H3Inv'
  <2>1. /\ h3conn' \in [H3Conns -> ConnRecords]
        /\ \A e \in H3Conns : Quiet(e) /\ (h3conn'[e].socket => h3conn[e].socket)
    BY <1>3, <1>s, EndedConns DEF ConnEnds
  <2> QED BY <1>1, <1>3, <1>s, <2>1 DEF ConnEnds, H3States, h3Admin, h3Tables, h3Peer
<1>4. ASSUME NEW o \in Origins, RotateKeys(o) PROVE H3Inv'
  <2>1. ASSUME NEW e \in H3Conns
        PROVE  h3conn'[e] \in ConnRecords /\ Quiet(e) /\ (h3conn'[e].socket => h3conn[e].socket)
    <3> DEFINE n == [h3conn[e] EXCEPT !.ech = "stale"]
    <3>1. h3conn[e] \in ConnRecords /\ h3conn'[e] \in {n, h3conn[e]}
      BY <1>4, <1>s DEF RotateKeys, H3States
    <3>2. /\ n \in ConnRecords
          /\ n.stage = h3conn[e].stage /\ n.origin = h3conn[e].origin /\ n.of = h3conn[e].of
          /\ n.probe = h3conn[e].probe /\ n.offered = h3conn[e].offered
          /\ n.early = h3conn[e].early /\ n.alive = h3conn[e].alive /\ n.socket = h3conn[e].socket
      BY <3>1 DEF ConnRecords
    <3> HIDE DEF n
    <3> QED BY <3>1, <3>2 DEF Quiet
  <2>2. h3conn' \in [H3Conns -> ConnRecords]
    <3>1. h3conn' = [e \in H3Conns |-> h3conn'[e]]
      BY <1>4 DEF RotateKeys
    <3> QED BY <2>1, <3>1
  <2>3. serverKey' \in [Origins -> Nat] /\ echConfig' \in [Origins -> {"none", "good", "stale"}]
    BY <1>4, <1>s DEF RotateKeys, H3States
  <2> QED BY <1>1, <1>4, <1>s, <2>1, <2>2, <2>3 DEF RotateKeys, H3States, h3Admin, h3Tables
<1>5. ASSUME CloseTransport(transport), transport' = transport,
             UNCHANGED <<route, h3Closed, dialled, h3Tables, h3Peer, h3call>>
      PROVE  H3Inv'
  <2>1. /\ h3conn' \in [H3Conns -> ConnRecords]
        /\ \A e \in H3Conns : Quiet(e) /\ (h3conn'[e].socket => h3conn[e].socket)
    BY <1>5, <1>s, EndedConns DEF CloseTransport
  <2> QED BY <1>1, <1>5, <1>s, <2>1 DEF H3States, h3Tables, h3Peer
<1>6. CASE CloseBegin \/ RefreshBegin
  BY <1>5, <1>6 DEF CloseBegin, RefreshBegin
<1>7. CASE RefreshEnd
  <2>1. /\ h3conn' \in [H3Conns -> ConnRecords]
        /\ \A e \in H3Conns : Quiet(e) /\ (h3conn'[e].socket => h3conn[e].socket)
    BY <1>7, <1>s DEF RefreshEnd, H3States, Quiet
  <2> QED BY <1>1, <1>7, <1>s, <2>1 DEF RefreshEnd, H3States, h3Tables, h3Peer
<1> QED BY <1>2, <1>3, <1>4, <1>6, <1>7

\* The steps that fill or sweep a table of sockets.
LEMMA SweepingSteps ==
  ASSUME H3Inv, \/ \E c \in H3Conns : DialRelay(c)
                \/ CloseSockets \/ CloseTunnel \/ RefreshSockets
  PROVE  H3Inv'
<1>s. H3States /\ SocketTables /\ Lifecycle
  BY DEF H3Inv
<1>1. ASSUME h3conn' \in [H3Conns -> ConnRecords], \A c \in H3Conns : Quiet(c), SocketTables',
             UNCHANGED <<transport, dialled, h3Peer, h3call, byOrigin>>
      PROVE  H3Inv'
  <2>1. H3States'
    BY <1>1, <1>s DEF H3States, h3Peer
  <2> QED BY <1>1, <2>1, QuietInv DEF h3Peer
<1>2. ASSUME NEW c \in H3Conns, DialRelay(c) PROVE H3Inv'
  <2> DEFINE n == [h3conn[c] EXCEPT !.socket = TRUE]
  <2>1. h3conn[c] \in ConnRecords /\ h3conn' = [h3conn EXCEPT ![c] = n]
    BY <1>2, <1>s DEF DialRelay, H3States
  <2>2. n \in ConnRecords
    BY <2>1, SocketField
  <2>3. /\ n.stage = h3conn[c].stage /\ n.origin = h3conn[c].origin /\ n.of = h3conn[c].of
        /\ n.probe = h3conn[c].probe /\ n.offered = h3conn[c].offered
        /\ n.early = h3conn[c].early /\ n.alive = h3conn[c].alive
    BY <2>1 DEF ConnRecords
  <2> HIDE DEF n
  <2>4. /\ h3conn' \in [H3Conns -> ConnRecords] /\ h3conn'[c] = n
        /\ \A e \in H3Conns : e # c => h3conn'[e] = h3conn[e]
    BY <1>s, <2>1, <2>2, ConnReplaced
  <2>5. \A e \in H3Conns : Quiet(e)
    BY <2>3, <2>4 DEF Quiet
  <2>6. /\ h3conn'[c].stage = "dialling" /\ h3conn'[c].alive = h3conn[c].alive
        /\ c \in proxyConns' /\ proxyConns \subseteq proxyConns' /\ sockets' = sockets
        /\ UNCHANGED <<route, h3Closed>>
    BY <1>2, <2>3, <2>4 DEF DialRelay, h3Admin
  <2>7. SocketTables'
    <3>1. ASSUME NEW e \in H3Conns
          PROVE  /\ h3conn'[e].socket =>
                      \/ h3conn'[e].stage \in {"dialling", "dialled"}
                      \/ e \in sockets' \cup proxyConns'
                      \/ h3conn'[e].stage \in {"registered", "ready"} /\ ~h3conn'[e].alive
                 /\ route' = "socks" /\ h3conn'[e].stage = "dialling" /\ h3conn'[e].socket =>
                      e \in proxyConns'
                 /\ route' = "direct" /\ h3conn'[e].alive =>
                      h3conn'[e].stage = "dialled" \/ e \in sockets'
      <4>1. CASE e = c
        BY <1>s, <2>3, <2>4, <2>6, <4>1 DEF SocketTables
      <4>2. CASE e # c
        BY <1>s, <2>4, <2>6, <4>2 DEF SocketTables
      <4> QED BY <4>1, <4>2
    <3>2. h3Closed' => sockets' = {}
      BY <1>s, <2>6 DEF SocketTables
    <3> QED BY <3>1, <3>2 DEF SocketTables
  <2> QED BY <1>1, <1>2, <2>4, <2>5, <2>7 DEF DialRelay, h3Admin
<1>3. ASSUME NEW S, h3conn' = Torn(S), sockets' \subseteq sockets, proxyConns' \subseteq proxyConns,
             sockets \subseteq S \cup sockets', proxyConns \subseteq S \cup proxyConns',
             h3Closed' => h3Closed \/ sockets' = {},
             UNCHANGED <<route, transport, dialled, h3Peer, h3call, byOrigin>>
      PROVE  H3Inv'
  <2>1. /\ h3conn' \in [H3Conns -> ConnRecords]
        /\ \A c \in H3Conns : Quiet(c) /\ (h3conn'[c].socket => h3conn[c].socket)
        /\ \A c \in H3Conns : c \in S => ~h3conn'[c].alive /\ ~h3conn'[c].socket
    BY <1>3, <1>s, TornConns
  <2>2. SocketTables'
    <3>1. ASSUME NEW c \in H3Conns, h3conn'[c].socket
          PROVE  \/ h3conn'[c].stage \in {"dialling", "dialled"}
                 \/ c \in sockets' \cup proxyConns'
                 \/ h3conn'[c].stage \in {"registered", "ready"} /\ ~h3conn'[c].alive
      BY <1>3, <1>s, <2>1, <3>1 DEF SocketTables, Quiet
    <3>2. ASSUME NEW c \in H3Conns, route' = "socks", h3conn'[c].stage = "dialling",
                 h3conn'[c].socket
          PROVE  c \in proxyConns'
      BY <1>3, <1>s, <2>1, <3>2 DEF SocketTables, Quiet
    <3>3. ASSUME NEW c \in H3Conns, route' = "direct", h3conn'[c].alive
          PROVE  h3conn'[c].stage = "dialled" \/ c \in sockets'
      BY <1>3, <1>s, <2>1, <3>3 DEF SocketTables, Quiet
    <3>4. h3Closed' => sockets' = {}
      BY <1>3, <1>s DEF SocketTables
    <3> QED BY <3>1, <3>2, <3>3, <3>4 DEF SocketTables
  <2> QED BY <1>1, <1>3, <2>1, <2>2
<1>4. CASE CloseSockets
  BY <1>3, <1>4 DEF CloseSockets
<1>5. CASE RefreshSockets
  BY <1>3, <1>5 DEF RefreshSockets
<1>6. CASE CloseTunnel
  <2>1. CASE tunnelUp
    BY <1>3, <1>6, <2>1 DEF CloseTunnel
  <2>2. CASE ~tunnelUp
    <3>1. /\ h3conn' \in [H3Conns -> ConnRecords]
          /\ \A e \in H3Conns : Quiet(e) /\ (h3conn'[e].socket => h3conn[e].socket)
      BY <1>6, <1>s, <2>2 DEF CloseTunnel, H3States, Quiet
    <3>2. SocketTables'
      BY <1>6, <2>2, <3>1, SocketsQuiet DEF CloseTunnel
    <3> QED BY <1>1, <1>6, <3>1, <3>2 DEF CloseTunnel
  <2> QED BY <2>1, <2>2
<1> QED BY <1>2, <1>4, <1>5, <1>6

\* One connection moves on to a later stage: it must be calm, sound and owned, and
\* each call must still be on its own connection.
LEMMA MovedConn ==
  ASSUME H3Inv, NEW c \in H3Conns, NEW n \in ConnRecords, h3conn' = [h3conn EXCEPT ![c] = n],
         h3conn[c].stage # "free", n.stage \notin {"free", "dialling"}, Calm(c),
         n.alive => n.stage \in {"dialled", "registered", "ready"},
         n.probe = h3conn[c].probe \/ n.stage = "gone",
         n.stage = "ready" /\ InPool(c)' => c \in byOrigin',
         \A e \in byOrigin : e # c => e \in byOrigin',
         UNCHANGED <<transport, dialled, ticket, serverKey>>,
         echConfig' \in [Origins -> {"none", "good", "stale"}],
         h3call' \in [H3Requests -> CallRecords], SocketTables',
         \A r \in H3Requests :
             \/ /\ h3call'[r].origin = h3call[r].origin /\ h3call'[r].of = h3call[r].of
                /\ h3call'[r].rejections = h3call[r].rejections
                /\ h3call'[r].late = h3call[r].late /\ h3call'[r].conn = h3call[r].conn
                /\ h3call'[r].pc = h3call[r].pc
                      \/ (h3call[r].pc = "dial" /\ h3call'[r].pc = "stream")
             \/ h3call'[r].rejections = 0 /\ h3call'[r].pc = "failed",
         \A r \in H3Requests : h3call[r].conn = c /\ h3call'[r].pc \in {"dial", "stream"} =>
            OnOwnConn(r)',
         \A r \in H3Requests : h3call[r].conn # c =>
            h3call'[r].pc # "stream" \/ h3call[r].pc = "stream"
  PROVE  H3Inv'
<1>s. H3States /\ Lifecycle
  BY DEF H3Inv
<1>1. /\ h3conn' \in [H3Conns -> ConnRecords] /\ h3conn'[c] = n
      /\ \A e \in H3Conns : e # c => h3conn'[e] = h3conn[e]
  BY <1>s, ConnReplaced
<1>2. H3States'
  BY <1>1, <1>s DEF H3States
<1>3. Lifecycle'
  <2>1. c <= dialled
    BY <1>s, H3Numbers DEF Lifecycle, H3States
  <2> QED BY <1>1, <1>s, <2>1, H3Numbers DEF Lifecycle, H3States
<1>4. \A e \in H3Conns : Calm(e) /\ (InPool(e)' => ~h3conn[e].probe)
  <2>1. ASSUME NEW e \in H3Conns, e # c PROVE Calm(e) /\ (InPool(e)' => InPool(e))
    BY <1>1, <2>1 DEF Calm, InPool, Stale
  <2>2. InPool(c)' => ~h3conn[c].probe
    BY DEF Calm, InPool
  <2> QED BY <2>1, <2>2 DEF InPool
<1>5. Pooled'
  <2>1. \A e \in H3Conns : h3conn[e].stage = "ready" /\ InPool(e) => e \in byOrigin
    BY DEF H3Inv, Pooled
  <2>2. ASSUME NEW e \in H3Conns, h3conn'[e].stage = "ready", InPool(e)' PROVE e \in byOrigin'
    <3>1. CASE e = c
      BY <1>1, <2>2, <3>1
    <3>2. CASE e # c
      BY <1>1, <2>1, <2>2, <3>2 DEF InPool
    <3> QED BY <3>1, <3>2
  <2> QED BY <1>4, <2>2, CalmPool
<1>6. ASSUME NEW r \in H3Requests PROVE Recovers(r)'
  <2>1. CASE h3call'[r].rejections = 0 /\ h3call'[r].pc = "failed"
    BY <2>1, RecoversFresh
  <2>2. CASE /\ h3call'[r].origin = h3call[r].origin /\ h3call'[r].of = h3call[r].of
             /\ h3call'[r].rejections = h3call[r].rejections
             /\ h3call'[r].late = h3call[r].late /\ h3call'[r].conn = h3call[r].conn
             /\ h3call'[r].pc = h3call[r].pc \/ (h3call[r].pc = "dial" /\ h3call'[r].pc = "stream")
    <3>1. \A e \in H3Conns : StaleFor(r, e)' =>
             StaleFor(r, e) /\ (h3conn[e].stage = "ready" => h3conn'[e].stage = "ready")
      BY <1>4, <2>2, CalmStale
    <3> QED BY <2>2, <3>1, RecoversKept
  <2> QED BY <2>1, <2>2
<1>7. ASSUME NEW r \in H3Requests PROVE OnOwnConn(r)'
  <2>1. CASE h3call'[r].pc \notin {"dial", "stream"}
    BY <2>1 DEF OnOwnConn
  <2>2. CASE h3call'[r].pc \in {"dial", "stream"} /\ h3call[r].conn = c
    BY <2>2
  <2>3. CASE h3call'[r].pc \in {"dial", "stream"} /\ h3call[r].conn # c
    <3>1. /\ h3call'[r].origin = h3call[r].origin /\ h3call'[r].of = h3call[r].of
          /\ h3call'[r].conn = h3call[r].conn /\ h3call'[r].pc = h3call[r].pc
      BY <2>3
    <3>2. OnOwnConn(r)
      BY DEF H3Inv
    <3> QED BY <1>1, <2>3, <3>1, <3>2 DEF OnOwnConn, CallConn
  <2> QED BY <2>1, <2>2, <2>3
<1> QED BY <1>2, <1>3, <1>5, <1>6, <1>7 DEF H3Inv

\* Calls that wait for a dial are woken, the others are left alone.
LEMMA WokenCalls ==
  ASSUME H3States, NEW c \in H3Conns, NEW w \in {"stream", "failed"}, h3call' = Woken(c, w)
  PROVE  /\ h3call' \in [H3Requests -> CallRecords]
         /\ \A r \in H3Requests :
               ~(h3call[r].pc = "dial" /\ h3call[r].conn = c) => h3call'[r] = h3call[r]
         /\ \A r \in H3Requests : h3call[r].pc = "dial" /\ h3call[r].conn = c =>
               /\ h3call'[r].pc = w
               /\ w = "failed" => h3call'[r].rejections = 0
               /\ w = "stream" =>
                     /\ h3call'[r].origin = h3call[r].origin /\ h3call'[r].of = h3call[r].of
                     /\ h3call'[r].rejections = h3call[r].rejections
                     /\ h3call'[r].late = h3call[r].late /\ h3call'[r].conn = h3call[r].conn
<1>1. ASSUME NEW r \in H3Requests
      PROVE  /\ h3call'[r] \in CallRecords
             /\ ~(h3call[r].pc = "dial" /\ h3call[r].conn = c) => h3call'[r] = h3call[r]
             /\ h3call[r].pc = "dial" /\ h3call[r].conn = c =>
                   /\ h3call'[r].pc = w
                   /\ w = "failed" => h3call'[r].rejections = 0
                   /\ w = "stream" =>
                         /\ h3call'[r].origin = h3call[r].origin /\ h3call'[r].of = h3call[r].of
                         /\ h3call'[r].rejections = h3call[r].rejections
                         /\ h3call'[r].late = h3call[r].late /\ h3call'[r].conn = h3call[r].conn
  <2> DEFINE f == [NoCall EXCEPT !.pc = w]
             g == [h3call[r] EXCEPT !.pc = w]
  <2>1. h3call[r] \in CallRecords
    BY DEF H3States
  <2>2. f \in CallRecords /\ f.pc = w /\ f.rejections = 0
    BY EmptyRecords DEF CallRecords, CallStages
  <2>3. /\ g \in CallRecords /\ g.pc = w /\ g.origin = h3call[r].origin /\ g.of = h3call[r].of
        /\ g.rejections = h3call[r].rejections /\ g.late = h3call[r].late
        /\ g.conn = h3call[r].conn
    BY <2>1 DEF CallRecords, CallStages
  <2>4. h3call'[r] = IF h3call[r].pc = "dial" /\ h3call[r].conn = c
                     THEN IF w = "failed" THEN f ELSE g
                     ELSE h3call[r]
    BY DEF Woken
  <2> HIDE DEF f, g
  <2> QED BY <2>1, <2>2, <2>3, <2>4
<1>2. h3call' \in [H3Requests -> CallRecords]
  <2>1. h3call' = [r \in H3Requests |-> h3call'[r]]
    BY DEF Woken
  <2> QED BY <1>1, <2>1
<1> QED BY <1>1, <1>2

\* The tables of sockets after one connection has moved.
LEMMA MovedSockets ==
  ASSUME H3Inv, NEW c \in H3Conns, NEW n \in ConnRecords, h3conn' = [h3conn EXCEPT ![c] = n],
         UNCHANGED <<route, h3Closed>>, n.stage # "dialling",
         \A e \in H3Conns : e # c =>
            (e \in sockets' <=> e \in sockets) /\ (e \in proxyConns' <=> e \in proxyConns),
         n.socket => n.stage = "dialled" \/ c \in sockets' \cup proxyConns'
                     \/ (n.stage \in {"registered", "ready"} /\ ~n.alive),
         route = "direct" /\ n.alive => n.stage = "dialled" \/ c \in sockets',
         h3Closed => sockets' = {}
  PROVE  SocketTables'
<1>s. H3States /\ SocketTables
  BY DEF H3Inv
<1>1. /\ h3conn'[c] = n /\ \A e \in H3Conns : e # c => h3conn'[e] = h3conn[e]
  BY <1>s, ConnReplaced
<1>2. ASSUME NEW e \in H3Conns
      PROVE  /\ h3conn'[e].socket =>
                  \/ h3conn'[e].stage \in {"dialling", "dialled"}
                  \/ e \in sockets' \cup proxyConns'
                  \/ h3conn'[e].stage \in {"registered", "ready"} /\ ~h3conn'[e].alive
             /\ route' = "socks" /\ h3conn'[e].stage = "dialling" /\ h3conn'[e].socket =>
                  e \in proxyConns'
             /\ route' = "direct" /\ h3conn'[e].alive =>
                  h3conn'[e].stage = "dialled" \/ e \in sockets'
  <2>1. CASE e = c
    BY <1>1, <2>1
  <2>2. CASE e # c
    BY <1>1, <1>s, <2>2 DEF SocketTables
  <2> QED BY <2>1, <2>2
<1> QED BY <1>2 DEF SocketTables

\* The handshake: early data is rejected only if a ticket was offered.
LEMMA DialEarlyStep ==
  ASSUME H3Inv, NEW c \in H3Conns, DialEarly(c) PROVE H3Inv'
<1>s. H3States /\ Lifecycle /\ SocketTables
  BY DEF H3Inv
<1> DEFINE conn == h3conn[c]
           stage == IF route = "socks" THEN "registered" ELSE "dialled"
           early == CASE conn.offered = NoTicket               -> "none"
                      [] conn.offered = serverKey[conn.origin] -> "accepted"
                      [] OTHER                                 -> "rejected"
           m == [conn EXCEPT !.alive = TRUE]
           k == [m EXCEPT !.socket = TRUE]
           n == [k EXCEPT !.stage = stage, !.key = serverKey[conn.origin], !.offered = NoTicket,
                          !.ech = "none", !.early = early]
<1>1. /\ conn \in ConnRecords /\ conn.stage = "dialling" /\ (route = "socks" => conn.socket)
      /\ UNCHANGED <<h3Admin, tunnelUp, dialled, h3Tables, h3Peer, h3call, adminCalls>>
  BY <1>s DEF DialEarly, H3States
<1>2. h3conn' = [h3conn EXCEPT ![c] = n]
  BY DEF DialEarly
<1>3. m \in ConnRecords /\ k \in ConnRecords
  BY <1>1, AliveField, SocketField
<1>4. /\ stage \in {"dialled", "registered"} /\ (route = "direct" => stage = "dialled")
      /\ stage = "registered" => route = "socks"
      /\ early \in {"none", "accepted", "rejected"}
      /\ early = "rejected" => conn.offered # NoTicket
  BY Zenon
<1>5. serverKey[conn.origin] \in Nat
  BY <1>1, <1>s DEF H3States, ConnRecords
<1>6. m.of = conn.of /\ m.origin = conn.origin /\ m.probe = conn.probe /\ m.alive = TRUE
  BY <1>1 DEF ConnRecords
<1> HIDE DEF m
<1>7. k.of = conn.of /\ k.origin = conn.origin /\ k.probe = conn.probe /\ k.alive = TRUE
  BY <1>3, <1>6 DEF ConnRecords
<1> HIDE DEF k, stage, early
<1>8. /\ n \in ConnRecords /\ n.of = conn.of /\ n.origin = conn.origin /\ n.probe = conn.probe
      /\ n.alive = TRUE /\ n.stage = stage /\ n.early = early
  BY <1>3, <1>4, <1>5, <1>7, H3Numbers DEF ConnRecords, ConnStages
<1> HIDE DEF n
<1>9. h3conn'[c] = n
  BY <1>2, <1>8, <1>s, ConnReplaced
<1>10. Calm(c)
  BY <1>1, <1>4, <1>8, <1>9 DEF Calm, InPool, Stale
<1>11. SocketTables'
  <2>1. stage = "registered" => c \in proxyConns
    BY <1>1, <1>4, <1>s DEF SocketTables
  <2>2. h3Closed => sockets = {}
    BY <1>s DEF SocketTables
  <2>3. UNCHANGED <<route, h3Closed, sockets, proxyConns>>
    BY <1>1 DEF h3Admin, h3Tables
  <2> QED BY <1>2, <1>4, <1>8, <2>1, <2>2, <2>3, MovedSockets
<1>12. \A r \in H3Requests : h3call[r].conn = c /\ h3call'[r].pc \in {"dial", "stream"} =>
          OnOwnConn(r)'
  <2>1. \A r \in H3Requests : OnOwnConn(r)
    BY DEF H3Inv
  <2>2. h3call' = h3call
    BY <1>1
  <2>3. \A r \in H3Requests : CallConn(r, c) => CallConn(r, c)'
    BY <1>8, <1>9, <2>2 DEF CallConn
  <2> QED BY <1>1, <1>4, <1>8, <1>9, <2>1, <2>2, <2>3 DEF OnOwnConn
<1>13. /\ UNCHANGED <<transport, dialled, ticket, serverKey, h3call, byOrigin>>
       /\ echConfig' \in [Origins -> {"none", "good", "stale"}]
       /\ h3call' \in [H3Requests -> CallRecords]
  BY <1>1, <1>s DEF h3Admin, h3Peer, h3Tables, H3States
<1> QED BY <1>1, <1>2, <1>4, <1>8, <1>10, <1>11, <1>12, <1>13, MovedConn

\* A connection and its place in the tables are given up, and the callers that wait
\* for it fail.
LEMMA ConnGone ==
  ASSUME H3Inv, NEW c \in H3Conns, h3conn[c].stage # "free",
         h3conn' = [h3conn EXCEPT ![c] = GoneConn],
         h3call' = Woken(c, "failed") \/ (h3call' = h3call /\ h3conn[c].stage = "ready"),
         sockets' \in {sockets, sockets \ {c}}, proxyConns' \in {proxyConns, proxyConns \ {c}},
         byOrigin' \in {byOrigin, byOrigin \ {c}},
         UNCHANGED <<route, h3Closed, transport, dialled, ticket, serverKey>>,
         echConfig' \in [Origins -> {"none", "good", "stale"}]
  PROVE  H3Inv'
<1>s. H3States /\ SocketTables
  BY DEF H3Inv
<1>1. GoneConn \in ConnRecords /\ GoneConn.stage = "gone" /\ ~GoneConn.alive /\ ~GoneConn.socket
  BY EmptyRecords
<1>2. h3conn'[c] = GoneConn
  BY <1>1, <1>s, ConnReplaced
<1>3. ~InPool(c)' /\ Calm(c)
  BY <1>1, <1>2 DEF InPool, Calm
<1>4. SocketTables'
  <2>1. h3Closed => sockets' = {}
    BY <1>s DEF SocketTables
  <2>2. \A e \in H3Conns : e # c =>
           (e \in sockets' <=> e \in sockets) /\ (e \in proxyConns' <=> e \in proxyConns)
    OBVIOUS
  <2> QED BY <1>1, <2>1, <2>2, MovedSockets
<1>5. /\ h3call' \in [H3Requests -> CallRecords]
      /\ \A r \in H3Requests :
            \/ h3call'[r] = h3call[r]
            \/ h3call'[r].rejections = 0 /\ h3call'[r].pc = "failed"
      /\ \A r \in H3Requests : h3call[r].conn = c /\ h3call'[r].pc \in {"dial", "stream"} =>
            h3call'[r] = h3call[r] /\ (h3call[r].pc = "stream" \/ h3conn[c].stage = "ready")
  <2>1. CASE h3call' = Woken(c, "failed")
    BY <1>s, <2>1, WokenCalls
  <2>2. CASE h3call' = h3call /\ h3conn[c].stage = "ready"
    BY <1>s, <2>2 DEF H3States
  <2> QED BY <2>1, <2>2
<1>6. \A r \in H3Requests : h3call[r].conn = c /\ h3call'[r].pc \in {"dial", "stream"} =>
         OnOwnConn(r)'
  <2>1. ASSUME NEW r \in H3Requests, h3call[r].conn = c, h3call'[r].pc \in {"dial", "stream"}
        PROVE  OnOwnConn(r)'
    <3>1. OnOwnConn(r) /\ h3call'[r] = h3call[r]
             /\ (h3call[r].pc = "stream" \/ h3conn[c].stage = "ready")
      BY <1>5, <2>1 DEF H3Inv
    <3>2. h3call[r].pc = "stream"
      BY <2>1, <3>1 DEF OnOwnConn
    <3> QED BY <1>1, <1>2, <2>1, <3>1, <3>2 DEF OnOwnConn
  <2> QED BY <2>1
<1>7. \A e \in byOrigin : e # c => e \in byOrigin'
  OBVIOUS
<1>8. \A r \in H3Requests : h3call[r].conn # c =>
         h3call'[r].pc # "stream" \/ h3call[r].pc = "stream"
  BY <1>5
<1> QED BY <1>1, <1>3, <1>4, <1>5, <1>6, <1>7, <1>8, MovedConn

\* The end of dialDirect: the socket enters the table, or the dial is refused.
LEMMA RegisterStep ==
  ASSUME H3Inv, NEW c \in H3Conns, Register(c) PROVE H3Inv'
<1>s. H3States /\ Lifecycle /\ SocketTables
  BY DEF H3Inv
<1>1. /\ h3conn[c].stage = "dialled"
      /\ UNCHANGED <<route, h3Closed, transport, dialled, ticket, serverKey, echConfig,
                     proxyConns, byOrigin>>
      /\ echConfig' \in [Origins -> {"none", "good", "stale"}]
  BY <1>s DEF Register, h3Admin, h3Peer, H3States
<1>2. CASE RefusedDial
  BY <1>1, <1>2, ConnGone DEF Register
<1>3. CASE ~RefusedDial
  <2> DEFINE n == [h3conn[c] EXCEPT !.stage = "registered"]
  <2>1. /\ h3conn' = [h3conn EXCEPT ![c] = n] /\ h3call' = h3call /\ sockets' = sockets \cup {c}
        /\ h3conn[c] \in ConnRecords /\ ~h3Closed
    BY <1>3, <1>s DEF Register, RefusedDial, H3States
  <2>2. /\ n \in ConnRecords /\ n.stage = "registered" /\ n.of = h3conn[c].of
        /\ n.origin = h3conn[c].origin /\ n.probe = h3conn[c].probe /\ n.early = h3conn[c].early
    BY <2>1 DEF ConnRecords, ConnStages
  <2> HIDE DEF n
  <2>3. h3conn'[c] = n
    BY <1>s, <2>1, <2>2, ConnReplaced
  <2>4. Calm(c)
    BY <1>1, <2>2, <2>3 DEF Calm, InPool, Stale
  <2>5. SocketTables'
    <3>1. \A e \in H3Conns : e # c =>
             (e \in sockets' <=> e \in sockets) /\ (e \in proxyConns' <=> e \in proxyConns)
      BY <1>1, <2>1
    <3> QED BY <1>1, <2>1, <2>2, <3>1, MovedSockets
  <2>6. \A r \in H3Requests : h3call[r].conn = c /\ h3call'[r].pc \in {"dial", "stream"} =>
           OnOwnConn(r)'
    <3>1. \A r \in H3Requests : OnOwnConn(r)
      BY DEF H3Inv
    <3>2. \A r \in H3Requests : CallConn(r, c) => CallConn(r, c)'
      BY <2>1, <2>2, <2>3 DEF CallConn
    <3> QED BY <1>1, <2>1, <2>2, <2>3, <3>1, <3>2 DEF OnOwnConn
  <2>7. h3call' \in [H3Requests -> CallRecords]
    BY <1>s, <2>1 DEF H3States
  <2> QED BY <1>1, <2>1, <2>2, <2>4, <2>5, <2>6, <2>7, MovedConn
<1> QED BY <1>2, <1>3

\* The connection enters byOrigin before any caller goes on with it.
LEMMA TrackStep ==
  ASSUME H3Inv, NEW c \in H3Conns, Track(c) PROVE H3Inv'
<1>s. H3States /\ Lifecycle /\ SocketTables
  BY DEF H3Inv
<1>1. /\ h3conn[c].stage \in {"dialled", "registered"} /\ h3conn[c] \in ConnRecords
      /\ h3conn[c].stage = "dialled" => h3conn[c].probe
      /\ UNCHANGED <<route, h3Closed, transport, dialled, ticket, serverKey, sockets, proxyConns>>
      /\ echConfig' \in [Origins -> {"none", "good", "stale"}]
      /\ byOrigin \subseteq byOrigin' /\ (~h3conn[c].probe => c \in byOrigin')
  BY <1>s DEF Track, h3Admin, h3Peer, H3States
<1>2. PICK a \in BOOLEAN, w \in {"stream", "failed"} :
         /\ h3conn' = [h3conn EXCEPT ![c] = [h3conn[c] EXCEPT !.stage = "ready", !.alive = a]]
         /\ a => h3conn[c].alive /\ ~h3conn[c].probe
         /\ h3call' = Woken(c, w)
  <2>1. PICK closed \in BOOLEAN :
           /\ h3conn' = [h3conn EXCEPT ![c].stage = "ready", ![c].alive = h3conn[c].alive /\ ~closed]
           /\ h3conn[c].probe => closed
    BY DEF Track
  <2>2. \E w \in {"stream", "failed"} : h3call' = Woken(c, w)
    BY DEF Track
  <2>3. (h3conn[c].alive /\ ~closed) \in BOOLEAN
    OBVIOUS
  <2>4. h3conn' = [h3conn EXCEPT ![c] = [h3conn[c] EXCEPT !.stage = "ready",
                                            !.alive = h3conn[c].alive /\ ~closed]]
    BY <1>s, <2>1 DEF H3States
  <2> QED BY <2>1, <2>2, <2>3, <2>4
<1> DEFINE m == [h3conn[c] EXCEPT !.alive = a]
           n == [m EXCEPT !.stage = "ready"]
<1>3. h3conn' = [h3conn EXCEPT ![c] = n]
  BY <1>2
<1>4. m \in ConnRecords
  BY <1>1, AliveField
<1>5. /\ m.of = h3conn[c].of /\ m.origin = h3conn[c].origin /\ m.probe = h3conn[c].probe
      /\ m.early = h3conn[c].early /\ m.alive = a /\ m.socket = h3conn[c].socket
  BY <1>1 DEF ConnRecords
<1> HIDE DEF m
<1>6. /\ n \in ConnRecords /\ n.of = h3conn[c].of /\ n.origin = h3conn[c].origin
      /\ n.probe = h3conn[c].probe /\ n.early = h3conn[c].early /\ n.alive = a
      /\ n.stage = "ready" /\ n.socket = h3conn[c].socket
  BY <1>4, <1>5 DEF ConnRecords, ConnStages
<1> HIDE DEF n
<1>7. h3conn'[c] = n
  BY <1>3, <1>6, <1>s, ConnReplaced
<1>8. Calm(c) /\ (InPool(c)' => c \in byOrigin')
  BY <1>1, <1>2, <1>6, <1>7 DEF Calm, InPool, Stale
<1>9. SocketTables'
  <2>1. /\ h3Closed => sockets = {}
        /\ h3conn[c].socket => c \in sockets \cup proxyConns \/ ~a
        /\ route = "direct" /\ a => c \in sockets
    BY <1>1, <1>2, <1>s DEF SocketTables
  <2> QED BY <1>1, <1>2, <1>3, <1>6, <2>1, MovedSockets
<1>10. /\ h3call' \in [H3Requests -> CallRecords]
       /\ \A r \in H3Requests :
             \/ h3call'[r] = h3call[r]
             \/ h3call'[r].rejections = 0 /\ h3call'[r].pc = "failed"
             \/ /\ h3call[r].pc = "dial" /\ h3call'[r].pc = "stream" /\ h3call[r].conn = c
                /\ h3call'[r].origin = h3call[r].origin /\ h3call'[r].of = h3call[r].of
                /\ h3call'[r].rejections = h3call[r].rejections
                /\ h3call'[r].late = h3call[r].late /\ h3call'[r].conn = h3call[r].conn
       /\ \A r \in H3Requests : h3call[r].pc = "dial" /\ h3call[r].conn = c =>
             h3call'[r].pc # "dial"
  BY <1>2, <1>s, WokenCalls
<1>11. ASSUME NEW r \in H3Requests, h3call[r].conn = c, h3call'[r].pc \in {"dial", "stream"}
       PROVE  OnOwnConn(r)'
  <2>1. OnOwnConn(r)
    BY DEF H3Inv
  <2>2. h3call[r].pc = "dial" /\ h3call'[r].pc = "stream"
    BY <1>1, <1>10, <1>11, <2>1 DEF OnOwnConn
  <2>3. CallConn(r, c) /\ h3call'[r].conn = c /\ h3call'[r].of = h3call[r].of
        /\ h3call'[r].origin = h3call[r].origin
    BY <1>10, <1>11, <2>1, <2>2 DEF OnOwnConn
  <2>4. CallConn(r, c)'
    BY <1>6, <1>7, <2>3 DEF CallConn
  <2> QED BY <1>6, <1>7, <2>2, <2>3, <2>4 DEF OnOwnConn
<1>12. \A r \in H3Requests : h3call[r].conn # c =>
          h3call'[r].pc # "stream" \/ h3call[r].pc = "stream"
  BY <1>10
<1>13. \A r \in H3Requests :
          \/ /\ h3call'[r].origin = h3call[r].origin /\ h3call'[r].of = h3call[r].of
             /\ h3call'[r].rejections = h3call[r].rejections
             /\ h3call'[r].late = h3call[r].late /\ h3call'[r].conn = h3call[r].conn
             /\ h3call'[r].pc = h3call[r].pc \/ (h3call[r].pc = "dial" /\ h3call'[r].pc = "stream")
          \/ h3call'[r].rejections = 0 /\ h3call'[r].pc = "failed"
  BY <1>10
<1>14. \A r \in H3Requests : h3call[r].conn = c /\ h3call'[r].pc \in {"dial", "stream"} =>
          OnOwnConn(r)'
  BY <1>11
<1>15. \A e \in byOrigin : e # c => e \in byOrigin'
  BY <1>1
<1> QED BY <1>1, <1>3, <1>6, <1>8, <1>9, <1>10, <1>12, <1>13, <1>14, <1>15, MovedConn

\* The other ends of a dial.
LEMMA GoneSteps ==
  ASSUME H3Inv, NEW c \in H3Conns, DialFails(c) \/ ReapConn(c) PROVE H3Inv'
<1>s. H3States
  BY DEF H3Inv
<1>1. CASE DialFails(c)
  <2>1. echConfig' \in [Origins -> {"none", "good", "stale"}]
    BY <1>1, <1>s DEF DialFails, H3States
  <2> QED BY <1>1, <2>1, ConnGone DEF DialFails, h3Admin
<1>2. CASE ReapConn(c)
  BY <1>2, <1>s, ConnGone DEF ReapConn, h3Admin, h3Peer, H3States
<1> QED BY <1>1, <1>2

\* What a lookup finds is the number of a ticket, or of none.
LEMMA LookupNat ==
  ASSUME H3States, NEW o \in Origins PROVE Lookups(o) \subseteq Nat
<1>1. ticket[o] \in Nat /\ serverKey[o] \in Nat
  BY DEF H3States
<1> QED BY <1>1, H3Numbers DEF Lookups

\* A step that brings the origin of a call no new ticket, and the call no stale
\* connection.
Untouched(r) ==
    /\ ticket'[h3call[r].origin] = ticket[h3call[r].origin]
    /\ \A c \in H3Conns : StaleFor(r, c)' =>
          StaleFor(r, c) /\ (h3conn[c].stage = "ready" => h3conn'[c].stage = "ready")

\* A new dial takes a number that no connection had.  A call that is clean gets no
\* stale connection from it: the ticket of its origin is gone.
LEMMA NewDial ==
  ASSUME H3Inv, NEW o \in Origins, NEW g \in Nat, NEW isProbe \in BOOLEAN, NEW got \in Nat,
         StartDial(o, g, isProbe, got),
         ~isProbe => PooledFor(g, o) = {},
         UNCHANGED <<route, transport, h3Closed, sockets, proxyConns, byOrigin>>
  PROVE  /\ dialled + 1 \in H3Conns /\ h3conn[dialled + 1].stage = "free"
         /\ h3conn'[dialled + 1].stage = "dialling" /\ h3conn'[dialled + 1].of = g
         /\ h3conn'[dialled + 1].origin = o /\ h3conn'[dialled + 1].probe = isProbe
         /\ \A e \in H3Conns : e # dialled + 1 => h3conn'[e] = h3conn[e]
         /\ h3conn' \in [H3Conns -> ConnRecords] /\ ticket' \in [Origins -> Nat]
         /\ serverKey' = serverKey /\ dialled' \in Nat /\ echConfig' \in [Origins -> {"none", "good", "stale"}]
         /\ Lifecycle' /\ SocketTables' /\ Pooled'
         /\ \A r \in H3Requests :
               /\ h3call'[r].origin = h3call[r].origin /\ h3call'[r].of = h3call[r].of /\ Clean(r)
               /\ h3call[r].origin # o \/ got = ticket[o]
               => Untouched(r)
<1>s. H3States /\ Lifecycle /\ SocketTables /\ Pooled
  BY DEF H3Inv
<1>c. PICK c : c = dialled + 1
  OBVIOUS
<1> DEFINE m == [FreeConn EXCEPT !.probe = isProbe]
           n == [m EXCEPT !.stage = "dialling", !.origin = o, !.of = g, !.ech = EchFor(o),
                          !.offered = Offers(isProbe, got)]
<1>1. /\ dialled \in Nat /\ c \in H3Conns /\ h3conn[c].stage = "free" /\ dialled' = c
  BY <1>c, <1>s, H3Constants DEF StartDial, H3States, H3Conns, Lifecycle
<1>2. /\ h3conn' = [h3conn EXCEPT ![c] = n] /\ ticket' = [ticket EXCEPT ![o] = got]
      /\ serverKey' = serverKey
  BY <1>c DEF StartDial
<1>g. Offers(isProbe, got) \in {NoTicket, got}
  BY DEF Offers
<1>t. /\ ticket' \in [Origins -> Nat]
      /\ \A x \in Origins : x # o \/ got = ticket[o] => ticket'[x] = ticket[x]
  BY <1>2, <1>g, <1>s DEF H3States
<1>3. EchFor(o) \in {"none", "good", "stale"} /\ Offers(isProbe, got) \in Nat
  <2>1. echConfig[o] \in {"none", "good", "stale"} /\ Offers(isProbe, got) \in Nat
    BY <1>g, <1>s, H3Numbers DEF H3States
  <2>2. CASE o \in incompatible
    BY <2>1, <2>2 DEF EchFor
  <2>3. CASE o \notin incompatible /\ echConfig[o] # "none"
    BY <2>1, <2>3 DEF EchFor
  <2>4. CASE o \notin incompatible /\ echConfig[o] = "none"
    BY <2>1, <2>4 DEF EchFor
  <2> QED BY <2>1, <2>2, <2>3, <2>4
<1>4. m \in ConnRecords
  BY EmptyRecords, ProbeField
<1>5. m.probe = isProbe /\ ~m.alive /\ ~m.socket /\ m.early = "none"
  BY EmptyRecords DEF ConnRecords
<1> HIDE DEF m
<1>6. /\ n \in ConnRecords /\ n.stage = "dialling" /\ n.origin = o /\ n.of = g /\ n.probe = isProbe
      /\ ~n.alive /\ ~n.socket /\ n.early = "none" /\ n.offered = Offers(isProbe, got)
  BY <1>3, <1>4, <1>5 DEF ConnRecords, ConnStages
<1> HIDE DEF n
<1>7. /\ h3conn' \in [H3Conns -> ConnRecords] /\ h3conn'[c] = n
      /\ \A e \in H3Conns : e # c => h3conn'[e] = h3conn[e]
  BY <1>1, <1>2, <1>6, <1>s, ConnReplaced
<1>8. echConfig' \in [Origins -> {"none", "good", "stale"}]
  <2>1. echConfig' = [echConfig EXCEPT ![o] = IF o \in incompatible THEN @ ELSE EchFor(o)]
    BY DEF StartDial
  <2> QED BY <1>3, <1>s, <2>1 DEF H3States
<1>9. Lifecycle'
  <2>1. ASSUME NEW e \in H3Conns
        PROVE  /\ e > dialled' => h3conn'[e].stage = "free"
               /\ h3conn'[e].stage = "dialling" => h3conn'[e].early = "none"
               /\ h3conn'[e].alive => h3conn'[e].stage \in {"dialled", "registered", "ready"}
    <3>1. CASE e = c
      BY <1>1, <1>6, <1>7, <3>1, H3Numbers
    <3>2. CASE e # c
      BY <1>1, <1>7, <1>c, <1>s, <3>2, H3Numbers DEF Lifecycle
    <3> QED BY <3>1, <3>2
  <2> QED BY <2>1 DEF Lifecycle
<1>10. SocketTables'
  <2>1. ASSUME NEW e \in H3Conns
        PROVE  /\ h3conn'[e].socket =>
                    \/ h3conn'[e].stage \in {"dialling", "dialled"}
                    \/ e \in sockets' \cup proxyConns'
                    \/ h3conn'[e].stage \in {"registered", "ready"} /\ ~h3conn'[e].alive
               /\ route' = "socks" /\ h3conn'[e].stage = "dialling" /\ h3conn'[e].socket =>
                    e \in proxyConns'
               /\ route' = "direct" /\ h3conn'[e].alive =>
                    h3conn'[e].stage = "dialled" \/ e \in sockets'
    <3>1. CASE e = c
      BY <1>6, <1>7, <3>1
    <3>2. CASE e # c
      BY <1>7, <1>s, <3>2 DEF SocketTables
    <3> QED BY <3>1, <3>2
  <2>2. h3Closed' => sockets' = {}
    BY <1>s DEF SocketTables
  <2> QED BY <2>1, <2>2 DEF SocketTables
<1>11. /\ \A e \in H3Conns : e # c => (InPool(e)' <=> InPool(e)) /\ (Stale(e)' <=> Stale(e))
       /\ InPool(c)' => ~isProbe
  <2>1. \A e \in H3Conns : e # c => (InPool(e)' <=> InPool(e)) /\ (Stale(e)' <=> Stale(e))
    BY <1>7 DEF InPool, Stale
  <2>2. h3conn'[c].probe = isProbe
    BY <1>6, <1>7
  <2>3. InPool(c)' => ~isProbe
    BY <2>2, Zenon DEF InPool
  <2> QED BY <2>1, <2>3
<1>12. Pooled'
  <2>1. ASSUME NEW e \in H3Conns, e # c, InPool(e)', InPool(c)', h3conn'[e].of = h3conn'[c].of,
               h3conn'[e].origin = h3conn'[c].origin
        PROVE  FALSE
    <3>1. InPool(e) /\ h3conn[e].of = g /\ h3conn[e].origin = o /\ PooledFor(g, o) = {}
      BY <1>6, <1>7, <1>11, <2>1
    <3>2. e \in PooledFor(g, o)
      BY <3>1 DEF PooledFor, InPool
    <3> QED BY <3>1, <3>2
  <2>2. ASSUME NEW d \in H3Conns, NEW e \in H3Conns, InPool(d)', InPool(e)',
               h3conn'[d].of = h3conn'[e].of, h3conn'[d].origin = h3conn'[e].origin
        PROVE  d = e
    <3>1. CASE d # c /\ e # c
      BY <1>7, <1>11, <1>s, <2>2, <3>1 DEF Pooled
    <3>2. CASE d = c /\ e # c
      BY <2>1, <2>2, <3>2
    <3>3. CASE d # c /\ e = c
      BY <2>1, <2>2, <3>3
    <3> QED BY <3>1, <3>2, <3>3
  <2>3. \A e \in H3Conns : h3conn'[e].stage = "ready" /\ InPool(e)' => e \in byOrigin'
    BY <1>6, <1>7, <1>11, <1>s DEF Pooled
  <2> QED BY <2>2, <2>3 DEF Pooled
<1>13. ASSUME NEW r \in H3Requests, h3call'[r].origin = h3call[r].origin,
              h3call'[r].of = h3call[r].of, h3call[r].origin # o \/ got = ticket[o],
              Clean(r), NEW e \in H3Conns, StaleFor(r, e)'
       PROVE  StaleFor(r, e) /\ (h3conn[e].stage = "ready" => h3conn'[e].stage = "ready")
  <2>1. e # c
    <3>1. SUFFICES ASSUME e = c PROVE FALSE
      OBVIOUS
    <3>2. h3call[r].origin = o /\ n.offered # NoTicket
      BY <1>6, <1>7, <1>13, <3>1 DEF StaleFor, CallConn, Stale
    <3>3. ticket[h3call[r].origin] = NoTicket
      BY <1>13 DEF H3Inv, Recovers
    <3> QED BY <1>6, <1>13, <1>g, <3>2, <3>3
  <2>2. InPool(e) /\ Stale(e) /\ CallConn(r, e)' /\ h3conn'[e] = h3conn[e]
    BY <1>7, <1>11, <1>13, <2>1 DEF StaleFor
  <2> QED BY <1>13, <2>2 DEF StaleFor, CallConn
<1>14. \A r \in H3Requests : h3call[r].origin \in Origins
  BY <1>s DEF H3States, CallRecords
<1>15. ASSUME NEW r \in H3Requests, h3call'[r].origin = h3call[r].origin,
              h3call'[r].of = h3call[r].of, h3call[r].origin # o \/ got = ticket[o], Clean(r)
       PROVE  Untouched(r)
  BY <1>13, <1>14, <1>15, <1>t DEF Untouched
<1> QED BY <1>1, <1>2, <1>6, <1>7, <1>8, <1>9, <1>10, <1>12, <1>15, <1>c, <1>t

\* A call that a new dial does not concern, except that it may see a ticket come back.
LEMMA NewDialCalls ==
  ASSUME H3Inv, NEW c \in H3Conns, h3conn[c].stage = "free",
         \A e \in H3Conns : e # c => h3conn'[e] = h3conn[e],
         NEW r \in H3Requests,
         h3call'[r].pc = h3call[r].pc, h3call'[r].conn = h3call[r].conn,
         h3call'[r].origin = h3call[r].origin, h3call'[r].of = h3call[r].of,
         h3call'[r].rejections = h3call[r].rejections,
         \/ h3call'[r].late = TRUE
         \/ /\ h3call'[r].late = h3call[r].late
            /\ Clean(r) => Untouched(r)
  PROVE  OnOwnConn(r)' /\ Recovers(r)'
<1>1. OnOwnConn(r)
  BY DEF H3Inv
<1>2. OnOwnConn(r)'
  <2>1. \A e \in H3Conns : e # c => (CallConn(r, e) <=> CallConn(r, e)')
    BY DEF CallConn
  <2> QED BY <1>1, <2>1 DEF OnOwnConn
<1>3. CASE h3call'[r].late = TRUE
  BY <1>2, <1>3, RecoversLate
<1>4. CASE h3call'[r].late # TRUE
  BY <1>2, <1>4, RecoversKept DEF Untouched
<1> QED BY <1>3, <1>4

\* A probe dials beside the pool and enters none.
LEMMA ConnectStep ==
  ASSUME H3Inv, NEW o \in Origins, Connect(o) PROVE H3Inv'
<1>s. H3States
  BY DEF H3Inv
<1>1. PICK got \in Nat :
                 /\ StartDial(o, transport, TRUE, got) /\ h3call' = CallsAfterLookup(o, got)
                 /\ transport \in Nat
                 /\ UNCHANGED <<route, transport, h3Closed, sockets, proxyConns, byOrigin>>
  BY <1>s, LookupNat DEF Connect, h3Admin, h3Tables, H3States
<1>2. /\ dialled + 1 \in H3Conns /\ h3conn[dialled + 1].stage = "free"
      /\ \A e \in H3Conns : e # dialled + 1 => h3conn'[e] = h3conn[e]
      /\ h3conn' \in [H3Conns -> ConnRecords] /\ ticket' \in [Origins -> Nat]
      /\ serverKey' = serverKey
      /\ dialled' \in Nat /\ echConfig' \in [Origins -> {"none", "good", "stale"}]
      /\ Lifecycle' /\ SocketTables' /\ Pooled'
      /\ \A r \in H3Requests :
            /\ h3call'[r].origin = h3call[r].origin /\ h3call'[r].of = h3call[r].of /\ Clean(r)
            /\ h3call[r].origin # o \/ got = ticket[o]
            => Untouched(r)
  BY <1>1, NewDial
<1>3. /\ h3call' \in [H3Requests -> CallRecords]
      /\ \A r \in H3Requests :
            /\ h3call'[r].pc = h3call[r].pc /\ h3call'[r].conn = h3call[r].conn
            /\ h3call'[r].origin = h3call[r].origin /\ h3call'[r].of = h3call[r].of
            /\ h3call'[r].rejections = h3call[r].rejections
            /\ \/ h3call'[r].late = TRUE
               \/ h3call'[r].late = h3call[r].late
                  /\ (RemovedTicket(r) => h3call[r].origin # o \/ got = ticket[o])
  <2>1. /\ CallsAfterLookup(o, got) \in [H3Requests -> CallRecords]
        /\ \A r \in H3Requests :
              /\ CallsAfterLookup(o, got)[r].pc = h3call[r].pc
              /\ CallsAfterLookup(o, got)[r].conn = h3call[r].conn
              /\ CallsAfterLookup(o, got)[r].origin = h3call[r].origin
              /\ CallsAfterLookup(o, got)[r].of = h3call[r].of
              /\ CallsAfterLookup(o, got)[r].rejections = h3call[r].rejections
              /\ \/ CallsAfterLookup(o, got)[r].late = TRUE
                 \/ CallsAfterLookup(o, got)[r].late = h3call[r].late
                    /\ (RemovedTicket(r) => h3call[r].origin # o \/ got = ticket[o])
    BY <1>s, LookedUpCalls
  <2> QED BY <1>1, <2>1
<1>4. ASSUME NEW r \in H3Requests PROVE OnOwnConn(r)' /\ Recovers(r)'
  <2>1. \/ h3call'[r].late = TRUE
        \/ /\ h3call'[r].late = h3call[r].late
           /\ Clean(r) => h3call[r].origin # o \/ got = ticket[o]
    BY <1>3 DEF Clean
  <2> QED BY <1>2, <1>3, <2>1, NewDialCalls
<1>5. H3States'
  BY <1>1, <1>2, <1>3, <1>s DEF H3States
<1> QED BY <1>2, <1>4, <1>5 DEF H3Inv

\* A request takes the pooled connection, waits for its dial or begins one.
LEMMA SendStep ==
  ASSUME H3Inv, NEW r \in H3Requests, Send(r) PROVE H3Inv'
<1>s. H3States /\ h3call[r] \in CallRecords
  BY DEF H3Inv, H3States
<1> DEFINE call == h3call[r]
           have == PooledFor(call.of, call.origin)
<1>1. /\ call.pc = "send" /\ UNCHANGED <<route, transport, h3Closed, sockets, proxyConns, byOrigin>>
      /\ call.origin \in Origins /\ call.of \in Nat
  BY <1>s DEF Send, h3Admin, h3Tables, CallRecords
\* No connection changes: the call fails, or takes the pooled one.
<1>2. ASSUME NEW p \in {"failed", "dial", "stream"}, NEW c \in Nat,
             h3call' = [h3call EXCEPT ![r] = [call EXCEPT !.pc = p, !.conn = c]],
             UNCHANGED <<dialled, h3conn, h3Peer>>, OnOwnConn(r)'
      PROVE  H3Inv'
  <2> DEFINE n == [call EXCEPT !.pc = p, !.conn = c]
  <2>1. /\ n \in CallRecords /\ n.pc = p /\ n.origin = call.origin /\ n.of = call.of
        /\ n.rejections = call.rejections /\ n.late = call.late
    BY <1>s DEF CallRecords, CallStages
  <2> HIDE DEF n
  <2>2. /\ h3call' \in [H3Requests -> CallRecords] /\ h3call'[r] = n
        /\ \A e \in H3Requests : e # r => h3call'[e] = h3call[e]
    BY <1>2, <1>s, <2>1, CallReplaced DEF n
  <2>3. \A e \in H3Conns : Quiet(e) /\ (h3conn'[e].socket => h3conn[e].socket)
    BY <1>2 DEF Quiet
  <2>4. Lifecycle' /\ \A e \in H3Conns : Calm(e) /\ (InPool(e)' => ~h3conn[e].probe)
    BY <1>2, <2>3, QuietConns DEF InPool
  <2>5. Pooled'
    <3>1. \A e \in H3Conns : h3conn'[e].stage = "ready" /\ InPool(e)' => e \in byOrigin'
      BY <1>1, <1>2 DEF H3Inv, Pooled, InPool
    <3> QED BY <2>4, <3>1, CalmPool
  <2>6. H3States'
    BY <1>1, <1>2, <1>s, <2>2 DEF H3States, h3Peer
  <2>7. SocketTables'
    BY <1>1, <2>3, SocketsQuiet
  <2>8. ASSUME NEW e \in H3Requests PROVE OnOwnConn(e)' /\ Recovers(e)'
    <3>1. h3call'[e].origin = h3call[e].origin /\ h3call'[e].of = h3call[e].of
      BY <2>1, <2>2
    <3>2. \A x \in H3Conns : StaleFor(e, x)' =>
             StaleFor(e, x) /\ (h3conn[x].stage = "ready" => h3conn'[x].stage = "ready")
      BY <2>4, <3>1, CalmStale
    <3>3. ticket' = ticket
      BY <1>2 DEF h3Peer
    <3>4. CASE e = r
      <4>1. Recovers(r)'
        BY <1>1, <2>1, <2>2, <3>2, <3>3, <3>4, RecoversKept
      <4> QED BY <1>2, <3>4, <4>1
    <3>5. CASE e # r
      <4>1. h3call'[e] = h3call[e]
        BY <2>2, <3>5
      <4>2. Recovers(e)'
        BY <3>2, <3>3, <4>1, RecoversKept
      <4> QED BY <2>3, <4>1, <4>2, QuietOnOwnConn
    <3> QED BY <3>4, <3>5
  <2> QED BY <2>4, <2>5, <2>6, <2>7, <2>8 DEF H3Inv
<1>3. CASE /\ ~transportOpen[call.of] /\ h3call' = [h3call EXCEPT ![r].pc = "failed"]
           /\ UNCHANGED <<dialled, h3conn, h3Peer>>
  <2>1. h3call' = [h3call EXCEPT ![r] = [call EXCEPT !.pc = "failed", !.conn = call.conn]]
           /\ call.conn \in Nat
    BY <1>3, <1>s DEF CallRecords
  <2>2. OnOwnConn(r)'
    <3>1. h3call'[r].pc = "failed"
      BY <1>3, <1>s DEF H3States, CallRecords
    <3> QED BY <3>1 DEF OnOwnConn
  <2> QED BY <1>2, <1>3, <2>1, <2>2
<1>4. ASSUME NEW c \in have,
             h3call' = [h3call EXCEPT ![r].conn = c,
                          ![r].pc = IF h3conn[c].stage = "ready" THEN "stream" ELSE "dial"],
             UNCHANGED <<dialled, h3conn, h3Peer>>
      PROVE  H3Inv'
  <2> DEFINE p == IF h3conn[c].stage = "ready" THEN "stream" ELSE "dial"
  <2>1. h3call' = [h3call EXCEPT ![r] = [call EXCEPT !.pc = p, !.conn = c]]
    BY <1>4, <1>s DEF H3States
  <2>2. c \in H3Conns /\ c \in Nat /\ p \in {"dial", "stream"}
    BY H3Numbers DEF PooledFor
  <2>3. OnOwnConn(r)'
    <3>1. h3call'[r].pc = p /\ h3call'[r].conn = c /\ h3call'[r].of = call.of
             /\ h3call'[r].origin = call.origin
      BY <1>s, <2>1 DEF H3States, CallRecords
    <3>2. /\ h3conn[c].of = call.of /\ h3conn[c].origin = call.origin /\ ~h3conn[c].probe
          /\ h3conn[c].stage \in {"dialling", "dialled", "registered", "ready"}
      BY DEF PooledFor
    <3>3. CallConn(r, c)'
      BY <1>4, <3>1, <3>2 DEF CallConn
    <3> QED BY <1>4, <2>2, <3>1, <3>2, <3>3 DEF OnOwnConn
  <2> HIDE DEF p
  <2> QED BY <1>2, <1>4, <2>1, <2>2, <2>3
<1>5. ASSUME have = {}, NEW got \in Nat, StartDial(call.origin, call.of, FALSE, got),
             h3call' = [CallsAfterLookup(call.origin, got) EXCEPT
                          ![r].conn = dialled + 1, ![r].pc = "dial"]
      PROVE  H3Inv'
  <2>c. PICK c : c = dialled + 1
    OBVIOUS
  <2>f. PICK f : f = CallsAfterLookup(call.origin, got)
    OBVIOUS
  <2> DEFINE n == [f[r] EXCEPT !.conn = c, !.pc = "dial"]
  <2>1. /\ c \in H3Conns /\ h3conn[c].stage = "free"
        /\ h3conn'[c].stage = "dialling" /\ h3conn'[c].of = call.of
        /\ h3conn'[c].origin = call.origin /\ h3conn'[c].probe = FALSE
        /\ \A e \in H3Conns : e # c => h3conn'[e] = h3conn[e]
        /\ h3conn' \in [H3Conns -> ConnRecords] /\ ticket' \in [Origins -> Nat]
        /\ serverKey' = serverKey
        /\ dialled' \in Nat /\ echConfig' \in [Origins -> {"none", "good", "stale"}]
        /\ Lifecycle' /\ SocketTables' /\ Pooled'
        /\ \A e \in H3Requests :
              /\ h3call'[e].origin = h3call[e].origin /\ h3call'[e].of = h3call[e].of /\ Clean(e)
              /\ h3call[e].origin # call.origin \/ got = ticket[call.origin]
              => Untouched(e)
    <3>1. /\ call.origin \in Origins /\ call.of \in Nat /\ PooledFor(call.of, call.origin) = {}
          /\ StartDial(call.origin, call.of, FALSE, got)
          /\ UNCHANGED <<route, transport, h3Closed, sockets, proxyConns, byOrigin>>
      BY <1>1, <1>5
    <3> HIDE DEF call, have
    <3>2. /\ dialled + 1 \in H3Conns /\ h3conn[dialled + 1].stage = "free"
          /\ h3conn'[dialled + 1].stage = "dialling" /\ h3conn'[dialled + 1].of = call.of
          /\ h3conn'[dialled + 1].origin = call.origin /\ h3conn'[dialled + 1].probe = FALSE
          /\ \A e \in H3Conns : e # dialled + 1 => h3conn'[e] = h3conn[e]
          /\ h3conn' \in [H3Conns -> ConnRecords] /\ ticket' \in [Origins -> Nat]
          /\ serverKey' = serverKey
          /\ dialled' \in Nat /\ echConfig' \in [Origins -> {"none", "good", "stale"}]
          /\ Lifecycle' /\ SocketTables' /\ Pooled'
      BY <3>1, NewDial
    <3>3. \A e \in H3Requests :
              /\ h3call'[e].origin = h3call[e].origin /\ h3call'[e].of = h3call[e].of /\ Clean(e)
              /\ h3call[e].origin # call.origin \/ got = ticket[call.origin]
              => Untouched(e)
      BY <3>1, NewDial
    <3> QED BY <2>c, <3>2, <3>3
  <2>2. /\ f \in [H3Requests -> CallRecords]
        /\ \A e \in H3Requests :
              /\ f[e].pc = h3call[e].pc /\ f[e].conn = h3call[e].conn
              /\ f[e].origin = h3call[e].origin /\ f[e].of = h3call[e].of
              /\ f[e].rejections = h3call[e].rejections
              /\ \/ f[e].late = TRUE
                 \/ f[e].late = h3call[e].late
                    /\ (RemovedTicket(e) => h3call[e].origin # call.origin \/ got = ticket[call.origin])
    <3>1. /\ CallsAfterLookup(call.origin, got) \in [H3Requests -> CallRecords]
          /\ \A e \in H3Requests :
                /\ CallsAfterLookup(call.origin, got)[e].pc = h3call[e].pc
                /\ CallsAfterLookup(call.origin, got)[e].conn = h3call[e].conn
                /\ CallsAfterLookup(call.origin, got)[e].origin = h3call[e].origin
                /\ CallsAfterLookup(call.origin, got)[e].of = h3call[e].of
                /\ CallsAfterLookup(call.origin, got)[e].rejections = h3call[e].rejections
                /\ \/ CallsAfterLookup(call.origin, got)[e].late = TRUE
                   \/ CallsAfterLookup(call.origin, got)[e].late = h3call[e].late
                      /\ (RemovedTicket(e) =>
                            h3call[e].origin # call.origin \/ got = ticket[call.origin])
      BY <1>1, <1>s, LookedUpCalls
    <3> QED BY <2>f, <3>1
  <2>3. /\ n \in CallRecords /\ n.pc = "dial" /\ n.origin = call.origin /\ n.of = call.of
        /\ n.rejections = call.rejections /\ n.late = f[r].late /\ n.conn = c
    <3>1. c \in Nat /\ f[r] \in CallRecords
      BY <2>1, <2>2, H3Numbers
    <3>2. /\ n \in CallRecords /\ n.pc = "dial" /\ n.origin = f[r].origin /\ n.of = f[r].of
          /\ n.rejections = f[r].rejections /\ n.late = f[r].late /\ n.conn = c
      BY <3>1 DEF CallRecords, CallStages
    <3> QED BY <2>2, <3>2
  <2>4. h3call' = [f EXCEPT ![r] = n]
    BY <1>5, <2>2, <2>c, <2>f
  <2> HIDE DEF n
  <2>5. /\ h3call' \in [H3Requests -> CallRecords] /\ h3call'[r] = n
        /\ \A e \in H3Requests : e # r => h3call'[e] = f[e]
    BY <2>2, <2>3, <2>4
  <2>6. ASSUME NEW e \in H3Requests
        PROVE  /\ h3call'[e].origin = h3call[e].origin /\ h3call'[e].of = h3call[e].of
               /\ h3call'[e].rejections = h3call[e].rejections
               /\ \/ h3call'[e].late = TRUE
                  \/ /\ h3call'[e].late = h3call[e].late
                     /\ Clean(e) => Untouched(e)
    <3>1. /\ h3call'[e].origin = h3call[e].origin /\ h3call'[e].of = h3call[e].of
          /\ h3call'[e].rejections = h3call[e].rejections /\ h3call'[e].late = f[e].late
      BY <2>2, <2>3, <2>5
    <3>2. Clean(e) => RemovedTicket(e)
      BY DEF Clean
    <3> QED BY <2>1, <2>2, <3>1, <3>2
  <2>7. ASSUME NEW e \in H3Requests PROVE OnOwnConn(e)' /\ Recovers(e)'
    <3>1. CASE e # r
      <4>1. h3call'[e].pc = h3call[e].pc /\ h3call'[e].conn = h3call[e].conn
        BY <2>2, <2>5, <3>1
      <4> QED BY <2>1, <2>6, <4>1, NewDialCalls
    <3>2. CASE e = r
      <4>1. CallConn(r, c)'
        BY <2>1, <2>3, <2>5 DEF CallConn
      <4>2. OnOwnConn(r)'
        BY <2>1, <2>3, <2>5, <4>1 DEF OnOwnConn
      <4>3. CASE h3call'[r].late = TRUE
        BY <3>2, <4>2, <4>3, RecoversLate
      <4>4. CASE h3call'[r].late # TRUE
        <5>1. Recovers(r)'
          BY <1>1, <2>3, <2>5, <2>6, <4>4, RecoversKept DEF Untouched
        <5> QED BY <3>2, <4>2, <5>1
      <4> QED BY <4>3, <4>4
    <3> QED BY <3>1, <3>2
  <2>8. H3States'
    BY <1>1, <1>s, <2>1, <2>5 DEF H3States
  <2> QED BY <2>1, <2>7, <2>8 DEF H3Inv
<1> QED
  <2>1. \/ /\ ~transportOpen[call.of] /\ h3call' = [h3call EXCEPT ![r].pc = "failed"]
           /\ UNCHANGED <<dialled, h3conn, h3Peer>>
        \/ \E c \in have : /\ h3call' = [h3call EXCEPT ![r].conn = c,
                                 ![r].pc = IF h3conn[c].stage = "ready" THEN "stream" ELSE "dial"]
                           /\ UNCHANGED <<dialled, h3conn, h3Peer>>
        \/ /\ have = {}
           /\ \E got \in Nat :
                       /\ StartDial(call.origin, call.of, FALSE, got)
                       /\ h3call' = [CallsAfterLookup(call.origin, got) EXCEPT
                                        ![r].conn = dialled + 1, ![r].pc = "dial"]
    BY <1>1, <1>s, LookupNat DEF Send
  <2> QED BY <1>3, <1>4, <1>5, <2>1

\* The steps of one call that change no connection.
LEMMA CallSteps ==
  ASSUME H3Inv, NEW r \in H3Requests,
         (\E o \in Origins : RoundTrip(r, o)) \/ Answer(r) \/ DropTicket(r)
  PROVE  H3Inv'
<1>s. H3States /\ Pooled /\ h3call[r] \in CallRecords
  BY DEF H3Inv, H3States
<1>1. ASSUME NEW n \in CallRecords, h3call' = [h3call EXCEPT ![r] = n], OnOwnConn(r)', Recovers(r)',
             UNCHANGED <<route, transport, h3Closed, dialled, h3conn, h3Tables, serverKey,
                         echConfig>>,
             ticket' \in [Origins -> Nat],
             \A o \in Origins : ticket'[o] \in {ticket[o], NoTicket}
      PROVE  H3Inv'
  <2>1. /\ h3call' \in [H3Requests -> CallRecords] /\ h3call'[r] = n
        /\ \A e \in H3Requests : e # r => h3call'[e] = h3call[e]
    BY <1>1, <1>s, CallReplaced
  <2>2. \A e \in H3Conns : Quiet(e) /\ (h3conn'[e].socket => h3conn[e].socket)
    BY <1>1 DEF Quiet
  <2>3. Lifecycle' /\ \A e \in H3Conns : Calm(e) /\ (InPool(e)' => ~h3conn[e].probe)
    BY <1>1, <2>2, QuietConns DEF InPool
  <2>4. Pooled'
    <3>1. \A e \in H3Conns : h3conn'[e].stage = "ready" /\ InPool(e)' => e \in byOrigin'
      BY <1>1, <1>s DEF Pooled, InPool, h3Tables
    <3> QED BY <2>3, <3>1, CalmPool
  <2>5. H3States'
    BY <1>1, <1>s, <2>1 DEF H3States
  <2>6. SocketTables'
    BY <1>1, <2>2, SocketsQuiet DEF h3Tables
  <2>7. ASSUME NEW e \in H3Requests, e # r PROVE OnOwnConn(e)' /\ Recovers(e)'
    <3>1. h3call'[e] = h3call[e] /\ h3call[e].origin \in Origins
      BY <1>s, <2>1, <2>7 DEF H3States, CallRecords
    <3>2. \A x \in H3Conns : StaleFor(e, x)' =>
             StaleFor(e, x) /\ (h3conn[x].stage = "ready" => h3conn'[x].stage = "ready")
      BY <2>3, <3>1, CalmStale
    <3>3. Recovers(e)'
      BY <1>1, <3>1, <3>2, RecoversKept
    <3> QED BY <2>2, <3>1, <3>3, QuietOnOwnConn
  <2> QED BY <1>1, <2>3, <2>4, <2>5, <2>6, <2>7 DEF H3Inv
<1>2. ASSUME NEW n \in CallRecords, h3call' = [h3call EXCEPT ![r] = n], n.rejections = 0,
             n.pc \in {"send", "done", "failed"},
             UNCHANGED <<h3Admin, dialled, h3conn, h3Tables, h3Peer>>
      PROVE  H3Inv'
  <2>1. h3call'[r] = n
    BY <1>2, <1>s, CallReplaced
  <2>2. Recovers(r)'
    BY <1>2, <2>1, RecoversFresh
  <2>3. OnOwnConn(r)'
    BY <1>2, <2>1 DEF OnOwnConn
  <2> QED BY <1>1, <1>2, <1>s, <2>2, <2>3 DEF h3Admin, h3Peer, H3States
<1>3. ASSUME NEW o \in Origins, RoundTrip(r, o) PROVE H3Inv'
  <2> DEFINE n == [NoCall EXCEPT !.pc = "send", !.origin = o, !.of = transport]
  <2>1. n \in CallRecords /\ n.rejections = 0 /\ n.pc = "send"
    BY <1>s, EmptyRecords DEF CallRecords, CallStages, H3States
  <2>2. h3call' = [h3call EXCEPT ![r] = n]
    BY <1>3 DEF RoundTrip
  <2> HIDE DEF n
  <2> QED BY <1>2, <1>3, <2>1, <2>2 DEF RoundTrip
<1>4. CASE DropTicket(r)
  <2> DEFINE n == [h3call[r] EXCEPT !.pc = "drop"]
  <2>1. /\ n \in CallRecords /\ n.pc = "drop" /\ n.origin = h3call[r].origin /\ n.of = h3call[r].of
        /\ n.rejections = h3call[r].rejections /\ n.late = h3call[r].late
        /\ n.conn = h3call[r].conn
    BY <1>s DEF CallRecords, CallStages
  <2>2. /\ h3call[r].pc = "rejected" /\ h3call[r].origin \in Origins
        /\ h3call' = [h3call EXCEPT ![r] = n]
        /\ ticket' = [ticket EXCEPT ![h3call[r].origin] = NoTicket]
        /\ h3conn' = h3conn
    BY <1>4, <1>s DEF DropTicket, TicketAfterRejection, CallRecords
  <2> HIDE DEF n
  <2>3. h3call'[r] = n
    BY <1>s, <2>1, <2>2, CallReplaced
  <2>4. /\ ticket' \in [Origins -> Nat] /\ ticket'[h3call[r].origin] = NoTicket
        /\ \A o \in Origins : ticket'[o] \in {ticket[o], NoTicket}
    BY <1>s, <2>2, H3Numbers DEF H3States
  <2>5. OnOwnConn(r)'
    BY <2>1, <2>3 DEF OnOwnConn
  <2>6. Recovers(r)'
    <3>1. Recovers(r)
      BY DEF H3Inv
    <3>2. \A c \in H3Conns : StaleFor(r, c)' <=> StaleFor(r, c)
      BY <2>1, <2>2, <2>3 DEF StaleFor, InPool, CallConn, Stale
    <3>3. h3call[r].rejections = 1 /\ Clean(r)' => Clean(r)
      BY <2>1, <2>3 DEF Clean, RemovedTicket
    <3> QED BY <2>1, <2>2, <2>3, <2>4, <3>1, <3>2, <3>3 DEF Recovers
  <2> QED BY <1>1, <1>4, <2>1, <2>2, <2>4, <2>5, <2>6 DEF DropTicket, h3Admin
<1>5. CASE Answer(r)
  <2> DEFINE c == h3call[r].conn
             n == [h3call[r] EXCEPT !.pc = "rejected"]
             f == [NoCall EXCEPT !.pc = "failed"]
             d == [NoCall EXCEPT !.pc = "done"]
  <2>1. /\ h3call[r].pc = "stream" /\ UNCHANGED <<h3Admin, dialled, h3conn, h3Tables, h3Peer>>
        /\ \/ h3call' = [h3call EXCEPT ![r] = f]
           \/ h3call' = [h3call EXCEPT ![r] = d]
           \/ /\ h3call' = [h3call EXCEPT ![r] = n]
              /\ h3conn[c].alive /\ h3conn[c].early = "rejected"
    <3>1. CASE ~h3conn[c].alive
      BY <1>5, <3>1 DEF Answer
    <3>2. CASE h3conn[c].alive /\ h3conn[c].early = "rejected"
      BY <1>5, <3>2 DEF Answer
    <3>3. CASE h3conn[c].alive /\ h3conn[c].early # "rejected"
      BY <1>5, <3>3 DEF Answer
    <3> QED BY <3>1, <3>2, <3>3
  <2>2. /\ f \in CallRecords /\ f.pc = "failed" /\ f.rejections = 0
        /\ d \in CallRecords /\ d.pc = "done" /\ d.rejections = 0
    BY EmptyRecords DEF CallRecords, CallStages
  <2>3. /\ n \in CallRecords /\ n.pc = "rejected" /\ n.origin = h3call[r].origin
        /\ n.of = h3call[r].of
        /\ n.rejections = h3call[r].rejections /\ n.late = h3call[r].late
        /\ n.conn = h3call[r].conn
    BY <1>s DEF CallRecords, CallStages
  <2> HIDE DEF n, f, d
  <2>4. CASE h3call' = [h3call EXCEPT ![r] = f] \/ h3call' = [h3call EXCEPT ![r] = d]
    BY <1>2, <2>1, <2>2, <2>4
  <2>5. CASE /\ h3call' = [h3call EXCEPT ![r] = n]
             /\ h3conn[c].alive /\ h3conn[c].early = "rejected"
    <3>1. h3call'[r] = n /\ h3conn' = h3conn /\ ticket' = ticket
      BY <1>s, <2>1, <2>3, <2>5, CallReplaced DEF h3Peer
    <3>2. c \in H3Conns /\ h3conn[c].stage = "ready" /\ CallConn(r, c)
      BY <2>1, <2>5 DEF H3Inv, Lifecycle, OnOwnConn
    <3>3. StaleFor(r, c)
      BY <2>5, <3>2 DEF StaleFor, InPool, Stale, CallConn
    <3>4. ASSUME NEW e \in H3Conns, StaleFor(r, e)' PROVE e = c
      <4>1. StaleFor(r, e)
        BY <2>3, <3>1, <3>4 DEF StaleFor, InPool, CallConn, Stale
      <4> QED BY <1>s, <3>2, <3>3, <4>1 DEF Pooled, StaleFor, CallConn
    <3>5. Recovers(r) /\ (Clean(r)' => Clean(r))
      BY <2>3, <3>1 DEF H3Inv, Clean, RemovedTicket
    <3>6. Recovers(r)'
      <4>1. Clean(r)' => ticket'[h3call'[r].origin] = NoTicket
        BY <2>3, <3>1, <3>5 DEF Recovers
      <4>2. n.rejections = 2 => n.late
        <5>1. SUFFICES ASSUME n.rejections = 2, ~n.late PROVE FALSE
          OBVIOUS
        <5>2. Clean(r)
          BY <2>3, <5>1 DEF Clean, RemovedTicket
        <5> QED BY <2>1, <2>3, <3>2, <3>3, <3>5, <5>1, <5>2 DEF Recovers
      <4> QED BY <2>3, <3>1, <3>2, <3>4, <4>1, <4>2 DEF Recovers
    <3>7. OnOwnConn(r)'
      BY <2>3, <3>1 DEF OnOwnConn
    <3>8. /\ ticket' \in [Origins -> Nat] /\ \A o \in Origins : ticket'[o] \in {ticket[o], NoTicket}
          /\ UNCHANGED <<route, transport, h3Closed, dialled, h3conn, h3Tables, serverKey,
                         echConfig>>
      BY <1>s, <2>1 DEF h3Admin, h3Peer, H3States
    <3> QED BY <1>1, <2>3, <2>5, <3>6, <3>7, <3>8
  <2> QED BY <2>1, <2>4, <2>5
<1> QED BY <1>3, <1>4, <1>5

\* closeOrigin ends the connection that rejected the call, which is in byOrigin.
LEMMA CloseOriginStep ==
  ASSUME H3Inv, NEW r \in H3Requests, CloseOrigin(r) PROVE H3Inv'
<1>s. H3States /\ Pooled /\ h3call[r] \in CallRecords
  BY DEF H3Inv, H3States
<1> DEFINE call == h3call[r]
           conns == {c \in byOrigin : h3conn[c].origin = call.origin}
           p == IF call.rejections = 2 THEN "failed0RTT" ELSE "send"
           n == [call EXCEPT !.rejections = @ + 1, !.pc = p]
<1>1. /\ call.pc = "drop" /\ byOrigin' = byOrigin \ conns /\ h3conn' = Ended(conns)
      /\ h3call' = [h3call EXCEPT ![r] = n]
      /\ UNCHANGED <<h3Admin, dialled, sockets, proxyConns, h3Peer>>
  BY DEF CloseOrigin
<1>2. /\ h3conn' \in [H3Conns -> ConnRecords]
      /\ \A c \in H3Conns : Quiet(c) /\ (h3conn'[c].socket => h3conn[c].socket)
      /\ \A c \in H3Conns : c \in byOrigin /\ h3conn[c].origin = call.origin => ~h3conn'[c].alive
  BY <1>1, <1>s, EndedConns
<1>3. /\ n \in CallRecords /\ n.pc = p /\ n.origin = call.origin /\ n.of = call.of
      /\ n.rejections = call.rejections + 1 /\ n.late = call.late
  <2>1. p \in CallStages /\ call.rejections + 1 \in Nat
    BY <1>s DEF CallRecords, CallStages
  <2> HIDE DEF p
  <2> QED BY <1>s, <2>1 DEF CallRecords
<1> HIDE DEF n
<1>4. /\ h3call' \in [H3Requests -> CallRecords] /\ h3call'[r] = n
      /\ \A e \in H3Requests : e # r => h3call'[e] = h3call[e]
  BY <1>1, <1>3, <1>s, CallReplaced
<1>5. Lifecycle' /\ \A c \in H3Conns : Calm(c) /\ (InPool(c)' => InPool(c))
  BY <1>1, <1>2, QuietConns
<1>6. Pooled'
  <2>1. ASSUME NEW c \in H3Conns, h3conn'[c].stage = "ready", InPool(c)' PROVE c \in byOrigin'
    <3>1. c \in byOrigin /\ h3conn'[c].alive
      BY <1>2, <1>5, <1>s, <2>1 DEF Pooled, Quiet, InPool
    <3> QED BY <1>1, <1>2, <3>1
  <2> QED BY <1>5, <2>1, CalmPool
<1>7. H3States'
  BY <1>1, <1>2, <1>4, <1>s DEF H3States, h3Admin, h3Peer
<1>8. SocketTables'
  BY <1>1, <1>2, SocketsQuiet DEF h3Admin
<1>9. ticket' = ticket
  BY <1>1 DEF h3Peer
<1>10. ASSUME NEW e \in H3Requests, h3call'[e].origin = h3call[e].origin,
              h3call'[e].of = h3call[e].of
       PROVE  \A c \in H3Conns : StaleFor(e, c)' =>
                StaleFor(e, c) /\ (h3conn[c].stage = "ready" => h3conn'[c].stage = "ready")
  <2>1. \A c \in H3Conns : InPool(c)' => ~h3conn[c].probe
    BY <1>5 DEF InPool
  <2> QED BY <1>5, <1>10, <2>1, CalmStale
<1>11. ASSUME NEW e \in H3Requests, e # r PROVE OnOwnConn(e)' /\ Recovers(e)'
  <2>1. h3call'[e] = h3call[e]
    BY <1>4, <1>11
  <2>2. Recovers(e)'
    BY <1>9, <1>10, <2>1, RecoversKept
  <2> QED BY <1>2, <2>1, <2>2, QuietOnOwnConn
<1>12. OnOwnConn(r)'
  BY <1>3, <1>4 DEF OnOwnConn
<1>13. Recovers(r)'
  <2>1. Recovers(r) /\ call.rejections \in Nat
    BY <1>s DEF H3Inv, CallRecords
  <2>2. Clean(r)' => Clean(r)
    BY <1>1, <1>3, <1>4 DEF Clean, RemovedTicket
  <2>3. Clean(r)' => ticket'[h3call'[r].origin] = NoTicket
    BY <1>3, <1>4, <1>9, <2>1, <2>2 DEF Recovers
  <2>4. ASSUME Clean(r)', h3call'[r].rejections = 2, NEW c \in H3Conns, StaleFor(r, c)'
        PROVE  FALSE
    <3>1. Clean(r) /\ call.rejections = 1
      BY <1>3, <1>4, <2>1, <2>2, <2>4
    <3>2. StaleFor(r, c) /\ h3conn[c].stage = "ready"
      BY <1>1, <1>3, <1>4, <1>10, <2>1, <2>4, <3>1 DEF Recovers
    <3>3. c \in byOrigin /\ h3conn[c].origin = call.origin
      BY <1>s, <3>2 DEF Pooled, StaleFor, CallConn
    <3>4. ~h3conn'[c].alive /\ h3conn'[c].stage = "ready"
      BY <1>2, <3>2, <3>3 DEF Quiet
    <3> QED BY <2>4, <3>4 DEF StaleFor, InPool
  <2>5. p = "failed0RTT" => n.late
    BY <1>1, <1>3, <2>1 DEF Recovers
  <2>6. h3call'[r].pc \notin {"rejected", "drop"}
    BY <1>3, <1>4
  <2> QED BY <1>3, <1>4, <2>3, <2>4, <2>5, <2>6 DEF Recovers
<1> QED BY <1>5, <1>6, <1>7, <1>8, <1>11, <1>12, <1>13 DEF H3Inv

\* A ticket that is cached makes the calls that removed theirs late.
LEMMA TicketArrivesStep ==
  ASSUME H3Inv, NEW c \in H3Conns, TicketArrives(c) PROVE H3Inv'
<1>s. H3States /\ Pooled /\ h3conn[c] \in ConnRecords
  BY DEF H3Inv, H3States
<1> DEFINE m == [h3conn[c] EXCEPT !.issued = TRUE]
           n == [m EXCEPT !.key = 0]
<1>1. /\ h3conn' = [h3conn EXCEPT ![c] = n]
      /\ ticket' = [ticket EXCEPT ![h3conn[c].origin] = h3conn[c].key]
      /\ UNCHANGED <<h3Admin, dialled, h3Tables, serverKey, echConfig>>
  BY DEF TicketArrives
<1>2. m \in ConnRecords
  BY <1>s, IssuedField
<1>3. /\ m.stage = h3conn[c].stage /\ m.origin = h3conn[c].origin /\ m.of = h3conn[c].of
      /\ m.probe = h3conn[c].probe /\ m.offered = h3conn[c].offered
      /\ m.early = h3conn[c].early /\ m.alive = h3conn[c].alive /\ m.socket = h3conn[c].socket
  BY <1>s DEF ConnRecords
<1> HIDE DEF m
<1>4. /\ n \in ConnRecords
      /\ n.stage = h3conn[c].stage /\ n.origin = h3conn[c].origin /\ n.of = h3conn[c].of
      /\ n.probe = h3conn[c].probe /\ n.offered = h3conn[c].offered
      /\ n.early = h3conn[c].early /\ n.alive = h3conn[c].alive /\ n.socket = h3conn[c].socket
  BY <1>2, <1>3 DEF ConnRecords
<1> HIDE DEF n
<1>5. /\ h3conn' \in [H3Conns -> ConnRecords] /\ h3conn'[c] = n
      /\ \A e \in H3Conns : e # c => h3conn'[e] = h3conn[e]
  BY <1>1, <1>4, <1>s, ConnReplaced
<1>6. \A e \in H3Conns : Quiet(e) /\ (h3conn'[e].socket => h3conn[e].socket)
  BY <1>4, <1>5 DEF Quiet
<1>7. Lifecycle' /\ \A e \in H3Conns : Calm(e) /\ (InPool(e)' => InPool(e))
  BY <1>1, <1>6, QuietConns
<1>8. Pooled'
  <2>1. \A e \in H3Conns : h3conn'[e].stage = "ready" /\ InPool(e)' => e \in byOrigin'
    BY <1>1, <1>6, <1>7, <1>s DEF Pooled, Quiet, h3Tables
  <2> QED BY <1>7, <2>1, CalmPool
<1>9. /\ ticket' \in [Origins -> Nat]
      /\ \A o \in Origins : o # h3conn[c].origin => ticket'[o] = ticket[o]
  <2>1. h3conn[c].key \in Nat /\ ticket \in [Origins -> Nat]
    BY <1>s DEF ConnRecords, H3States
  <2> QED BY <1>1, <2>1
<1>10. ASSUME NEW r \in H3Requests
       PROVE  /\ h3call'[r].pc = h3call[r].pc /\ h3call'[r].conn = h3call[r].conn
              /\ h3call'[r].origin = h3call[r].origin /\ h3call'[r].of = h3call[r].of
              /\ h3call'[r].rejections = h3call[r].rejections
              /\ h3call[r].origin \in Origins
              /\ \/ h3call'[r].late = TRUE
                 \/ h3call'[r].late = h3call[r].late
                    /\ (RemovedTicket(r) => h3call[r].origin # h3conn[c].origin)
  <2>1. h3conn[c].origin \in Origins /\ h3call[r].origin \in Origins
    BY <1>s DEF H3States, ConnRecords, CallRecords
  <2>2. h3call' = CallsLate(h3conn[c].origin)
    BY DEF TicketArrives
  <2> QED BY <1>s, <2>1, <2>2, LateCalls
<1>11. h3call' \in [H3Requests -> CallRecords]
  <2>1. h3conn[c].origin \in Origins
    BY <1>s DEF ConnRecords
  <2> QED BY <1>s, <2>1, LateCalls DEF TicketArrives
<1>12. H3States'
  BY <1>1, <1>5, <1>9, <1>11, <1>s DEF H3States, h3Admin
<1>13. SocketTables'
  BY <1>1, <1>6, SocketsQuiet DEF h3Admin, h3Tables
<1>14. ASSUME NEW r \in H3Requests PROVE OnOwnConn(r)' /\ Recovers(r)'
  <2>1. OnOwnConn(r)'
    BY <1>6, <1>10, QuietOnOwnConn
  <2>2. CASE h3call'[r].late = TRUE
    BY <2>1, <2>2, RecoversLate
  <2>3. CASE h3call'[r].late # TRUE
    <3>1. Clean(r) => ticket'[h3call[r].origin] = ticket[h3call[r].origin]
      BY <1>9, <1>10, <2>3 DEF Clean
    <3>2. \A e \in H3Conns : InPool(e)' => ~h3conn[e].probe
      BY <1>7 DEF InPool
    <3>3. \A e \in H3Conns : StaleFor(r, e)' =>
             StaleFor(r, e) /\ (h3conn[e].stage = "ready" => h3conn'[e].stage = "ready")
      BY <1>7, <1>10, <3>2, CalmStale
    <3> QED BY <1>10, <2>1, <2>3, <3>1, <3>3, RecoversKept
  <2> QED BY <2>2, <2>3
<1> QED BY <1>7, <1>8, <1>12, <1>13, <1>14 DEF H3Inv

\* What the type invariant says besides.  A Refresh that runs has been counted and
\* has not built its transport yet.
AdminBounds ==
    /\ route \in H3Routes /\ transport \in Nat \ {0} /\ transport <= adminCalls + 1
    /\ refresher # "no" => transport <= adminCalls
    /\ transportOpen \in [Transports -> BOOLEAN] /\ h3Closed \in BOOLEAN
    /\ closer \in {"no", "transport", "sockets", "done"}
    /\ refresher \in {"no", "sockets", "rebuild"} /\ adminCalls \in 0..MaxAdmin

TableBounds ==
    /\ tunnelUp \in BOOLEAN /\ dialled \in 0..MaxH3Conns
    /\ sockets \subseteq H3Conns /\ proxyConns \subseteq H3Conns /\ byOrigin \subseteq H3Conns

\* Tickets are issued for keys that the server has had.
PeerBounds ==
    /\ ticket \in [Origins -> 0..NoTicket] /\ serverKey \in [Origins -> 0..MaxRotations]
    /\ incompatible \subseteq Origins

KeyBounds == \A c \in H3Conns : h3conn[c].key \in 0..MaxRotations

H3Bounds == AdminBounds /\ TableBounds /\ PeerBounds /\ KeyBounds

\* Close, Refresh and Connect are counted within their bound.
LEMMA AdminStep ==
  ASSUME H3Constants, AdminBounds, [H3Next]_h3Vars
  PROVE  AdminBounds'
<1>n. MaxAdmin \in Nat /\ Transports = 1..(MaxAdmin + 1)
  BY DEF H3Constants, Transports
<1>t. transport \in Transports /\ adminCalls \in Nat
  BY <1>n DEF AdminBounds
<1>u. ASSUME UNCHANGED <<h3Admin, adminCalls>> PROVE AdminBounds'
  BY <1>u DEF h3Admin, AdminBounds
<1>c. ASSUME CountAdmin, UNCHANGED <<route, transport>>, transport <= adminCalls + 1,
             transportOpen' \in [Transports -> BOOLEAN], h3Closed' \in BOOLEAN,
             closer' \in {"no", "transport", "sockets", "done"},
             refresher' \in {"no", "sockets", "rebuild"}
      PROVE  AdminBounds'
  <2>1. adminCalls' = adminCalls + 1 /\ adminCalls < MaxAdmin
    BY <1>c DEF CountAdmin
  <2>2. adminCalls' \in 0..MaxAdmin /\ transport' <= adminCalls' /\ transport' <= adminCalls' + 1
    BY <1>n, <1>t, <1>c, <2>1 DEF AdminBounds
  <2> QED BY <1>c, <2>2 DEF AdminBounds
<1>1. ASSUME NEW r \in H3Requests,
             (\E o \in Origins : RoundTrip(r, o)) \/ Send(r) \/ Answer(r) \/ DropTicket(r)
                \/ CloseOrigin(r)
      PROVE  AdminBounds'
  BY <1>u, <1>1 DEF RoundTrip, Send, Answer, DropTicket, CloseOrigin
<1>2. ASSUME NEW c \in H3Conns,
             \/ DialRelay(c) \/ DialEarly(c) \/ EchRejected(c) \/ DialFails(c)
             \/ Register(c) \/ Track(c) \/ TicketArrives(c) \/ ConnEnds(c) \/ ReapConn(c)
      PROVE  AdminBounds'
  <2>1. UNCHANGED <<h3Admin, adminCalls>>
    <3>1. CASE DialRelay(c) \/ DialEarly(c) \/ EchRejected(c) \/ DialFails(c)
      BY <3>1 DEF DialRelay, DialEarly, EchRejected, DialFails
    <3>2. CASE Register(c) \/ Track(c) \/ TicketArrives(c) \/ ConnEnds(c) \/ ReapConn(c)
      BY <3>2 DEF Register, Track, TicketArrives, ConnEnds, ReapConn
    <3> QED BY <1>2, <3>1, <3>2
  <2> QED BY <1>u, <2>1
<1>3. ASSUME NEW o \in Origins, RotateKeys(o) PROVE AdminBounds'
  BY <1>u, <1>3 DEF RotateKeys
<1>4. ASSUME NEW o \in Origins, Connect(o) PROVE AdminBounds'
  BY <1>c, <1>4 DEF Connect, h3Admin, AdminBounds
<1>5. CASE CloseBegin \/ RefreshBegin
  <2>1. transportOpen' \in [Transports -> BOOLEAN]
    BY <1>5 DEF CloseBegin, RefreshBegin, CloseTransport, AdminBounds
  <2>2. CASE CloseBegin
    <3>1. /\ CountAdmin /\ UNCHANGED <<route, transport, h3Closed, refresher>>
          /\ closer' = "transport"
      BY <2>2 DEF CloseBegin
    <3> QED BY <1>c, <2>1, <3>1 DEF AdminBounds
  <2>3. CASE RefreshBegin
    <3>1. /\ CountAdmin /\ UNCHANGED <<route, transport, h3Closed, closer>>
          /\ refresher' = "sockets"
      BY <2>3 DEF RefreshBegin
    <3> QED BY <1>c, <2>1, <3>1 DEF AdminBounds
  <2> QED BY <1>5, <2>2, <2>3
<1>6. CASE CloseSockets \/ CloseTunnel
  BY <1>6 DEF CloseSockets, CloseTunnel, AdminBounds
<1>7. CASE RefreshSockets
  BY <1>7 DEF RefreshSockets, AdminBounds
<1>8. CASE RefreshEnd
  <2>1. /\ transport' = transport + 1 /\ transport <= adminCalls /\ adminCalls <= MaxAdmin
        /\ refresher' = "no" /\ UNCHANGED <<route, h3Closed, closer, adminCalls>>
        /\ transportOpen' = [transportOpen EXCEPT ![transport + 1] = TRUE]
    BY <1>8 DEF RefreshEnd, AdminBounds
  <2>2. transport' \in Nat \ {0} /\ transport' <= adminCalls + 1
    BY <1>t, <2>1 DEF AdminBounds
  <2>3. transportOpen' \in [Transports -> BOOLEAN]
    BY <2>1 DEF AdminBounds
  <2> QED BY <2>1, <2>2, <2>3 DEF AdminBounds
<1>9. CASE UNCHANGED h3Vars
  BY <1>u, <1>9 DEF h3Vars
<1> QED BY <1>1, <1>2, <1>3, <1>4, <1>5, <1>6, <1>7, <1>8, <1>9 DEF H3Next

\* Only connections that were dialled are in the tables.
LEMMA TableStep ==
  ASSUME H3Constants, TableBounds, [H3Next]_h3Vars
  PROVE  TableBounds'
<1>n. MaxH3Conns \in Nat
  BY DEF H3Constants
<1>u. ASSUME UNCHANGED <<tunnelUp, dialled, h3Tables>> PROVE TableBounds'
  BY <1>u DEF h3Tables, TableBounds
<1>d. ASSUME NEW o, NEW g, NEW p, NEW got, StartDial(o, g, p, got), UNCHANGED <<tunnelUp, h3Tables>>
      PROVE  TableBounds'
  <2>1. dialled' \in 0..MaxH3Conns
    BY SMTT(40), <1>n, <1>d DEF StartDial, TableBounds
  <2> QED BY <1>d, <2>1 DEF h3Tables, TableBounds
<1>1. ASSUME NEW r \in H3Requests,
             (\E o \in Origins : RoundTrip(r, o)) \/ Answer(r) \/ DropTicket(r)
      PROVE  TableBounds'
  BY <1>u, <1>1 DEF RoundTrip, Answer, DropTicket
<1>2. ASSUME NEW r \in H3Requests, Send(r) PROVE TableBounds'
  <2>1. UNCHANGED <<tunnelUp, h3Tables>>
    BY <1>2 DEF Send
  <2>2. UNCHANGED dialled \/ \E o, g, p, got : StartDial(o, g, p, got)
    BY <1>2 DEF Send
  <2> QED BY <1>u, <1>d, <2>1, <2>2
<1>3. ASSUME NEW r \in H3Requests, CloseOrigin(r) PROVE TableBounds'
  BY <1>3 DEF CloseOrigin, TableBounds
<1>4. ASSUME NEW c \in H3Conns,
             \/ DialEarly(c) \/ EchRejected(c) \/ TicketArrives(c) \/ ConnEnds(c)
      PROVE  TableBounds'
  BY <1>u, <1>4 DEF DialEarly, EchRejected, TicketArrives, ConnEnds
<1>5. ASSUME NEW c \in H3Conns, DialRelay(c) \/ DialFails(c) \/ ReapConn(c) PROVE TableBounds'
  BY <1>5 DEF DialRelay, DialFails, ReapConn, TableBounds
<1>6. ASSUME NEW c \in H3Conns, Register(c) PROVE TableBounds'
  <2>1. sockets' \subseteq sockets \cup {c}
    BY <1>6 DEF Register
  <2> QED BY <1>6, <2>1 DEF Register, TableBounds
<1>7. ASSUME NEW c \in H3Conns, Track(c) PROVE TableBounds'
  <2>1. byOrigin' \subseteq byOrigin \cup {c}
    BY <1>7 DEF Track
  <2>2. UNCHANGED <<tunnelUp, dialled, sockets, proxyConns>>
    BY <1>7 DEF Track
  <2> QED BY <2>1, <2>2 DEF TableBounds
<1>8. ASSUME NEW o \in Origins, RotateKeys(o) PROVE TableBounds'
  BY <1>u, <1>8 DEF RotateKeys
<1>9. ASSUME NEW o \in Origins, Connect(o) PROVE TableBounds'
  BY <1>d, <1>9 DEF Connect
<1>10. CASE CloseBegin \/ RefreshBegin \/ RefreshEnd
  BY <1>u, <1>10 DEF CloseBegin, RefreshBegin, RefreshEnd
<1>11. CASE CloseSockets \/ CloseTunnel \/ RefreshSockets
  BY <1>11 DEF CloseSockets, CloseTunnel, RefreshSockets, TableBounds
<1>12. CASE UNCHANGED h3Vars
  BY <1>u, <1>12 DEF h3Vars
<1> QED BY <1>1, <1>2, <1>3, <1>4, <1>5, <1>6, <1>7, <1>8, <1>9, <1>10, <1>11, <1>12 DEF H3Next

\* A ticket in the cache is no ticket or was issued for a key the server has had.
LEMMA PeerStep ==
  ASSUME H3Constants, H3States, PeerBounds, KeyBounds, [H3Next]_h3Vars
  PROVE  PeerBounds'
<1>n. MaxRotations \in Nat /\ NoTicket = MaxRotations + 1
  BY DEF H3Constants, NoTicket
<1>c. ASSUME NEW c \in H3Conns PROVE h3conn[c].origin \in Origins
  BY DEF H3States, ConnRecords
<1>u. ASSUME UNCHANGED <<ticket, serverKey, incompatible>> PROVE PeerBounds'
  BY SMTT(40), <1>u DEF PeerBounds
<1>1. ASSUME NEW r \in H3Requests,
             (\E o \in Origins : RoundTrip(r, o)) \/ Answer(r) \/ CloseOrigin(r)
      PROVE  PeerBounds'
  BY <1>u, <1>1 DEF RoundTrip, Answer, CloseOrigin, h3Peer
<1>d. ASSUME NEW o \in Origins, NEW g, NEW p, NEW got, StartDial(o, g, p, got) PROVE PeerBounds'
  <2>1. /\ got \in Lookups(o) /\ ticket' = [ticket EXCEPT ![o] = got]
        /\ UNCHANGED <<serverKey, incompatible>>
    BY <1>d DEF StartDial
  <2>2. ticket[o] \in 0..NoTicket /\ serverKey[o] \in 0..MaxRotations
    BY DEF PeerBounds
  <2>3. got \in 0..NoTicket
    BY <1>n, <2>1, <2>2 DEF Lookups
  <2> QED BY <2>1, <2>3 DEF PeerBounds
<1>10. ASSUME NEW r \in H3Requests, Send(r) PROVE PeerBounds'
  <2>1. h3call[r].origin \in Origins
    BY DEF H3States, CallRecords
  <2>2. \/ UNCHANGED h3Peer
        \/ \E got : StartDial(h3call[r].origin, h3call[r].of, FALSE, got)
    BY <1>10 DEF Send
  <2>3. CASE UNCHANGED h3Peer
    BY <1>u, <2>3 DEF h3Peer
  <2> QED BY <1>d, <2>1, <2>2, <2>3
<1>2. ASSUME NEW r \in H3Requests, DropTicket(r) PROVE PeerBounds'
  <2>1. ticket' = [ticket EXCEPT ![h3call[r].origin] = NoTicket]
    BY <1>2 DEF DropTicket, TicketAfterRejection
  <2>2. NoTicket \in 0..NoTicket
    BY <1>n
  <2>3. ticket' \in [Origins -> 0..NoTicket]
    BY <2>1, <2>2 DEF PeerBounds
  <2> QED BY <1>2, <2>3 DEF DropTicket, PeerBounds
<1>3. ASSUME NEW c \in H3Conns,
             \/ DialRelay(c) \/ DialEarly(c) \/ DialFails(c) \/ Register(c) \/ Track(c)
             \/ ConnEnds(c) \/ ReapConn(c)
      PROVE  PeerBounds'
  <2>1. UNCHANGED <<ticket, serverKey, incompatible>>
    <3>1. CASE DialRelay(c) \/ DialEarly(c) \/ DialFails(c)
      BY <3>1 DEF DialRelay, DialEarly, DialFails, h3Peer
    <3>2. CASE Register(c) \/ Track(c) \/ ConnEnds(c) \/ ReapConn(c)
      BY <3>2 DEF Register, Track, ConnEnds, ReapConn, h3Peer
    <3> QED BY <1>3, <3>1, <3>2
  <2> QED BY <1>u, <2>1
<1>4. ASSUME NEW c \in H3Conns, EchRejected(c) PROVE PeerBounds'
  BY <1>c, <1>4 DEF EchRejected, PeerBounds
<1>5. ASSUME NEW c \in H3Conns, TicketArrives(c) PROVE PeerBounds'
  <2>1. ticket' = [ticket EXCEPT ![h3conn[c].origin] = h3conn[c].key]
    BY <1>5 DEF TicketArrives
  <2>2. h3conn[c].key \in 0..NoTicket
    BY <1>n DEF KeyBounds
  <2>3. ticket' \in [Origins -> 0..NoTicket]
    BY <2>1, <2>2 DEF PeerBounds
  <2> QED BY <1>5, <2>3 DEF TicketArrives, PeerBounds
<1>6. ASSUME NEW o \in Origins, RotateKeys(o) PROVE PeerBounds'
  <2>1. serverKey' \in [Origins -> 0..MaxRotations]
    BY <1>n, <1>6 DEF RotateKeys, PeerBounds
  <2> QED BY <1>6, <2>1 DEF RotateKeys, PeerBounds
<1>7. ASSUME NEW o \in Origins, Connect(o) PROVE PeerBounds'
  BY <1>d, <1>7 DEF Connect
<1>8. CASE CloseBegin \/ RefreshBegin \/ RefreshEnd \/ CloseSockets \/ CloseTunnel \/ RefreshSockets
  BY <1>u, <1>8 DEF CloseBegin, RefreshBegin, RefreshEnd, CloseSockets, CloseTunnel, RefreshSockets,
     h3Peer
<1>9. CASE UNCHANGED h3Vars
  BY <1>u, <1>9 DEF h3Vars, h3Peer
<1> QED BY <1>1, <1>2, <1>3, <1>4, <1>5, <1>6, <1>7, <1>8, <1>9, <1>10 DEF H3Next

\* Ending a connection forgets the key of the ticket it was still owed.
LEMMA EndedKey ==
  ASSUME H3States, H3Constants, KeyBounds, NEW conns, h3conn' \in {Ended(conns), Torn(conns)}
  PROVE  KeyBounds'
<1>1. SUFFICES ASSUME NEW c \in H3Conns PROVE h3conn'[c].key \in 0..MaxRotations
  BY DEF KeyBounds
<1>2. h3conn[c] \in ConnRecords /\ h3conn[c].key \in 0..MaxRotations /\ 0 \in 0..MaxRotations
  BY DEF H3States, KeyBounds, H3Constants
<1>3. EndedConn(h3conn[c]).key = 0 /\ [EndedConn(h3conn[c]) EXCEPT !.socket = FALSE].key = 0
  BY <1>2 DEF EndedConn, ConnRecords
<1>4. h3conn'[c] \in {h3conn[c], EndedConn(h3conn[c]),
                      [EndedConn(h3conn[c]) EXCEPT !.socket = FALSE]}
  BY DEF Ended, Torn
<1> QED BY <1>2, <1>3, <1>4

\* A connection's key is one its server has had.
LEMMA KeyStep ==
  ASSUME H3Constants, H3States, PeerBounds, KeyBounds, [H3Next]_h3Vars
  PROVE  KeyBounds'
<1>n. MaxRotations \in Nat /\ 0 \in 0..MaxRotations
  BY DEF H3Constants
<1>c. ASSUME NEW c \in H3Conns
      PROVE  /\ h3conn[c] \in ConnRecords /\ h3conn[c].origin \in Origins
             /\ h3conn[c].key \in 0..MaxRotations
  BY DEF H3States, ConnRecords, KeyBounds
<1>g. FreeConn \in ConnRecords /\ FreeConn.key = 0 /\ GoneConn.key = 0
  BY EmptyRecords DEF FreeConn, GoneConn
<1>u. ASSUME UNCHANGED h3conn PROVE KeyBounds'
  BY <1>u DEF KeyBounds
<1>s. ASSUME NEW c, NEW n, h3conn' = [h3conn EXCEPT ![c] = n], n.key \in 0..MaxRotations
      PROVE  KeyBounds'
  BY <1>s DEF KeyBounds, H3States
<1>d. ASSUME NEW o, NEW g, NEW p, NEW got, StartDial(o, g, p, got) PROVE KeyBounds'
  <2> DEFINE n == [FreeConn EXCEPT !.stage = "dialling", !.origin = o, !.of = g, !.ech = EchFor(o),
                           !.offered = Offers(p, got), !.probe = p]
  <2>1. h3conn' = [h3conn EXCEPT ![dialled + 1] = n]
    BY <1>d DEF StartDial
  <2>2. n.key = 0
    BY DEF FreeConn
  <2> HIDE DEF n
  <2> QED BY <1>n, <1>s, <2>1, <2>2
<1>1. ASSUME NEW r \in H3Requests,
             (\E o \in Origins : RoundTrip(r, o)) \/ Answer(r) \/ DropTicket(r)
      PROVE  KeyBounds'
  BY <1>u, <1>1 DEF RoundTrip, Answer, DropTicket
<1>2. ASSUME NEW r \in H3Requests, Send(r) PROVE KeyBounds'
  <2>1. UNCHANGED h3conn \/ \E o, g, p, got : StartDial(o, g, p, got)
    BY <1>2 DEF Send
  <2> QED BY <1>u, <1>d, <2>1
<1>3. ASSUME NEW r \in H3Requests, CloseOrigin(r) PROVE KeyBounds'
  BY <1>3, EndedKey DEF CloseOrigin
<1>4. ASSUME NEW c \in H3Conns, DialEarly(c) PROVE KeyBounds'
  <2> DEFINE conn == h3conn[c]
             early == CASE conn.offered = NoTicket -> "none"
                        [] conn.offered = serverKey[conn.origin] -> "accepted"
                        [] OTHER -> "rejected"
             at == IF route = "socks" THEN "registered" ELSE "dialled"
             key == serverKey[conn.origin]
             n == [conn EXCEPT !.stage = at, !.alive = TRUE, !.socket = TRUE, !.key = key,
                               !.offered = NoTicket, !.ech = "none", !.early = early]
  <2>1. h3conn' = [h3conn EXCEPT ![c] = n]
    BY <1>4 DEF DialEarly
  <2>2. key \in 0..MaxRotations
    BY <1>c DEF PeerBounds
  <2>3. conn \in ConnRecords
    BY <1>c
  <2> HIDE DEF early, at, key, conn
  <2>4. n.key = key
    BY <2>3 DEF ConnRecords
  <2> HIDE DEF n
  <2> QED BY <1>s, <2>1, <2>2, <2>4
<1>5. ASSUME NEW c \in H3Conns, DialRelay(c) \/ EchRejected(c) \/ Register(c) \/ Track(c)
      PROVE  KeyBounds'
  <2> DEFINE conn == h3conn[c]
  <2>1. conn \in ConnRecords /\ conn.key \in 0..MaxRotations
    BY <1>c
  <2>2. PICK n : /\ h3conn' = [h3conn EXCEPT ![c] = n]
                 /\ \/ n \in {[conn EXCEPT !.socket = TRUE], [conn EXCEPT !.ech = "none"], GoneConn,
                              [conn EXCEPT !.stage = "registered"]}
                    \/ \E b : n = [conn EXCEPT !.stage = "ready", !.alive = b]
    <3>1. CASE DialRelay(c)
      BY <3>1 DEF DialRelay
    <3>2. CASE EchRejected(c)
      BY <3>2 DEF EchRejected
    <3>3. CASE Register(c)
      BY <3>3 DEF Register
    <3>4. CASE Track(c)
      <4>1. PICK closed : h3conn' = [h3conn EXCEPT ![c].stage = "ready",
                                                   ![c].alive = h3conn[c].alive /\ ~closed]
        BY <3>4 DEF Track
      <4> DEFINE b == h3conn[c].alive /\ ~closed
      <4>2. h3conn' = [h3conn EXCEPT ![c].stage = "ready", ![c].alive = b]
        BY <4>1
      <4> HIDE DEF b
      <4>3. h3conn' = [h3conn EXCEPT ![c] = [conn EXCEPT !.stage = "ready", !.alive = b]]
        BY <4>2
      <4> QED BY <4>3
    <3> QED BY <1>5, <3>1, <3>2, <3>3, <3>4
  <2> HIDE DEF conn
  <2>3. n.key \in {0, conn.key}
    <3>1. CASE n \in {[conn EXCEPT !.socket = TRUE], [conn EXCEPT !.ech = "none"], GoneConn,
                      [conn EXCEPT !.stage = "registered"]}
      BY <1>g, <2>1, <3>1 DEF ConnRecords
    <3>2. CASE \E b : n = [conn EXCEPT !.stage = "ready", !.alive = b]
      BY <2>1, <3>2 DEF ConnRecords
    <3> QED BY <2>2, <3>1, <3>2
  <2> QED BY <1>n, <1>s, <2>1, <2>2, <2>3
<1>6. ASSUME NEW c \in H3Conns, DialFails(c) \/ ReapConn(c) PROVE KeyBounds'
  <2>1. h3conn' = [h3conn EXCEPT ![c] = GoneConn]
    BY <1>6 DEF DialFails, ReapConn
  <2> QED BY <1>n, <1>g, <1>s, <2>1
<1>7. ASSUME NEW c \in H3Conns, TicketArrives(c) PROVE KeyBounds'
  <2> DEFINE n == [h3conn[c] EXCEPT !.issued = TRUE, !.key = 0]
  <2>1. h3conn' = [h3conn EXCEPT ![c] = n]
    BY <1>7 DEF TicketArrives
  <2>2. n.key = 0
    BY <1>c DEF ConnRecords
  <2> HIDE DEF n
  <2> QED BY <1>n, <1>s, <2>1, <2>2
<1>8. ASSUME NEW c \in H3Conns, ConnEnds(c) PROVE KeyBounds'
  BY <1>8, EndedKey DEF ConnEnds
<1>9. ASSUME NEW o \in Origins, RotateKeys(o) PROVE KeyBounds'
  <2>1. ASSUME NEW c \in H3Conns PROVE h3conn'[c].key = h3conn[c].key
    <3>1. h3conn'[c] \in {h3conn[c], [h3conn[c] EXCEPT !.ech = "stale"]}
      BY <1>9 DEF RotateKeys
    <3> QED BY <1>c, <3>1 DEF ConnRecords
  <2> QED BY <1>c, <2>1 DEF KeyBounds
<1>10. ASSUME NEW o \in Origins, Connect(o) PROVE KeyBounds'
  BY <1>d, <1>10 DEF Connect
<1>11. CASE CloseBegin \/ RefreshBegin
  BY <1>11, EndedKey DEF CloseBegin, RefreshBegin, CloseTransport
<1>12. CASE CloseSockets \/ CloseTunnel \/ RefreshSockets \/ RefreshEnd
  <2>1. UNCHANGED h3conn \/ \E conns : h3conn' = Torn(conns)
    BY <1>12 DEF CloseSockets, CloseTunnel, RefreshSockets, RefreshEnd
  <2> QED BY <1>u, <2>1, EndedKey
<1>13. CASE UNCHANGED h3Vars
  BY <1>u, <1>13 DEF h3Vars
<1> QED BY <1>1, <1>2, <1>3, <1>4, <1>5, <1>6, <1>7, <1>8, <1>9, <1>10, <1>11, <1>12, <1>13
       DEF H3Next

\* The invariant gives the type invariant.
LEMMA H3Typed ==
  ASSUME H3Constants, H3Inv, H3Bounds
  PROVE  H3TypeOK
<1>1. /\ \A c \in H3Conns : h3conn[c] \in ConnRecords
      /\ \A r \in H3Requests : h3call[r] \in CallRecords
      /\ echConfig \in [Origins -> {"none", "good", "stale"}]
  BY DEF H3Inv, H3States
<1>2. ASSUME NEW c \in H3Conns
      PROVE  /\ h3conn[c].stage \in {"free", "dialling", "dialled", "registered", "ready", "gone"}
             /\ h3conn[c].early \in {"none", "accepted", "rejected"}
             /\ h3conn[c].ech \in {"none", "good", "stale"}
  BY <1>1 DEF ConnRecords, ConnStages
<1>3. ASSUME NEW r \in H3Requests
      PROVE  h3call[r].pc \in {"idle", "send", "dial", "stream", "rejected", "drop", "done",
                               "failed", "failed0RTT"}
  BY <1>1 DEF CallRecords, CallStages
<1>4. transport \in Transports
  BY DEF H3Bounds, AdminBounds, Transports, H3Constants
<1>5. sockets \cup proxyConns \cup byOrigin \subseteq H3Conns
  BY DEF H3Bounds, TableBounds
<1> QED BY <1>1, <1>2, <1>3, <1>4, <1>5 DEF H3TypeOK, H3Bounds, AdminBounds, TableBounds, PeerBounds

\* A transport starts within its bounds.
LEMMA H3StartsBounded ==
  ASSUME H3Constants, H3Init
  PROVE  H3Bounds
<1>1. /\ NoTicket = MaxRotations + 1 /\ MaxRotations \in Nat /\ MaxAdmin \in Nat
      /\ MaxH3Conns \in Nat
  BY DEF NoTicket, H3Constants
<1>2. AdminBounds
  <2>1. transportOpen \in [Transports -> BOOLEAN]
    BY Zenon DEF H3Init
  <2>2. /\ route \in H3Routes /\ transport = 1 /\ h3Closed = FALSE /\ closer = "no"
        /\ refresher = "no" /\ adminCalls = 0
    BY DEF H3Init
  <2>3. h3Closed \in BOOLEAN
    BY <2>2, Zenon
  <2>4. transport \in Nat \ {0} /\ transport <= adminCalls + 1 /\ adminCalls \in 0..MaxAdmin
    BY <1>1, <2>2
  <2> QED BY <2>1, <2>2, <2>3, <2>4, Zenon DEF AdminBounds
<1>3. TableBounds /\ PeerBounds
  <2>1. /\ tunnelUp = FALSE /\ dialled = 0 /\ sockets = {} /\ proxyConns = {} /\ byOrigin = {}
        /\ incompatible = {} /\ serverKey = [o \in Origins |-> 0]
        /\ ticket \in [Origins -> {0, NoTicket}]
    BY DEF H3Init
  <2>2. {0, NoTicket} \subseteq 0..NoTicket /\ 0 \in 0..MaxRotations
    BY <1>1
  <2>3. ticket \in [Origins -> 0..NoTicket] /\ serverKey \in [Origins -> 0..MaxRotations]
    BY <2>1, <2>2
  <2>4. tunnelUp \in BOOLEAN
    BY <2>1, Zenon
  <2>5. dialled \in 0..MaxH3Conns
    BY <1>1, <2>1
  <2>6. TableBounds
    BY <2>1, <2>4, <2>5, Zenon DEF TableBounds
  <2> QED BY <2>1, <2>3, <2>6 DEF PeerBounds
<1>4. KeyBounds
  BY <1>1 DEF KeyBounds, H3Init, FreeConn
<1> QED BY <1>2, <1>3, <1>4 DEF H3Bounds

\* Every step keeps the bounds.
LEMMA H3BoundsStep ==
  ASSUME H3Constants, H3Inv, H3Bounds, [H3Next]_h3Vars
  PROVE  H3Bounds'
BY AdminStep, TableStep, PeerStep, KeyStep DEF H3Bounds, H3Inv

\* A transport starts with no connection.
LEMMA H3Starts ==
  ASSUME H3Init
  PROVE  H3Inv
<1>1. \A c \in H3Conns : h3conn[c] = FreeConn
  BY DEF H3Init
<1>2. \A r \in H3Requests : h3call[r] = NoCall
  BY DEF H3Init
<1>3. H3States
  BY EmptyRecords, H3Numbers DEF H3Init, H3States
<1>4. Lifecycle /\ SocketTables
  BY <1>1, EmptyRecords DEF Lifecycle, SocketTables, H3Init
<1>5. Pooled
  BY <1>1, EmptyRecords DEF Pooled, InPool
<1>6. \A r \in H3Requests : OnOwnConn(r) /\ Recovers(r)
  BY <1>2, EmptyRecords DEF OnOwnConn, Recovers, Clean, RemovedTicket
<1> QED BY <1>3, <1>4, <1>5, <1>6 DEF H3Inv

\* Every step of the callers, the dials, the servers, Close and Refresh keeps H3Inv.
LEMMA H3Step ==
  ASSUME H3Inv, [H3Next]_h3Vars
  PROVE  H3Inv'
<1>1. CASE UNCHANGED h3Vars
  BY <1>1, H3Unchanged
<1>2. ASSUME NEW r \in H3Requests,
             (\E o \in Origins : RoundTrip(r, o)) \/ Send(r) \/ Answer(r) \/ DropTicket(r)
                \/ CloseOrigin(r)
      PROVE  H3Inv'
  BY <1>2, CallSteps, SendStep, CloseOriginStep
<1>3. ASSUME NEW c \in H3Conns,
             \/ DialRelay(c) \/ DialEarly(c) \/ EchRejected(c) \/ DialFails(c)
             \/ Register(c) \/ Track(c) \/ TicketArrives(c) \/ ConnEnds(c) \/ ReapConn(c)
      PROVE  H3Inv'
  BY <1>3, SweepingSteps, DialEarlyStep, EndingSteps, GoneSteps, RegisterStep, TrackStep,
     TicketArrivesStep
<1>4. ASSUME NEW o \in Origins, Connect(o) \/ RotateKeys(o) PROVE H3Inv'
  BY <1>4, ConnectStep, EndingSteps
<1>5. CASE CloseBegin \/ CloseSockets \/ CloseTunnel \/ RefreshBegin \/ RefreshSockets
              \/ RefreshEnd
  BY <1>5, EndingSteps, SweepingSteps
<1> QED BY <1>1, <1>2, <1>3, <1>4, <1>5 DEF H3Next

\* What the invariant says of the sockets and of the early data.
LEMMA H3Sound ==
  ASSUME H3Inv
  PROVE  TransportSound
<1>1. SocketTables /\ \A r \in H3Requests : Recovers(r)
  BY DEF H3Inv
<1>2. SocketsOwned
  BY <1>1 DEF SocketTables, SocketsOwned
<1>3. EarlyDataRecovered
  BY <1>1 DEF Recovers, EarlyDataRecovered
<1> QED BY <1>2, <1>3 DEF TransportSound

\* Whatever dials, answers, key changes, Connect, Refresh and Close interleave: every
\* open socket has an owner that will close it, no direct connection outlives Close,
\* and a request gives up on its early data only when a ticket was cached between its
\* attempts.
THEOREM TransportSafe == H3Spec => [](H3TypeOK /\ TransportSound)
<1>1. H3Init => H3Inv /\ H3Bounds
  BY H3Starts, H3StartsBounded, H3Constants
<1>2. H3Inv /\ H3Bounds /\ [H3Next]_h3Vars => (H3Inv /\ H3Bounds)'
  BY H3Step, H3BoundsStep, H3Constants
<1>3. H3Inv /\ H3Bounds => H3TypeOK /\ TransportSound
  BY H3Sound, H3Typed, H3Constants
<1> QED BY <1>1, <1>2, <1>3, PTL DEF H3Spec

=============================================================================
