--------------------------- MODULE TransportSwap ---------------------------
(***************************************************************************)
(* The unified Transport replaces its three protocol transports while      *)
(* requests use them: Session.SetProxy, SetTCPProxy and SetUDPProxy, and   *)
(* Transport.SetPreset, build a new set outside fieldsMu, publish it with  *)
(* the fields that describe it in one critical section, and then close     *)
(* the set they replaced.  A request reads all of those fields at once     *)
(* (snapshot) and goes on with what it read.                               *)
(*                                                                         *)
(* Session.mu is held for the whole of a proxy operation, so that one runs *)
(* at a time; a request gives it up before it calls Transport.Do.  No      *)
(* method of Session calls Transport.SetPreset, whose callers hold no lock *)
(* and run beside each other and beside the session's operation.  What a   *)
(* request does with its snapshot is the subject of ProtocolSelect.        *)
(***************************************************************************)
EXTENDS Naturals

CONSTANTS
    SwapUsers,      \* callers of Session.Request
    SwapPresets,    \* fingerprints
    FirstPreset,
    PresetCallers,  \* callers of Transport.SetPreset
    SwapProxies,    \* schemes of the proxies that are set: "http", "socks5", "masque"
    MaxSwaps        \* bound on the sets built in a behaviour

ASSUME SwapConstants ==
    /\ FirstPreset \in SwapPresets /\ MaxSwaps \in Nat /\ "session" \notin PresetCallers
    /\ SwapProxies \subseteq {"http", "socks5", "masque"}

\* Who replaces transports: the holder of Session.mu, and each caller of SetPreset.
SessionSetter == "session"
Setters == {SessionSetter} \cup PresetCallers

VARIABLES
    verification,   \* the default certificate checks, or the session's own: hooks or none
    config,         \* Session.Config: Proxy, TCPProxy and UDPProxy
    fields,         \* the fields of Transport that fieldsMu guards
    built,          \* how each set of protocol transports was constructed
    sets,           \* and whether it is open, draining or closed
    change,         \* each setter's operation
    user,           \* each caller's stage and snapshot
    life            \* Session.active and Session.draining

swapVars == <<verification, config, fields, built, sets, change, user, life>>

-----------------------------------------------------------------------------
(* Proxies.                                                                 *)

NoProxy == "none"
ProxyURLs == {"http", "socks5", "masque"}
ProxyConfigs == [url : ProxyURLs \cup {NoProxy}, tcp : ProxyURLs \cup {NoProxy},
                 udp : ProxyURLs \cup {NoProxy}]
NoProxyConfig == [url |-> NoProxy, tcp |-> NoProxy, udp |-> NoProxy]

OrElse(field, unified) == IF field # NoProxy THEN field ELSE unified

\* A UDP-only SOCKS5 proxy carries TCP as well; any other makes the TCP path refuse.
DeriveProxyRouting(p) ==
    LET tcp == OrElse(p.tcp, p.url)
        udp == OrElse(p.udp, p.url)
    IN  [udp |-> udp,
         tcp |-> IF tcp = NoProxy /\ udp = "socks5" THEN udp ELSE tcp,
         tcpErr |-> tcp = NoProxy /\ udp \in {"http", "masque"}]

\* The HTTP/3 transport for a UDP proxy: through it, or a direct one next to an
\* error that keeps it from being used.
H3Built(udp) ==
    CASE udp = NoProxy -> {[via |-> NoProxy, err |-> FALSE]}
      [] udp = "http" -> {[via |-> NoProxy, err |-> TRUE]}
      [] OTHER -> {[via |-> udp, err |-> FALSE], [via |-> NoProxy, err |-> TRUE]}

\* The transports before the session's certificate checks are put on them.
Unverified == "default"

\* Mutant of Reapplied: a rebuilt set goes back to the default verification.
ReappliedNever(v) == Unverified

\* insecureSkipVerify and the caller's hooks, re-applied before publication.
Reapplied(v) == v

-----------------------------------------------------------------------------
(* Construction.                                                            *)

Construction(p, preset, h3, v) == [proxy |-> p, h3 |-> h3.via, preset |-> preset, verify |-> v]

\* `mixed` is history: the field that another operation has published since the one
\* that published this set read it.
Described(p, preset, h3, set) ==
    [proxy |-> p, preset |-> preset, tcpErr |-> DeriveProxyRouting(p).tcpErr,
     h3Err |-> h3.err, set |-> set, mixed |-> "nothing"]

\* `overtaken` is history: what the operation read has been published anew since.
NoChange == [at |-> "idle", proxy |-> NoProxyConfig, preset |-> FirstPreset,
             h3 |-> [via |-> NoProxy, err |-> FALSE], old |-> 1, overtaken |-> FALSE]
NoUser == [at |-> "idle", snap |-> Described(NoProxyConfig, FirstPreset, NoChange.h3, 1)]
SetIds == 1 .. (MaxSwaps + 1)
Sets == {n \in SetIds : sets[n] # "unborn"}

SwapInit ==
    /\ verification \in {Unverified, "own"}
    /\ config \in {[NoProxyConfig EXCEPT !.url = p] : p \in SwapProxies \cup {NoProxy}}
    /\ \E h3 \in H3Built(config.url) :
          /\ fields = Described(config, FirstPreset, h3, 1)
          /\ built = [n \in SetIds |-> Construction(config, FirstPreset, h3, verification)]
    /\ sets = [n \in SetIds |-> IF n = 1 THEN "open" ELSE "unborn"]
    /\ change = [w \in Setters |-> NoChange] /\ user = [u \in SwapUsers |-> NoUser] /\ life = "active"

\* The type invariant.
SwapTypeOK ==
    /\ config \in ProxyConfigs /\ fields.proxy \in ProxyConfigs
    /\ fields.set \in Sets /\ fields.preset \in SwapPresets
    /\ sets \in [SetIds -> {"unborn", "open", "draining", "closed"}]
    /\ \A w \in Setters : change[w].at \in {"idle", "build", "publish", "close"}
    /\ \A u \in SwapUsers : user[u].at \in {"idle", "started", "snapped"}
    /\ life \in {"active", "draining", "closed"}

-----------------------------------------------------------------------------
(* The operations.                                                          *)

Begins(w, p, preset) ==
    /\ change[w].at = "idle" /\ Sets # SetIds
    /\ change' = [change EXCEPT ![w] = [NoChange EXCEPT !.at = "build", !.proxy = p, !.preset = preset]]
    /\ UNCHANGED <<verification, fields, built, sets, user, life>>

\* Session.SetProxy, whether the session is active or not.
SetUnifiedProxy(p) ==
    /\ config' = [NoProxyConfig EXCEPT !.url = p]
    /\ Begins(SessionSetter, config', fields.preset)

\* SetTCPProxy and SetUDPProxy keep the other split field and drop the unified one.
SetTCPProxy(p) ==
    /\ config' = [config EXCEPT !.tcp = p, !.url = NoProxy]
    /\ Begins(SessionSetter, config', fields.preset)

SetUDPProxyOf(p) ==
    /\ config' = [config EXCEPT !.udp = p, !.url = NoProxy]
    /\ Begins(SessionSetter, config', fields.preset)

\* Transport.SetPreset keeps the proxy it finds.
SetTransportPreset(w, preset) ==
    /\ Begins(w, fields.proxy, preset)
    /\ UNCHANGED config

NewSet == CHOOSE n \in SetIds : sets[n] = "unborn" /\ \A k \in SetIds : k < n => sets[k] # "unborn"

\* Outside the lock: construction may fail for HTTP/3 only.
BuildTransports(w) ==
    /\ change[w].at = "build" /\ Sets # SetIds
    /\ \E h3 \in H3Built(DeriveProxyRouting(change[w].proxy).udp) :
          /\ built' = [built EXCEPT ![NewSet] =
                          Construction(change[w].proxy, change[w].preset, h3, Reapplied(verification))]
          /\ sets' = [sets EXCEPT ![NewSet] = "open"]
          /\ change' = [change EXCEPT ![w].at = "publish", ![w].h3 = h3, ![w].old = NewSet]
    /\ UNCHANGED <<verification, config, fields, user, life>>

\* SetProxy goes by the preset it has read, SetPreset by the proxy.
Reads(w) == IF w = SessionSetter THEN "preset" ELSE "proxy"

\* One critical section of fieldsMu: SetProxy does not write the preset it built
\* for, nor SetPreset the proxy.  change.old is from here on the set replaced.
PublishTransports(w) ==
    LET c == change[w]
    IN  /\ c.at = "publish"
        /\ fields' = [Described(c.proxy, c.preset, c.h3, c.old) EXCEPT
                         !.proxy = IF Reads(w) = "proxy" THEN fields.proxy ELSE @,
                         !.preset = IF Reads(w) = "preset" THEN fields.preset ELSE @,
                         !.mixed = IF c.overtaken THEN Reads(w) ELSE @]
        /\ change' = [x \in Setters |->
              IF x = w THEN [NoChange EXCEPT !.at = "close", !.old = fields.set]
              ELSE IF change[x].at \in {"build", "publish"} /\ Reads(x) # Reads(w)
              THEN [change[x] EXCEPT !.overtaken = TRUE] ELSE change[x]]
        /\ UNCHANGED <<verification, config, built, sets, user, life>>

CloseSuperseded(w) ==
    /\ change[w].at = "close"
    /\ sets' = [sets EXCEPT ![change[w].old] = "closed"]
    /\ change' = [change EXCEPT ![w] = NoChange]
    /\ UNCHANGED <<verification, config, fields, built, user, life>>

\* Transport.Close, by Session.Close of a session that is active or draining.
CloseTransports ==
    /\ change[SessionSetter].at = "idle" /\ life # "closed"
    /\ life' = "closed"
    /\ sets' = [sets EXCEPT ![fields.set] = "closed"]
    /\ UNCHANGED <<verification, config, fields, built, change, user>>

\* Only HTTP/2 drains: the others are closed, or idle, at once.
DrainTransports ==
    /\ change[SessionSetter].at = "idle" /\ life = "active"
    /\ life' = "draining"
    /\ sets' = [sets EXCEPT ![fields.set] = "draining"]
    /\ UNCHANGED <<verification, config, fields, built, change, user>>

-----------------------------------------------------------------------------
(* Requests.                                                                *)

\* Session.Request has seen the session active and released Session.mu.
StartUser(u) ==
    /\ user[u].at = "idle" /\ change[SessionSetter].at = "idle" /\ life = "active"
    /\ user' = [user EXCEPT ![u].at = "started"]
    /\ UNCHANGED <<verification, config, fields, built, sets, change, life>>

\* Do, and again each stage of doAuto.
TakeSnapshot(u) ==
    /\ user[u].at \in {"started", "snapped"}
    /\ user' = [user EXCEPT ![u] = [at |-> "snapped", snap |-> fields]]
    /\ UNCHANGED <<verification, config, fields, built, sets, change, life>>

\* The answer, or the error of a set that has been closed meanwhile.
EndUser(u) ==
    /\ user[u].at = "snapped"
    /\ user' = [user EXCEPT ![u] = NoUser]
    /\ UNCHANGED <<verification, config, fields, built, sets, change, life>>

SwapNext ==
    \/ \E p \in SwapProxies \cup {NoProxy} : SetUnifiedProxy(p) \/ SetTCPProxy(p) \/ SetUDPProxyOf(p)
    \/ \E w \in PresetCallers, preset \in SwapPresets : SetTransportPreset(w, preset)
    \/ \E w \in Setters : BuildTransports(w) \/ PublishTransports(w) \/ CloseSuperseded(w)
    \/ CloseTransports \/ DrainTransports
    \/ \E u \in SwapUsers : StartUser(u) \/ TakeSnapshot(u) \/ EndUser(u)

SwapSpec == SwapInit /\ [][SwapNext]_swapVars

-----------------------------------------------------------------------------
(* Properties.                                                              *)

\* What is said of a set of transports is how that set was built: the errors are those
\* of the proxy it was built for, an HTTP/3 transport that would dial past that proxy
\* comes with the error that blocks it, and the certificate checks are those of the
\* session.  The proxy and the preset are those it was built for, except the one that
\* another operation published while this set was under construction.
Matches(s) ==
    LET b == built[s.set]
        r == DeriveProxyRouting(b.proxy)
    IN  /\ s.tcpErr = r.tcpErr /\ (b.h3 = r.udp \/ s.h3Err) /\ b.verify = verification
        /\ s.mixed # "proxy" => b.proxy = s.proxy
        /\ s.mixed # "preset" => b.preset = s.preset

\* "a stable view (e.g. the proxy and its matching sub-transports)": it holds of
\* every snapshot, but for the one field that SetProxy and SetPreset have raced for,
\* and a set that has been replaced is closed or about to be, whichever of the two
\* replaced it (transport.go:953-1132, 1376-1413).
SwapSound ==
    /\ \A u \in SwapUsers : user[u].at = "snapped" => Matches(user[u].snap)
    /\ \A n \in Sets : \/ sets[n] = "closed" \/ n = fields.set
                       \/ \E w \in Setters : change[w].at # "idle" /\ n = change[w].old
=============================================================================
