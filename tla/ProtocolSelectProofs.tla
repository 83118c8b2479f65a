------------------------ MODULE ProtocolSelectProofs ------------------------
(***************************************************************************)
(* Theorems about ProtocolSelect, for any requests, hosts, proxies, presets*)
(* and settings that change meanwhile.  None of the run's properties is    *)
(* inductive: whether a request may be sent again depends on the path it   *)
(* came by.  The inductive invariant IInv says what each stage of doAuto   *)
(* and doStreamAuto still knows of the stages before it: the proxy it was  *)
(* dispatched with, whether anything was sent, where an HTTP/1.1 entry     *)
(* will have come from, and what the probes of a race have left behind.    *)
(***************************************************************************)
EXTENDS ProtocolSelect, FiniteSetTheorems, TLAPS

-----------------------------------------------------------------------------
(* The inductive invariant.                                                *)

\* A request that waits to be dispatched, or to race, has left no trace yet.
Unstarted ==
    \A r \in Requests :
        /\ pc[r] = "init" => direct[r] = {} /\ sentOn[r] = {}
        /\ pc[r] \in {"init", "auto", "lookup", "race"} => h2Probe[r] = "off" /\ r \notin late
        /\ pc[r] \in {"init", "auto", "lookup", "race", "racing"} => r \notin draining

\* The way a request goes behind a proxy that not every protocol can use: one
\* without HTTP/3 is never left for it, except by a stream whose HTTP/3 transport
\* could not be built, and a UDP-only one is never left for TCP.
NoH3Way(r) == via[r] = "http" \/ (via[r] = "quicNoH3" /\ r \notin Streaming)
RouteInv ==
    \A r \in Requests :
        /\ role[r] = "proxied" => NoH3Way(r)
        /\ Running(r) /\ NoH3Way(r) =>
              pc[r] \in {"h1", "h2", "handoff"} /\ role[r] \in {"forced", "proxied", "fallback"}
        /\ Running(r) /\ via[r] \in {"udponly", "udponlyNoH3"} =>
              pc[r] \in {"h3", "h3retry"} /\ role[r] = "forced"
        /\ Running(r) /\ via[r] = "udponlyNoH3" => r \in Streaming

\* The proxy in force is that of the dispatch or one set since.
ViaInv == \A r \in Requests : Running(r) => proxy = via[r] \/ proxy \in since[r]

\* Whatever will pin the host of r to HTTP/1.1 comes from ALPN or the preset.
Justified(r) == HostOf[r] \in downgraded \/ preset = "h1"
PinInv ==
    /\ PinnedH1Justified
    /\ \A r \in Requests :
          (\/ learned[r] = "h1" \/ pc[r] = "handoff" \/ r \in late
           \/ pc[r] = "h1" /\ role[r] = "first") => Justified(r)

\* A request that must not be repeated: not idempotent, or with a body that can
\* be read once, and not on Do's way behind a proxy without HTTP/3.
Once(r) == ~(r \in Idempotent \ OneShot) /\ ~(r \notin Streaming /\ via[r] \in {"http", "quicNoH3"})

\* It has not been sent as long as an attempt may follow.
SentInv ==
    \A r \in Requests : Once(r) =>
        /\ pc[r] \notin {"h3retry", "learn", "done"} => sentOn[r] = {}
        /\ pc[r] = "h3retry" => sentOn[r] \subseteq {"h3"}
        /\ \E v \in Versions : sentOn[r] \subseteq {v}

\* doAuto's snapshot has an HTTP/3 transport that is still there at the race.
SnapInv ==
    \A r \in Requests :
        /\ r \in snapH3 => pc[r] = "lookup"
        /\ (r \in snapH3 \/ pc[r] = "race") /\ r \notin overlapped => H3Available

\* What the probes of a race have left for its select.
ProbeInv ==
    \A r \in Requests :
        /\ h2Probe[r] = "running" => r \notin late /\ (pc[r] = "racing" \/ r \in draining)
        /\ pc[r] = "racing" =>
              /\ h3Probe[r] # "off" /\ h2Probe[r] # "off"
              /\ "connected" \in {h3Probe[r], h2Probe[r]} => winner[r] # "none"
              /\ h2Probe[r] = "downgraded" => r \in late

RaceInv == SnapInv /\ ProbeInv /\ DowngradedConnSettled /\ LateDowngradeOwned

IInv ==
    /\ TypeOK /\ Unstarted /\ RouteInv /\ ViaInv /\ ProxyHonoured /\ PinInv /\ SentInv
    /\ RaceInv

-----------------------------------------------------------------------------
(* Types.                                                                   *)

\* Every step keeps the types.
LEMMA TypeStep ==
  ASSUME ConstantsAssumption, TypeOK, [Next]_vars
  PROVE  TypeOK'
<1> USE DEF ConstantsAssumption, TypeOK, Versions, ProxyKinds, Goto, settings, raceVars,
    history, ProbeOnly, Dials, Wire, Carries
<1>1. ASSUME NEW r \in Requests, NEW scheme \in {"http", "https"}, Dispatch(r, scheme)
      PROVE  TypeOK'
  BY <1>1 DEF Dispatch, PlainRoute, DoRoute, StreamRoute, AutoRoute, TcpBlocked,
      H3ProxyError
<1>2. ASSUME NEW r \in Requests, AutoSnapshot(r) PROVE TypeOK'
  BY <1>2 DEF AutoSnapshot
<1>3. ASSUME NEW r \in Requests, AutoLookup(r) PROVE TypeOK'
  BY <1>3 DEF AutoLookup, NextAttempt, FirstAttempt
<1>4. ASSUME NEW r \in Requests, RaceStart(r) PROVE TypeOK'
  <2>1. CASE H3Available
    BY <1>4, <2>1 DEF RaceStart, Dials
  <2>2. CASE ~H3Available
    <3>1. panicked' = TRUE /\ UNCHANGED <<direct, h3Probe, h2Probe, pc>>
      BY <1>4, <2>2 DEF RaceStart
    <3> QED BY <1>4, <3>1 DEF RaceStart
  <2> QED BY <2>1, <2>2
<1>5. ASSUME NEW r \in Requests, RaceWon(r) PROVE TypeOK'
  BY <1>5 DEF RaceWon, EndRace, DrainLater
<1>6. ASSUME NEW r \in Requests, RaceDowngraded(r) PROVE TypeOK'
  BY <1>6 DEF RaceDowngraded, Downgrade, LeftInError, EndRace, DrainLater
<1>7. ASSUME NEW r \in Requests, RaceBothFailed(r) PROVE TypeOK'
  BY <1>7 DEF RaceBothFailed, RaceDefaults, EndRace, DrainLater
<1>8. ASSUME NEW r \in Requests, RaceBudget(r) PROVE TypeOK'
  BY <1>8 DEF RaceBudget, RaceDefaults, EndRace, DrainLater
<1>9. ASSUME NEW r \in Requests, RaceCancelled(r) PROVE TypeOK'
  BY <1>9 DEF RaceCancelled, Fallback, EndRace, DrainLater
<1>10. ASSUME NEW r \in Requests, NEW v \in Versions, AttemptAnswers(r, v) PROVE TypeOK'
  BY <1>10 DEF AttemptAnswers, Answer, Learns, Sent, Dials
<1>11. ASSUME NEW r \in Requests, NEW sent \in BOOLEAN, H1Fails(r, sent) PROVE TypeOK'
  BY <1>11 DEF H1Fails, Sent, Dials
<1>12. ASSUME NEW r \in Requests, NEW sent \in BOOLEAN, H3Stalls(r, sent) PROVE TypeOK'
  BY <1>12 DEF H3Stalls, Sent, Dials
<1>13. ASSUME NEW r \in Requests, NEW sent \in BOOLEAN, H3RetryFails(r, sent) PROVE TypeOK'
  BY <1>13 DEF H3RetryFails, Sent, Fallback
<1>14. ASSUME NEW r \in Requests, NEW sent \in BOOLEAN, HandoffFails(r, sent) PROVE TypeOK'
  BY <1>14 DEF HandoffFails, Sent
<1>15. ASSUME NEW r \in Requests, NEW v \in {"h2", "h3"}, NEW sent \in BOOLEAN, AttemptFails(r, v, sent)
       PROVE  TypeOK'
  BY <1>15 DEF AttemptFails, Sent, Dials, Fallback
<1>16. ASSUME NEW r \in Requests, H2Downgraded(r) PROVE TypeOK'
  BY <1>16 DEF H2Downgraded, Dials, Downgrade, LeftInError
<1>17. ASSUME NEW r \in Requests, H3Disabled(r) PROVE TypeOK'
  BY <1>17 DEF H3Disabled, Fallback
<1>18. ASSUME NEW r \in Requests, H3RetryAnswers(r) PROVE TypeOK'
  BY <1>18 DEF H3RetryAnswers, Sent, Answer, Learns
<1>19. ASSUME NEW r \in Requests, HandoffAnswers(r) PROVE TypeOK'
  BY <1>19 DEF HandoffAnswers, Sent, Answer, Learns
<1>20. ASSUME NEW r \in Requests, Learn(r) PROVE TypeOK'
  BY <1>20 DEF Learn
<1>21. ASSUME NEW r \in Requests, H3ProbeConnects(r) PROVE TypeOK'
  BY <1>21 DEF H3ProbeConnects, Heard, Win
<1>22. ASSUME NEW r \in Requests, H3ProbeFails(r) PROVE TypeOK'
  BY <1>22 DEF H3ProbeFails, Heard
<1>23. ASSUME NEW r \in Requests, H2ProbeConnects(r) PROVE TypeOK'
  BY <1>23 DEF H2ProbeConnects, Heard, Win
<1>24. ASSUME NEW r \in Requests, H2ProbeFails(r) PROVE TypeOK'
  BY <1>24 DEF H2ProbeFails, Heard
<1>25. ASSUME NEW r \in Requests, H2ProbeDowngraded(r) PROVE TypeOK'
  BY <1>25 DEF H2ProbeDowngraded, Heard
<1>26. ASSUME NEW r \in Requests, Drain(r) PROVE TypeOK'
  BY <1>26 DEF Drain
<1>27. ASSUME NEW new \in Proxies, SetProxy(new) PROVE TypeOK'
  BY <1>27 DEF SetProxy, Change
<1>28. ASSUME NEW new \in Versions \cup {"auto"}, RefreshWithProtocol(new) PROVE TypeOK'
  BY <1>28 DEF RefreshWithProtocol, Change
<1>29. ASSUME EnableHTTP3 PROVE TypeOK'
  <2>1. disableH3' \in BOOLEAN
    <3>1. disableH3' = FALSE
      BY <1>29 DEF EnableHTTP3
    <3> QED BY <3>1
  <2>4. ops' \in 0..MaxOps
    BY <1>29 DEF EnableHTTP3, Change
  <2>2. UNCHANGED <<panicked, pending, proxy, preset, protocol, protocolSupport, pc, role,
                   snapH3, held>>
    BY <1>29 DEF EnableHTTP3, Change
  <2>3. UNCHANGED <<learned, raceVars, via, sentOn, direct, since, downgraded>>
        /\ overlapped' \subseteq Requests
    BY <1>29 DEF EnableHTTP3, Change
  <2> QED BY <2>1, <2>2, <2>3, <2>4
<1>30. ASSUME DisableHTTP3 PROVE TypeOK'
  BY <1>30 DEF DisableHTTP3, Change
<1>31. ASSUME FinishOperation PROVE TypeOK'
  BY <1>31 DEF FinishOperation
<1>32. CASE UNCHANGED vars
  BY <1>32 DEF vars
<1> QED BY SMTT(40), <1>1, <1>2, <1>3, <1>4, <1>5, <1>6, <1>7, <1>8, <1>9, <1>10, <1>11, <1>12, <1>13,
    <1>14, <1>15, <1>16, <1>17, <1>18, <1>19, <1>20, <1>21, <1>22, <1>23, <1>24, <1>25,
    <1>26, <1>27, <1>28, <1>29, <1>30, <1>31, <1>32 DEF Next, Caller, Attempt, RaceResolves,
    Probe, Setting

-----------------------------------------------------------------------------
(* Proxies.                                                                 *)

\* The types that the proofs below need.
Typed ==
    /\ pc \in [Requests -> {"init", "auto", "lookup", "race", "racing", "h1", "h2", "h3",
                            "h3retry", "handoff", "learn", "done"}]
    /\ role \in [Requests -> {"forced", "proxied", "known", "first", "fallback"}]
    /\ via \in [Requests -> ProxyKinds] /\ sentOn \in [Requests -> SUBSET Versions]
    /\ direct \in [Requests -> SUBSET {"tcp", "udp"}]
    /\ since \in [Requests -> SUBSET Proxies]
    /\ learned \in [Requests -> Versions \cup {"unknown"}]
    /\ winner \in [Requests -> {"none", "h2", "h3"}]
    /\ h3Probe \in [Requests -> {"off", "running", "connected", "failed"}]
    /\ h2Probe \in [Requests -> {"off", "running", "connected", "failed", "downgraded"}]
    /\ proxy \in ProxyKinds /\ protocol \in Versions \cup {"auto"}
    /\ HostOf \in [Requests -> Hosts]
    /\ protocolSupport \in [Hosts -> Versions \cup {"unknown"}]

\* A request leaves traces only after its dispatch, and probes only in a race.
LEMMA UnstartedStep ==
  ASSUME ConstantsAssumption, TypeOK, Unstarted, [Next]_vars
  PROVE  Unstarted'
<1>a. Typed
  BY DEF TypeOK, ConstantsAssumption, Typed
<1> USE <1>a DEF Typed, Unstarted, Versions, Goto, settings, raceVars, history, ProbeOnly
<1>1. ASSUME NEW r \in Requests, NEW scheme \in {"http", "https"}, Dispatch(r, scheme)
      PROVE  Unstarted'
  BY <1>1 DEF Dispatch, PlainRoute, DoRoute, StreamRoute, AutoRoute, TcpBlocked,
      H3ProxyError
<1>2. ASSUME NEW r \in Requests, AutoSnapshot(r) PROVE Unstarted'
  BY <1>2 DEF AutoSnapshot
<1>3. ASSUME NEW r \in Requests, AutoLookup(r) PROVE Unstarted'
  BY <1>3 DEF AutoLookup, NextAttempt, FirstAttempt
<1>4. ASSUME NEW r \in Requests, RaceStart(r) PROVE Unstarted'
  BY <1>4 DEF RaceStart, Dials
<1>5. ASSUME NEW r \in Requests, RaceWon(r) PROVE Unstarted'
  BY <1>5 DEF RaceWon, EndRace, DrainLater
<1>6. ASSUME NEW r \in Requests, RaceDowngraded(r) PROVE Unstarted'
  BY <1>6 DEF RaceDowngraded, Downgrade, LeftInError, EndRace, DrainLater
<1>7. ASSUME NEW r \in Requests, RaceBothFailed(r) PROVE Unstarted'
  BY <1>7 DEF RaceBothFailed, RaceDefaults, EndRace, DrainLater
<1>8. ASSUME NEW r \in Requests, RaceBudget(r) PROVE Unstarted'
  BY <1>8 DEF RaceBudget, RaceDefaults, EndRace, DrainLater
<1>9. ASSUME NEW r \in Requests, RaceCancelled(r) PROVE Unstarted'
  BY <1>9 DEF RaceCancelled, Fallback, EndRace, DrainLater, FallsBack, CanResend
<1>10. ASSUME NEW r \in Requests, NEW v \in Versions, AttemptAnswers(r, v) PROVE Unstarted'
  BY <1>10 DEF AttemptAnswers, Answer, Learns, Sent, Dials
<1>11. ASSUME NEW r \in Requests, NEW sent \in BOOLEAN, H1Fails(r, sent) PROVE Unstarted'
  BY <1>11 DEF H1Fails, Sent, Dials
<1>12. ASSUME NEW r \in Requests, NEW sent \in BOOLEAN, H3Stalls(r, sent) PROVE Unstarted'
  BY <1>12 DEF H3Stalls, Sent, Dials
<1>13. ASSUME NEW r \in Requests, NEW sent \in BOOLEAN, H3RetryFails(r, sent) PROVE Unstarted'
  BY <1>13 DEF H3RetryFails, Sent, Fallback, FallsBack, CanResend
<1>14. ASSUME NEW r \in Requests, NEW sent \in BOOLEAN, HandoffFails(r, sent) PROVE Unstarted'
  BY <1>14 DEF HandoffFails, Sent
<1>15. ASSUME NEW r \in Requests, NEW v \in {"h2", "h3"}, NEW sent \in BOOLEAN, AttemptFails(r, v, sent)
       PROVE  Unstarted'
  BY <1>15 DEF AttemptFails, Sent, Dials, Fallback, FallsBack, CanResend
<1>16. ASSUME NEW r \in Requests, H2Downgraded(r) PROVE Unstarted'
  BY <1>16 DEF H2Downgraded, Dials, Downgrade, LeftInError
<1>17. ASSUME NEW r \in Requests, H3Disabled(r) PROVE Unstarted'
  BY <1>17 DEF H3Disabled, Fallback, FallsBack, CanResend
<1>18. ASSUME NEW r \in Requests, H3RetryAnswers(r) PROVE Unstarted'
  BY <1>18 DEF H3RetryAnswers, Sent, Answer, Learns
<1>19. ASSUME NEW r \in Requests, HandoffAnswers(r) PROVE Unstarted'
  BY <1>19 DEF HandoffAnswers, Sent, Answer, Learns
<1>20. ASSUME NEW r \in Requests, Learn(r) PROVE Unstarted'
  BY <1>20 DEF Learn
<1>21. ASSUME NEW r \in Requests, H3ProbeConnects(r) PROVE Unstarted'
  BY <1>21 DEF H3ProbeConnects, Heard, Win
<1>22. ASSUME NEW r \in Requests, H3ProbeFails(r) PROVE Unstarted'
  BY <1>22 DEF H3ProbeFails, Heard
<1>23. ASSUME NEW r \in Requests, H2ProbeConnects(r) PROVE Unstarted'
  BY <1>23 DEF H2ProbeConnects, Heard, Win
<1>24. ASSUME NEW r \in Requests, H2ProbeFails(r) PROVE Unstarted'
  BY <1>24 DEF H2ProbeFails, Heard
<1>25. ASSUME NEW r \in Requests, H2ProbeDowngraded(r) PROVE Unstarted'
  BY <1>25 DEF H2ProbeDowngraded, Heard
<1>26. ASSUME NEW r \in Requests, Drain(r) PROVE Unstarted'
  BY <1>26 DEF Drain
<1>27. ASSUME NEW new \in Proxies, SetProxy(new) PROVE Unstarted'
  BY <1>27 DEF SetProxy, Change
<1>28. ASSUME NEW new \in Versions \cup {"auto"}, RefreshWithProtocol(new) PROVE Unstarted'
  BY <1>28 DEF RefreshWithProtocol, Change
<1>29. ASSUME EnableHTTP3 PROVE Unstarted'
  BY <1>29 DEF EnableHTTP3, Change
<1>30. ASSUME DisableHTTP3 PROVE Unstarted'
  BY <1>30 DEF DisableHTTP3, Change
<1>31. ASSUME FinishOperation PROVE Unstarted'
  BY <1>31 DEF FinishOperation
<1>32. CASE UNCHANGED vars
  BY <1>32 DEF vars
<1> HIDE DEF Unstarted, Versions
<1> QED BY <1>1, <1>2, <1>3, <1>4, <1>5, <1>6, <1>7, <1>8, <1>9, <1>10, <1>11, <1>12, <1>13,
    <1>14, <1>15, <1>16, <1>17, <1>18, <1>19, <1>20, <1>21, <1>22, <1>23, <1>24, <1>25,
    <1>26, <1>27, <1>28, <1>29, <1>30, <1>31, <1>32 DEF Next, Caller, Attempt, RaceResolves,
    Probe, Setting

\* A request keeps to the protocols that its proxy can carry.
LEMMA RouteStep ==
  ASSUME ConstantsAssumption, TypeOK, RouteInv, [Next]_vars
  PROVE  RouteInv'
<1>a. Typed
  BY DEF TypeOK, ConstantsAssumption, Typed
<1> USE <1>a DEF Typed, RouteInv, NoH3Way, Running, Versions, ProxyKinds, Goto, settings, raceVars,
    history, ProbeOnly
<1>1. ASSUME NEW r \in Requests, NEW scheme \in {"http", "https"}, Dispatch(r, scheme)
      PROVE  RouteInv'
  BY <1>1 DEF Dispatch, PlainRoute, DoRoute, StreamRoute, AutoRoute, TcpBlocked,
      H3ProxyError, ProxyChose
<1>2. ASSUME NEW r \in Requests, AutoSnapshot(r) PROVE RouteInv'
  BY <1>2 DEF AutoSnapshot
<1>3. ASSUME NEW r \in Requests, AutoLookup(r) PROVE RouteInv'
  BY <1>3 DEF AutoLookup, NextAttempt, FirstAttempt
<1>4. ASSUME NEW r \in Requests, RaceStart(r) PROVE RouteInv'
  BY <1>4 DEF RaceStart, Dials
<1>5. ASSUME NEW r \in Requests, RaceWon(r) PROVE RouteInv'
  BY <1>5 DEF RaceWon, EndRace, DrainLater
<1>6. ASSUME NEW r \in Requests, RaceDowngraded(r) PROVE RouteInv'
  BY <1>6 DEF RaceDowngraded, Downgrade, LeftInError, EndRace, DrainLater
<1>7. ASSUME NEW r \in Requests, RaceBothFailed(r) PROVE RouteInv'
  BY <1>7 DEF RaceBothFailed, RaceDefaults, EndRace, DrainLater
<1>8. ASSUME NEW r \in Requests, RaceBudget(r) PROVE RouteInv'
  BY <1>8 DEF RaceBudget, RaceDefaults, EndRace, DrainLater
<1>9. ASSUME NEW r \in Requests, RaceCancelled(r) PROVE RouteInv'
  BY <1>9 DEF RaceCancelled, Fallback, EndRace, DrainLater, FallsBack, CanResend
<1>10. ASSUME NEW r \in Requests, NEW v \in Versions, AttemptAnswers(r, v) PROVE RouteInv'
  BY <1>10 DEF AttemptAnswers, Answer, Learns, Sent, Dials
<1>11. ASSUME NEW r \in Requests, NEW sent \in BOOLEAN, H1Fails(r, sent) PROVE RouteInv'
  BY <1>11 DEF H1Fails, Sent, Dials
<1>12. ASSUME NEW r \in Requests, NEW sent \in BOOLEAN, H3Stalls(r, sent) PROVE RouteInv'
  BY <1>12 DEF H3Stalls, Sent, Dials
<1>13. ASSUME NEW r \in Requests, NEW sent \in BOOLEAN, H3RetryFails(r, sent) PROVE RouteInv'
  BY <1>13 DEF H3RetryFails, Sent, Fallback, FallsBack, CanResend
<1>14. ASSUME NEW r \in Requests, NEW sent \in BOOLEAN, HandoffFails(r, sent) PROVE RouteInv'
  BY <1>14 DEF HandoffFails, Sent
<1>15. ASSUME NEW r \in Requests, NEW v \in {"h2", "h3"}, NEW sent \in BOOLEAN, AttemptFails(r, v, sent)
       PROVE  RouteInv'
  BY <1>15 DEF AttemptFails, Sent, Dials, Fallback, FallsBack, CanResend
<1>16. ASSUME NEW r \in Requests, H2Downgraded(r) PROVE RouteInv'
  BY <1>16 DEF H2Downgraded, Dials, Downgrade, LeftInError
<1>17. ASSUME NEW r \in Requests, H3Disabled(r) PROVE RouteInv'
  BY <1>17 DEF H3Disabled, Fallback, FallsBack, CanResend
<1>18. ASSUME NEW r \in Requests, H3RetryAnswers(r) PROVE RouteInv'
  BY <1>18 DEF H3RetryAnswers, Sent, Answer, Learns
<1>19. ASSUME NEW r \in Requests, HandoffAnswers(r) PROVE RouteInv'
  BY <1>19 DEF HandoffAnswers, Sent, Answer, Learns
<1>20. ASSUME NEW r \in Requests, Learn(r) PROVE RouteInv'
  BY <1>20 DEF Learn
<1>21. ASSUME NEW r \in Requests, H3ProbeConnects(r) PROVE RouteInv'
  BY <1>21 DEF H3ProbeConnects, Heard, Win
<1>22. ASSUME NEW r \in Requests, H3ProbeFails(r) PROVE RouteInv'
  BY <1>22 DEF H3ProbeFails, Heard
<1>23. ASSUME NEW r \in Requests, H2ProbeConnects(r) PROVE RouteInv'
  BY <1>23 DEF H2ProbeConnects, Heard, Win
<1>24. ASSUME NEW r \in Requests, H2ProbeFails(r) PROVE RouteInv'
  BY <1>24 DEF H2ProbeFails, Heard
<1>25. ASSUME NEW r \in Requests, H2ProbeDowngraded(r) PROVE RouteInv'
  BY <1>25 DEF H2ProbeDowngraded, Heard
<1>26. ASSUME NEW r \in Requests, Drain(r) PROVE RouteInv'
  BY <1>26 DEF Drain
<1>27. ASSUME NEW new \in Proxies, SetProxy(new) PROVE RouteInv'
  BY <1>27 DEF SetProxy, Change
<1>28. ASSUME NEW new \in Versions \cup {"auto"}, RefreshWithProtocol(new) PROVE RouteInv'
  BY <1>28 DEF RefreshWithProtocol, Change
<1>29. ASSUME EnableHTTP3 PROVE RouteInv'
  BY <1>29 DEF EnableHTTP3, Change
<1>30. ASSUME DisableHTTP3 PROVE RouteInv'
  BY <1>30 DEF DisableHTTP3, Change
<1>31. ASSUME FinishOperation PROVE RouteInv'
  BY <1>31 DEF FinishOperation
<1>32. CASE UNCHANGED vars
  BY <1>32 DEF vars
<1> HIDE DEF RouteInv, NoH3Way, Running, Versions, ProxyKinds
<1> QED BY <1>1, <1>2, <1>3, <1>4, <1>5, <1>6, <1>7, <1>8, <1>9, <1>10, <1>11, <1>12, <1>13,
    <1>14, <1>15, <1>16, <1>17, <1>18, <1>19, <1>20, <1>21, <1>22, <1>23, <1>24, <1>25,
    <1>26, <1>27, <1>28, <1>29, <1>30, <1>31, <1>32 DEF Next, Caller, Attempt, RaceResolves,
    Probe, Setting

\* The proxy in force is the one of the dispatch until SetProxy notes another.
LEMMA ViaStep ==
  ASSUME ConstantsAssumption, TypeOK, ViaInv, [Next]_vars
  PROVE  ViaInv'
<1>a. Typed
  BY DEF TypeOK, ConstantsAssumption, Typed
<1> USE <1>a DEF Typed, ViaInv, Running, Versions, ProxyKinds, Goto, settings, raceVars,
    history, ProbeOnly
<1>1. ASSUME NEW r \in Requests, NEW scheme \in {"http", "https"}, Dispatch(r, scheme)
      PROVE  ViaInv'
  BY <1>1 DEF Dispatch, PlainRoute, DoRoute, StreamRoute, AutoRoute, TcpBlocked,
      H3ProxyError
<1>2. ASSUME NEW r \in Requests, AutoSnapshot(r) PROVE ViaInv'
  BY <1>2 DEF AutoSnapshot
<1>3. ASSUME NEW r \in Requests, AutoLookup(r) PROVE ViaInv'
  BY <1>3 DEF AutoLookup, NextAttempt, FirstAttempt
<1>4. ASSUME NEW r \in Requests, RaceStart(r) PROVE ViaInv'
  BY <1>4 DEF RaceStart, Dials
<1>5. ASSUME NEW r \in Requests, RaceWon(r) PROVE ViaInv'
  BY <1>5 DEF RaceWon, EndRace, DrainLater
<1>6. ASSUME NEW r \in Requests, RaceDowngraded(r) PROVE ViaInv'
  BY <1>6 DEF RaceDowngraded, Downgrade, LeftInError, EndRace, DrainLater
<1>7. ASSUME NEW r \in Requests, RaceBothFailed(r) PROVE ViaInv'
  BY <1>7 DEF RaceBothFailed, RaceDefaults, EndRace, DrainLater
<1>8. ASSUME NEW r \in Requests, RaceBudget(r) PROVE ViaInv'
  BY <1>8 DEF RaceBudget, RaceDefaults, EndRace, DrainLater
<1>9. ASSUME NEW r \in Requests, RaceCancelled(r) PROVE ViaInv'
  BY ZenonT(60), <1>9 DEF RaceCancelled, Fallback, EndRace, DrainLater
<1>10. ASSUME NEW r \in Requests, NEW v \in Versions, AttemptAnswers(r, v) PROVE ViaInv'
  BY <1>10 DEF AttemptAnswers, Answer, Learns, Sent, Dials
<1>11. ASSUME NEW r \in Requests, NEW sent \in BOOLEAN, H1Fails(r, sent) PROVE ViaInv'
  BY <1>11 DEF H1Fails, Sent, Dials
<1>12. ASSUME NEW r \in Requests, NEW sent \in BOOLEAN, H3Stalls(r, sent) PROVE ViaInv'
  BY <1>12 DEF H3Stalls, Sent, Dials
<1>13. ASSUME NEW r \in Requests, NEW sent \in BOOLEAN, H3RetryFails(r, sent) PROVE ViaInv'
  BY <1>13 DEF H3RetryFails, Sent, Fallback
<1>14. ASSUME NEW r \in Requests, NEW sent \in BOOLEAN, HandoffFails(r, sent) PROVE ViaInv'
  BY <1>14 DEF HandoffFails, Sent
<1>15. ASSUME NEW r \in Requests, NEW v \in {"h2", "h3"}, NEW sent \in BOOLEAN, AttemptFails(r, v, sent)
       PROVE  ViaInv'
  BY <1>15 DEF AttemptFails, Sent, Dials, Fallback
<1>16. ASSUME NEW r \in Requests, H2Downgraded(r) PROVE ViaInv'
  BY <1>16 DEF H2Downgraded, Dials, Downgrade, LeftInError
<1>17. ASSUME NEW r \in Requests, H3Disabled(r) PROVE ViaInv'
  BY ZenonT(60), <1>17 DEF H3Disabled, Fallback
<1>18. ASSUME NEW r \in Requests, H3RetryAnswers(r) PROVE ViaInv'
  BY <1>18 DEF H3RetryAnswers, Sent, Answer, Learns
<1>19. ASSUME NEW r \in Requests, HandoffAnswers(r) PROVE ViaInv'
  BY <1>19 DEF HandoffAnswers, Sent, Answer, Learns
<1>20. ASSUME NEW r \in Requests, Learn(r) PROVE ViaInv'
  BY <1>20 DEF Learn
<1>21. ASSUME NEW r \in Requests, H3ProbeConnects(r) PROVE ViaInv'
  BY <1>21 DEF H3ProbeConnects, Heard, Win
<1>22. ASSUME NEW r \in Requests, H3ProbeFails(r) PROVE ViaInv'
  BY <1>22 DEF H3ProbeFails, Heard
<1>23. ASSUME NEW r \in Requests, H2ProbeConnects(r) PROVE ViaInv'
  BY <1>23 DEF H2ProbeConnects, Heard, Win
<1>24. ASSUME NEW r \in Requests, H2ProbeFails(r) PROVE ViaInv'
  BY <1>24 DEF H2ProbeFails, Heard
<1>25. ASSUME NEW r \in Requests, H2ProbeDowngraded(r) PROVE ViaInv'
  BY <1>25 DEF H2ProbeDowngraded, Heard
<1>26. ASSUME NEW r \in Requests, Drain(r) PROVE ViaInv'
  BY <1>26 DEF Drain
<1>27. ASSUME NEW new \in Proxies, SetProxy(new) PROVE ViaInv'
  BY <1>27 DEF SetProxy, Change
<1>28. ASSUME NEW new \in Versions \cup {"auto"}, RefreshWithProtocol(new) PROVE ViaInv'
  BY <1>28 DEF RefreshWithProtocol, Change
<1>29. ASSUME EnableHTTP3 PROVE ViaInv'
  BY <1>29 DEF EnableHTTP3, Change
<1>30. ASSUME DisableHTTP3 PROVE ViaInv'
  BY <1>30 DEF DisableHTTP3, Change
<1>31. ASSUME FinishOperation PROVE ViaInv'
  BY <1>31 DEF FinishOperation
<1>32. CASE UNCHANGED vars
  BY <1>32 DEF vars
<1> HIDE DEF ViaInv, Running, Versions, ProxyKinds
<1> QED BY <1>1, <1>2, <1>3, <1>4, <1>5, <1>6, <1>7, <1>8, <1>9, <1>10, <1>11, <1>12, <1>13,
    <1>14, <1>15, <1>16, <1>17, <1>18, <1>19, <1>20, <1>21, <1>22, <1>23, <1>24, <1>25,
    <1>26, <1>27, <1>28, <1>29, <1>30, <1>31, <1>32 DEF Next, Caller, Attempt, RaceResolves,
    Probe, Setting

\* What a stage dials directly is not carried by the proxy in force.  If that is
\* still the proxy of the dispatch, the stage is one that the proxy carries.
LEMMA DialHonoured ==
  ASSUME ConstantsAssumption, TypeOK, RouteInv, ViaInv, ProxyHonoured,
         NEW r \in Requests, NEW versions \in SUBSET Versions, Dials(r, versions),
         UNCHANGED <<via, since>>, Running(r),
         versions = {pc[r]} \/ pc[r] = "race"
  PROVE  ProxyHonoured'
<1>1. /\ \A q \in Requests : q # r => direct'[q] = direct[q]
      /\ direct'[r] = direct[r] \cup ({Wire(v) : v \in versions} \ Carries(proxy))
  BY DEF Dials, TypeOK
<1>2. ASSUME NEW v \in versions, Wire(v) \notin Carries(proxy)
      PROVE  \/ via[r] = "none"
             \/ \E kind \in since[r] : Wire(v) \notin Carries(kind)
             \/ Wire(v) = "udp" /\ r \in Streaming /\ via[r] \in {"quicNoH3", "udponlyNoH3"}
  <2>1. CASE proxy \in since[r]
    BY <1>2, <2>1
  <2>2. CASE proxy = via[r]
    <3>1. via[r] \in ProxyKinds /\ v \in Versions
      BY DEF TypeOK
    <3>2. CASE NoH3Way(r)
      <4>1. pc[r] \in {"h1", "h2", "handoff"}
        BY <3>2 DEF RouteInv
      <4>2. v = pc[r]
        BY <4>1
      <4>3. Wire(v) = "tcp" /\ Carries(proxy) = {"tcp"}
        BY <2>2, <3>2, <4>1, <4>2 DEF NoH3Way, Wire, Carries
      <4> QED BY <1>2, <4>3
    <3>3. CASE via[r] \in {"udponly", "udponlyNoH3"}
      <4>1. pc[r] \in {"h3", "h3retry"} /\ (via[r] = "udponlyNoH3" => r \in Streaming)
        BY <3>3 DEF RouteInv
      <4>2. v = "h3"
        BY <4>1, <3>1 DEF Versions
      <4> QED BY <1>2, <2>2, <3>3, <4>1, <4>2 DEF Wire, Carries
    <3>4. CASE via[r] = "quicNoH3" /\ r \in Streaming
      BY <1>2, <2>2, <3>4 DEF Wire, Carries
    <3>5. CASE via[r] \in {"quic", "none"}
      BY <1>2, <2>2, <3>5 DEF Wire, Carries
    <3> QED BY <3>1, <3>2, <3>3, <3>4, <3>5 DEF ProxyKinds, NoH3Way
  <2> QED BY <2>1, <2>2 DEF ViaInv
<1>3. ASSUME NEW q \in Requests, NEW w \in direct'[q]
      PROVE  \/ via[q] = "none"
             \/ \E kind \in since[q] : w \notin Carries(kind)
             \/ w = "udp" /\ q \in Streaming /\ via[q] \in {"quicNoH3", "udponlyNoH3"}
  <2>1. CASE w \in direct[q]
    BY <2>1 DEF ProxyHonoured
  <2>2. CASE w \notin direct[q]
    <3>1. q = r /\ \E v \in versions : w = Wire(v) /\ Wire(v) \notin Carries(proxy)
      BY <1>1, <1>3, <2>2
    <3> QED BY <3>1, <1>2
  <2> QED BY <2>1, <2>2
<1> QED BY <1>3 DEF ProxyHonoured

\* No attempt and no probe dials past a proxy that carries it.
LEMMA HonouredStep ==
  ASSUME ConstantsAssumption, TypeOK, Unstarted, RouteInv, ViaInv, ProxyHonoured, [Next]_vars
  PROVE  ProxyHonoured'
<1>a. Typed
  BY DEF TypeOK, ConstantsAssumption, Typed
<1>b. ASSUME UNCHANGED <<via, direct, since>> PROVE ProxyHonoured'
  BY <1>b DEF ProxyHonoured
<1>1. ASSUME NEW r \in Requests, NEW scheme \in {"http", "https"}, Dispatch(r, scheme)
      PROVE  ProxyHonoured'
  <2>1. UNCHANGED <<direct, since>> /\ direct[r] = {} /\ \A q \in Requests : q # r => via'[q] = via[q]
    BY <1>1, <1>a DEF Dispatch, Unstarted, Typed
  <2> QED BY <2>1 DEF ProxyHonoured
<1>2. ASSUME NEW new \in Proxies, SetProxy(new) PROVE ProxyHonoured'
  <2>1. UNCHANGED <<via, direct>> /\ \A q \in Requests : since[q] \subseteq since'[q]
    BY <1>2, <1>a DEF SetProxy, Change, Typed
  <2> QED BY <2>1 DEF ProxyHonoured
<1>3. ASSUME NEW r \in Requests, RaceStart(r) PROVE ProxyHonoured'
  <2>1. UNCHANGED <<via, since>> /\ pc[r] = "race"
    BY <1>3 DEF RaceStart
  <2>2. CASE H3Available
    <3>1. Dials(r, {"h2", "h3"}) /\ {"h2", "h3"} \in SUBSET Versions
      BY <1>3, <2>2 DEF RaceStart, Versions
    <3> QED BY <2>1, <3>1, DialHonoured DEF Running
  <2>3. CASE ~H3Available
    BY <1>3, <1>b, <2>1, <2>3 DEF RaceStart
  <2> QED BY <2>2, <2>3
<1>4. ASSUME NEW r \in Requests, NEW v \in Versions, pc[r] = v, Dials(r, {v}),
             UNCHANGED <<via, since>>
      PROVE  ProxyHonoured'
  <2>1. Running(r) /\ {v} \in SUBSET Versions
    BY <1>4 DEF Running, Versions
  <2> QED BY <1>4, <2>1, DialHonoured
<1>5. ASSUME NEW r \in Requests, Attempt(r) PROVE ProxyHonoured'
  <2> USE DEF Versions, settings, raceVars, history
  <2>1. ASSUME NEW v \in Versions, AttemptAnswers(r, v) PROVE ProxyHonoured'
    BY <1>4, <2>1 DEF AttemptAnswers
  <2>2. ASSUME NEW sent \in BOOLEAN, H1Fails(r, sent) PROVE ProxyHonoured'
    BY <1>4, <2>2 DEF H1Fails
  <2>3. ASSUME NEW sent \in BOOLEAN, H3Stalls(r, sent) PROVE ProxyHonoured'
    BY <1>4, <2>3 DEF H3Stalls
  <2>4. ASSUME NEW v \in {"h2", "h3"}, NEW sent \in BOOLEAN, AttemptFails(r, v, sent)
        PROVE  ProxyHonoured'
    BY <1>4, <2>4 DEF AttemptFails
  <2>5. ASSUME H2Downgraded(r) PROVE ProxyHonoured'
    BY <1>4, <2>5 DEF H2Downgraded
  <2>6. ASSUME NEW sent \in BOOLEAN, H3RetryFails(r, sent) \/ HandoffFails(r, sent)
        PROVE  ProxyHonoured'
    BY <1>b, <2>6 DEF H3RetryFails, HandoffFails
  <2>7. ASSUME H3Disabled(r) \/ H3RetryAnswers(r) \/ HandoffAnswers(r) PROVE ProxyHonoured'
    BY <1>b, <2>7 DEF H3Disabled, H3RetryAnswers, HandoffAnswers
  <2> HIDE DEF Versions
  <2> QED BY <1>5, <2>1, <2>2, <2>3, <2>4, <2>5, <2>6, <2>7 DEF Attempt
<1>6. ASSUME NEW r \in Requests,
             \/ AutoSnapshot(r) \/ AutoLookup(r) \/ RaceWon(r) \/ RaceDowngraded(r)
             \/ RaceBothFailed(r) \/ RaceBudget(r) \/ RaceCancelled(r) \/ Learn(r)
             \/ Probe(r) \/ Drain(r)
      PROVE  ProxyHonoured'
  <2>1. UNCHANGED <<via, direct, since>>
    BY <1>6 DEF AutoSnapshot, AutoLookup, RaceWon, RaceDowngraded, RaceBothFailed, RaceBudget,
       RaceDefaults, RaceCancelled, EndRace, Learn, Probe, Drain, H3ProbeConnects,
       H3ProbeFails, H2ProbeConnects, H2ProbeFails, H2ProbeDowngraded, ProbeOnly, history
  <2> QED BY <1>b, <2>1
<1>7. ASSUME NEW new \in Versions \cup {"auto"}, RefreshWithProtocol(new) PROVE ProxyHonoured'
  BY <1>b, <1>7 DEF RefreshWithProtocol, Change
<1>8. ASSUME EnableHTTP3 \/ DisableHTTP3 \/ FinishOperation PROVE ProxyHonoured'
  BY <1>b, <1>8 DEF EnableHTTP3, DisableHTTP3, FinishOperation, Change, history
<1>9. CASE UNCHANGED vars
  BY <1>b, <1>9 DEF vars, history
<1> QED BY <1>1, <1>2, <1>3, <1>5, <1>6, <1>7, <1>8, <1>9 DEF Next, Caller, RaceResolves,
    Setting

-----------------------------------------------------------------------------
(* What is learned of a host, and what is sent.                             *)

\* An HTTP/1.1 entry has its reason before it is made.
LEMMA PinStep ==
  ASSUME ConstantsAssumption, TypeOK, PinInv, [Next]_vars
  PROVE  PinInv'
<1>a. Typed
  BY DEF TypeOK, ConstantsAssumption, Typed
<1> USE <1>a DEF Typed, PinInv, PinnedH1Justified, Justified, Versions, ProxyKinds, Goto,
    settings, raceVars, history, ProbeOnly
<1>1. ASSUME NEW r \in Requests, NEW scheme \in {"http", "https"}, Dispatch(r, scheme)
      PROVE  PinInv'
  BY <1>1 DEF Dispatch, PlainRoute, DoRoute, StreamRoute, AutoRoute, TcpBlocked,
      H3ProxyError
<1>2. ASSUME NEW r \in Requests, AutoSnapshot(r) PROVE PinInv'
  BY <1>2 DEF AutoSnapshot
<1>3. ASSUME NEW r \in Requests, AutoLookup(r) PROVE PinInv'
  BY <1>3 DEF AutoLookup, NextAttempt, FirstAttempt
<1>4. ASSUME NEW r \in Requests, RaceStart(r) PROVE PinInv'
  BY <1>4 DEF RaceStart, Dials
<1>5. ASSUME NEW r \in Requests, RaceWon(r) PROVE PinInv'
  BY <1>5 DEF RaceWon, EndRace, DrainLater
<1>6. ASSUME NEW r \in Requests, RaceDowngraded(r) PROVE PinInv'
  <2>1. /\ UNCHANGED <<protocolSupport, downgraded, preset, learned, role>>
        /\ late' \subseteq late /\ Justified(r)
    BY <1>6 DEF RaceDowngraded, EndRace
  <2>2. \A q \in Requests : q # r => pc'[q] = pc[q]
    BY <1>6 DEF RaceDowngraded, Downgrade, LeftInError
  <2> QED BY <2>1, <2>2
<1>7. ASSUME NEW r \in Requests, RaceBothFailed(r) PROVE PinInv'
  BY <1>7 DEF RaceBothFailed, RaceDefaults, EndRace, DrainLater
<1>8. ASSUME NEW r \in Requests, RaceBudget(r) PROVE PinInv'
  BY <1>8 DEF RaceBudget, RaceDefaults, EndRace, DrainLater
<1>9. ASSUME NEW r \in Requests, RaceCancelled(r) PROVE PinInv'
  BY <1>9 DEF RaceCancelled, Fallback, EndRace, DrainLater, FallsBack, CanResend
<1>10. ASSUME NEW r \in Requests, NEW v \in Versions, AttemptAnswers(r, v) PROVE PinInv'
  BY <1>10 DEF AttemptAnswers, Answer, Learns, Sent, Dials
<1>11. ASSUME NEW r \in Requests, NEW sent \in BOOLEAN, H1Fails(r, sent) PROVE PinInv'
  BY <1>11 DEF H1Fails, Sent, Dials
<1>12. ASSUME NEW r \in Requests, NEW sent \in BOOLEAN, H3Stalls(r, sent) PROVE PinInv'
  BY <1>12 DEF H3Stalls, Sent, Dials
<1>13. ASSUME NEW r \in Requests, NEW sent \in BOOLEAN, H3RetryFails(r, sent) PROVE PinInv'
  BY <1>13 DEF H3RetryFails, Sent, Fallback, FallsBack, CanResend
<1>14. ASSUME NEW r \in Requests, NEW sent \in BOOLEAN, HandoffFails(r, sent) PROVE PinInv'
  BY <1>14 DEF HandoffFails, Sent
<1>15. ASSUME NEW r \in Requests, NEW v \in {"h2", "h3"}, NEW sent \in BOOLEAN, AttemptFails(r, v, sent)
       PROVE  PinInv'
  BY <1>15 DEF AttemptFails, Sent, Dials, Fallback, FallsBack, CanResend
<1>16. ASSUME NEW r \in Requests, H2Downgraded(r) PROVE PinInv'
  BY <1>16 DEF H2Downgraded, Dials, Downgrade, LeftInError
<1>17. ASSUME NEW r \in Requests, H3Disabled(r) PROVE PinInv'
  BY <1>17 DEF H3Disabled, Fallback, FallsBack, CanResend
<1>18. ASSUME NEW r \in Requests, H3RetryAnswers(r) PROVE PinInv'
  BY <1>18 DEF H3RetryAnswers, Sent, Answer, Learns
<1>19. ASSUME NEW r \in Requests, HandoffAnswers(r) PROVE PinInv'
  BY <1>19 DEF HandoffAnswers, Sent, Answer, Learns
<1>20. ASSUME NEW r \in Requests, Learn(r) PROVE PinInv'
  <2>1. /\ UNCHANGED <<downgraded, preset, late, role>> /\ (learned[r] = "h1" => Justified(r))
        /\ \A q \in Requests : learned'[q] \in {learned[q], "unknown"}
        /\ \A q \in Requests : pc'[q] \in {pc[q], "done"}
    BY <1>20 DEF Learn
  <2>2. \A h \in Hosts : /\ h # HostOf[r] => protocolSupport'[h] = protocolSupport[h]
                        /\ protocolSupport'[HostOf[r]] = learned[r]
    BY <1>20 DEF Learn
  <2>3. PinnedH1Justified'
    BY <2>1, <2>2
  <2> QED BY <2>1, <2>3
<1>21. ASSUME NEW r \in Requests, H3ProbeConnects(r) PROVE PinInv'
  BY <1>21 DEF H3ProbeConnects, Heard, Win
<1>22. ASSUME NEW r \in Requests, H3ProbeFails(r) PROVE PinInv'
  BY <1>22 DEF H3ProbeFails, Heard
<1>23. ASSUME NEW r \in Requests, H2ProbeConnects(r) PROVE PinInv'
  BY <1>23 DEF H2ProbeConnects, Heard, Win
<1>24. ASSUME NEW r \in Requests, H2ProbeFails(r) PROVE PinInv'
  BY <1>24 DEF H2ProbeFails, Heard
<1>25. ASSUME NEW r \in Requests, H2ProbeDowngraded(r) PROVE PinInv'
  BY <1>25 DEF H2ProbeDowngraded, Heard
<1>26. ASSUME NEW r \in Requests, Drain(r) PROVE PinInv'
  <2>1. /\ UNCHANGED <<protocolSupport, downgraded, preset, learned, pc, role>>
        /\ late' \subseteq late
    BY <1>26 DEF Drain
  <2> QED BY <2>1
<1>27. ASSUME NEW new \in Proxies, SetProxy(new) PROVE PinInv'
  BY <1>27 DEF SetProxy, Change
<1>28. ASSUME NEW new \in Versions \cup {"auto"}, RefreshWithProtocol(new) PROVE PinInv'
  BY <1>28 DEF RefreshWithProtocol, Change
<1>29. ASSUME EnableHTTP3 PROVE PinInv'
  BY <1>29 DEF EnableHTTP3, Change
<1>30. ASSUME DisableHTTP3 PROVE PinInv'
  BY <1>30 DEF DisableHTTP3, Change
<1>31. ASSUME FinishOperation PROVE PinInv'
  BY <1>31 DEF FinishOperation
<1>32. CASE UNCHANGED vars
  BY <1>32 DEF vars
<1> HIDE DEF PinInv, PinnedH1Justified, Justified, Versions, ProxyKinds
<1> QED BY <1>1, <1>2, <1>3, <1>4, <1>5, <1>6, <1>7, <1>8, <1>9, <1>10, <1>11, <1>12, <1>13,
    <1>14, <1>15, <1>16, <1>17, <1>18, <1>19, <1>20, <1>21, <1>22, <1>23, <1>24, <1>25,
    <1>26, <1>27, <1>28, <1>29, <1>30, <1>31, <1>32 DEF Next, Caller, Attempt, RaceResolves,
    Probe, Setting

\* What must not be repeated is sent only by a last attempt.
LEMMA SentStep ==
  ASSUME ConstantsAssumption, TypeOK, Unstarted, RouteInv, SentInv, [Next]_vars
  PROVE  SentInv'
<1>a. Typed
  BY DEF TypeOK, ConstantsAssumption, Typed
<1> USE <1>a DEF Typed, SentInv, Once, Unstarted, RouteInv, NoH3Way, Versions, ProxyKinds, Goto,
    settings, raceVars, history, ProbeOnly
<1>1. ASSUME NEW r \in Requests, NEW scheme \in {"http", "https"}, Dispatch(r, scheme)
      PROVE  SentInv'
  BY <1>1 DEF Dispatch, PlainRoute, DoRoute, StreamRoute, AutoRoute, TcpBlocked,
      H3ProxyError
<1>2. ASSUME NEW r \in Requests, AutoSnapshot(r) PROVE SentInv'
  BY <1>2 DEF AutoSnapshot
<1>3. ASSUME NEW r \in Requests, AutoLookup(r) PROVE SentInv'
  BY <1>3 DEF AutoLookup, NextAttempt, FirstAttempt
<1>4. ASSUME NEW r \in Requests, RaceStart(r) PROVE SentInv'
  BY <1>4 DEF RaceStart, Dials
<1>5. ASSUME NEW r \in Requests, RaceWon(r) PROVE SentInv'
  BY <1>5 DEF RaceWon, EndRace, DrainLater
<1>6. ASSUME NEW r \in Requests, RaceDowngraded(r) PROVE SentInv'
  BY <1>6 DEF RaceDowngraded, Downgrade, LeftInError, EndRace, DrainLater
<1>7. ASSUME NEW r \in Requests, RaceBothFailed(r) PROVE SentInv'
  BY <1>7 DEF RaceBothFailed, RaceDefaults, EndRace, DrainLater
<1>8. ASSUME NEW r \in Requests, RaceBudget(r) PROVE SentInv'
  BY <1>8 DEF RaceBudget, RaceDefaults, EndRace, DrainLater
<1>9. ASSUME NEW r \in Requests, RaceCancelled(r) PROVE SentInv'
  BY <1>9 DEF RaceCancelled, Fallback, EndRace, DrainLater, FallsBack, CanResend
<1>10. ASSUME NEW r \in Requests, NEW v \in Versions, AttemptAnswers(r, v) PROVE SentInv'
  BY <1>10 DEF AttemptAnswers, Answer, Learns, Sent, Dials
<1>11. ASSUME NEW r \in Requests, NEW sent \in BOOLEAN, H1Fails(r, sent) PROVE SentInv'
  BY <1>11 DEF H1Fails, Sent, Dials
<1>12. ASSUME NEW r \in Requests, NEW sent \in BOOLEAN, H3Stalls(r, sent) PROVE SentInv'
  BY <1>12 DEF H3Stalls, Sent, Dials
<1>13. ASSUME NEW r \in Requests, NEW sent \in BOOLEAN, H3RetryFails(r, sent) PROVE SentInv'
  BY <1>13 DEF H3RetryFails, Sent, Fallback, FallsBack, CanResend
<1>14. ASSUME NEW r \in Requests, NEW sent \in BOOLEAN, HandoffFails(r, sent) PROVE SentInv'
  BY <1>14 DEF HandoffFails, Sent
<1>15. ASSUME NEW r \in Requests, NEW v \in {"h2", "h3"}, NEW sent \in BOOLEAN, AttemptFails(r, v, sent)
       PROVE  SentInv'
  BY <1>15 DEF AttemptFails, Sent, Dials, Fallback, FallsBack, CanResend
<1>16. ASSUME NEW r \in Requests, H2Downgraded(r) PROVE SentInv'
  BY <1>16 DEF H2Downgraded, Dials, Downgrade, LeftInError
<1>17. ASSUME NEW r \in Requests, H3Disabled(r) PROVE SentInv'
  BY <1>17 DEF H3Disabled, Fallback, FallsBack, CanResend
<1>18. ASSUME NEW r \in Requests, H3RetryAnswers(r) PROVE SentInv'
  BY <1>18 DEF H3RetryAnswers, Sent, Answer, Learns
<1>19. ASSUME NEW r \in Requests, HandoffAnswers(r) PROVE SentInv'
  BY <1>19 DEF HandoffAnswers, Sent, Answer, Learns
<1>20. ASSUME NEW r \in Requests, Learn(r) PROVE SentInv'
  BY <1>20 DEF Learn
<1>21. ASSUME NEW r \in Requests, H3ProbeConnects(r) PROVE SentInv'
  BY <1>21 DEF H3ProbeConnects, Heard, Win
<1>22. ASSUME NEW r \in Requests, H3ProbeFails(r) PROVE SentInv'
  BY <1>22 DEF H3ProbeFails, Heard
<1>23. ASSUME NEW r \in Requests, H2ProbeConnects(r) PROVE SentInv'
  BY <1>23 DEF H2ProbeConnects, Heard, Win
<1>24. ASSUME NEW r \in Requests, H2ProbeFails(r) PROVE SentInv'
  BY <1>24 DEF H2ProbeFails, Heard
<1>25. ASSUME NEW r \in Requests, H2ProbeDowngraded(r) PROVE SentInv'
  BY <1>25 DEF H2ProbeDowngraded, Heard
<1>26. ASSUME NEW r \in Requests, Drain(r) PROVE SentInv'
  BY <1>26 DEF Drain
<1>27. ASSUME NEW new \in Proxies, SetProxy(new) PROVE SentInv'
  BY <1>27 DEF SetProxy, Change
<1>28. ASSUME NEW new \in Versions \cup {"auto"}, RefreshWithProtocol(new) PROVE SentInv'
  BY <1>28 DEF RefreshWithProtocol, Change
<1>29. ASSUME EnableHTTP3 PROVE SentInv'
  BY <1>29 DEF EnableHTTP3, Change
<1>30. ASSUME DisableHTTP3 PROVE SentInv'
  BY <1>30 DEF DisableHTTP3, Change
<1>31. ASSUME FinishOperation PROVE SentInv'
  BY <1>31 DEF FinishOperation
<1>32. CASE UNCHANGED vars
  BY <1>32 DEF vars
<1> HIDE DEF SentInv, Once, Unstarted, RouteInv, Versions, ProxyKinds
<1> QED BY <1>1, <1>2, <1>3, <1>4, <1>5, <1>6, <1>7, <1>8, <1>9, <1>10, <1>11, <1>12, <1>13,
    <1>14, <1>15, <1>16, <1>17, <1>18, <1>19, <1>20, <1>21, <1>22, <1>23, <1>24, <1>25,
    <1>26, <1>27, <1>28, <1>29, <1>30, <1>31, <1>32 DEF Next, Caller, Attempt, RaceResolves,
    Probe, Setting

-----------------------------------------------------------------------------
(* The race.                                                                *)

\* The HTTP/3 transport of doAuto's snapshot stays unless a setting changes.
LEMMA SnapStep ==
  ASSUME ConstantsAssumption, TypeOK, SnapInv, [Next]_vars
  PROVE  SnapInv'
<1>a. Typed
  BY DEF TypeOK, ConstantsAssumption, Typed
<1> USE <1>a DEF Typed, SnapInv, Running, H3Available, Versions, ProxyKinds, Goto, settings,
    raceVars, history, ProbeOnly
<1>1. ASSUME NEW r \in Requests, NEW scheme \in {"http", "https"}, Dispatch(r, scheme)
      PROVE  SnapInv'
  BY <1>1 DEF Dispatch, PlainRoute, DoRoute, StreamRoute, AutoRoute, TcpBlocked,
      H3ProxyError
<1>2. ASSUME NEW r \in Requests, AutoSnapshot(r) PROVE SnapInv'
  BY <1>2 DEF AutoSnapshot
<1>3. ASSUME NEW r \in Requests, AutoLookup(r) PROVE SnapInv'
  BY <1>3 DEF AutoLookup, NextAttempt, FirstAttempt
<1>4. ASSUME NEW r \in Requests, RaceStart(r) PROVE SnapInv'
  BY <1>4 DEF RaceStart, Dials
<1>5. ASSUME NEW r \in Requests, RaceWon(r) PROVE SnapInv'
  BY <1>5 DEF RaceWon, EndRace, DrainLater
<1>6. ASSUME NEW r \in Requests, RaceDowngraded(r) PROVE SnapInv'
  BY <1>6 DEF RaceDowngraded, Downgrade, LeftInError, EndRace, DrainLater
<1>7. ASSUME NEW r \in Requests, RaceBothFailed(r) PROVE SnapInv'
  BY <1>7 DEF RaceBothFailed, RaceDefaults, EndRace, DrainLater
<1>8. ASSUME NEW r \in Requests, RaceBudget(r) PROVE SnapInv'
  BY <1>8 DEF RaceBudget, RaceDefaults, EndRace, DrainLater
<1>9. ASSUME NEW r \in Requests, RaceCancelled(r) PROVE SnapInv'
  BY <1>9 DEF RaceCancelled, Fallback, EndRace, DrainLater
<1>10. ASSUME NEW r \in Requests, NEW v \in Versions, AttemptAnswers(r, v) PROVE SnapInv'
  BY <1>10 DEF AttemptAnswers, Answer, Learns, Sent, Dials
<1>11. ASSUME NEW r \in Requests, NEW sent \in BOOLEAN, H1Fails(r, sent) PROVE SnapInv'
  BY <1>11 DEF H1Fails, Sent, Dials
<1>12. ASSUME NEW r \in Requests, NEW sent \in BOOLEAN, H3Stalls(r, sent) PROVE SnapInv'
  BY <1>12 DEF H3Stalls, Sent, Dials
<1>13. ASSUME NEW r \in Requests, NEW sent \in BOOLEAN, H3RetryFails(r, sent) PROVE SnapInv'
  BY <1>13 DEF H3RetryFails, Sent, Fallback
<1>14. ASSUME NEW r \in Requests, NEW sent \in BOOLEAN, HandoffFails(r, sent) PROVE SnapInv'
  BY <1>14 DEF HandoffFails, Sent
<1>15. ASSUME NEW r \in Requests, NEW v \in {"h2", "h3"}, NEW sent \in BOOLEAN, AttemptFails(r, v, sent)
       PROVE  SnapInv'
  BY <1>15 DEF AttemptFails, Sent, Dials, Fallback
<1>16. ASSUME NEW r \in Requests, H2Downgraded(r) PROVE SnapInv'
  BY <1>16 DEF H2Downgraded, Dials, Downgrade, LeftInError
<1>17. ASSUME NEW r \in Requests, H3Disabled(r) PROVE SnapInv'
  BY <1>17 DEF H3Disabled, Fallback
<1>18. ASSUME NEW r \in Requests, H3RetryAnswers(r) PROVE SnapInv'
  BY <1>18 DEF H3RetryAnswers, Sent, Answer, Learns
<1>19. ASSUME NEW r \in Requests, HandoffAnswers(r) PROVE SnapInv'
  BY <1>19 DEF HandoffAnswers, Sent, Answer, Learns
<1>20. ASSUME NEW r \in Requests, Learn(r) PROVE SnapInv'
  BY <1>20 DEF Learn
<1>21. ASSUME NEW r \in Requests, H3ProbeConnects(r) PROVE SnapInv'
  BY <1>21 DEF H3ProbeConnects, Heard, Win
<1>22. ASSUME NEW r \in Requests, H3ProbeFails(r) PROVE SnapInv'
  BY <1>22 DEF H3ProbeFails, Heard
<1>23. ASSUME NEW r \in Requests, H2ProbeConnects(r) PROVE SnapInv'
  BY <1>23 DEF H2ProbeConnects, Heard, Win
<1>24. ASSUME NEW r \in Requests, H2ProbeFails(r) PROVE SnapInv'
  BY <1>24 DEF H2ProbeFails, Heard
<1>25. ASSUME NEW r \in Requests, H2ProbeDowngraded(r) PROVE SnapInv'
  BY <1>25 DEF H2ProbeDowngraded, Heard
<1>26. ASSUME NEW r \in Requests, Drain(r) PROVE SnapInv'
  <2>1. UNCHANGED <<pc, snapH3, overlapped, disableH3, protocol>>
    BY <1>26 DEF Drain
  <2> QED BY <2>1
<1>27. ASSUME NEW new \in Proxies, SetProxy(new) PROVE SnapInv'
  BY <1>27 DEF SetProxy, Change
<1>28. ASSUME NEW new \in Versions \cup {"auto"}, RefreshWithProtocol(new) PROVE SnapInv'
  BY <1>28 DEF RefreshWithProtocol, Change
<1>29. ASSUME EnableHTTP3 PROVE SnapInv'
  BY <1>29 DEF EnableHTTP3, Change
<1>30. ASSUME DisableHTTP3 PROVE SnapInv'
  BY <1>30 DEF DisableHTTP3, Change
<1>31. ASSUME FinishOperation PROVE SnapInv'
  BY <1>31 DEF FinishOperation
<1>32. CASE UNCHANGED vars
  BY <1>32 DEF vars
<1> HIDE DEF SnapInv, Running, H3Available, Versions, ProxyKinds
<1> QED BY <1>1, <1>2, <1>3, <1>4, <1>5, <1>6, <1>7, <1>8, <1>9, <1>10, <1>11, <1>12, <1>13,
    <1>14, <1>15, <1>16, <1>17, <1>18, <1>19, <1>20, <1>21, <1>22, <1>23, <1>24, <1>25,
    <1>26, <1>27, <1>28, <1>29, <1>30, <1>31, <1>32 DEF Next, Caller, Attempt, RaceResolves,
    Probe, Setting

\* Every result of a probe is there for the select, and no running probe is forgotten.
LEMMA ProbeStep ==
  ASSUME ConstantsAssumption, TypeOK, Unstarted, ProbeInv, LateDowngradeOwned, [Next]_vars
  PROVE  ProbeInv'
<1>a. Typed
  BY DEF TypeOK, ConstantsAssumption, Typed
<1> USE <1>a DEF Typed, ProbeInv, Unstarted, LateDowngradeOwned, Versions, ProxyKinds, Goto,
    settings, raceVars, history, ProbeOnly
<1>1. ASSUME NEW r \in Requests, NEW scheme \in {"http", "https"}, Dispatch(r, scheme)
      PROVE  ProbeInv'
  BY <1>1 DEF Dispatch, PlainRoute, DoRoute, StreamRoute, AutoRoute, TcpBlocked,
      H3ProxyError
<1>2. ASSUME NEW r \in Requests, AutoSnapshot(r) PROVE ProbeInv'
  BY <1>2 DEF AutoSnapshot
<1>3. ASSUME NEW r \in Requests, AutoLookup(r) PROVE ProbeInv'
  BY <1>3 DEF AutoLookup, NextAttempt, FirstAttempt
<1>4. ASSUME NEW r \in Requests, RaceStart(r) PROVE ProbeInv'
  BY <1>4 DEF RaceStart, Dials
<1>5. ASSUME NEW r \in Requests, RaceWon(r) PROVE ProbeInv'
  BY <1>5 DEF RaceWon, EndRace, DrainLater
<1>6. ASSUME NEW r \in Requests, RaceDowngraded(r) PROVE ProbeInv'
  BY <1>6 DEF RaceDowngraded, Downgrade, LeftInError, EndRace, DrainLater
<1>7. ASSUME NEW r \in Requests, RaceBothFailed(r) PROVE ProbeInv'
  BY <1>7 DEF RaceBothFailed, RaceDefaults, EndRace, DrainLater
<1>8. ASSUME NEW r \in Requests, RaceBudget(r) PROVE ProbeInv'
  BY <1>8 DEF RaceBudget, RaceDefaults, EndRace, DrainLater
<1>9. ASSUME NEW r \in Requests, RaceCancelled(r) PROVE ProbeInv'
  BY <1>9 DEF RaceCancelled, Fallback, EndRace, DrainLater, FallsBack, CanResend
<1>10. ASSUME NEW r \in Requests, NEW v \in Versions, AttemptAnswers(r, v) PROVE ProbeInv'
  BY <1>10 DEF AttemptAnswers, Answer, Learns, Sent, Dials
<1>11. ASSUME NEW r \in Requests, NEW sent \in BOOLEAN, H1Fails(r, sent) PROVE ProbeInv'
  BY <1>11 DEF H1Fails, Sent, Dials
<1>12. ASSUME NEW r \in Requests, NEW sent \in BOOLEAN, H3Stalls(r, sent) PROVE ProbeInv'
  BY <1>12 DEF H3Stalls, Sent, Dials
<1>13. ASSUME NEW r \in Requests, NEW sent \in BOOLEAN, H3RetryFails(r, sent) PROVE ProbeInv'
  BY <1>13 DEF H3RetryFails, Sent, Fallback, FallsBack, CanResend
<1>14. ASSUME NEW r \in Requests, NEW sent \in BOOLEAN, HandoffFails(r, sent) PROVE ProbeInv'
  BY <1>14 DEF HandoffFails, Sent
<1>15. ASSUME NEW r \in Requests, NEW v \in {"h2", "h3"}, NEW sent \in BOOLEAN, AttemptFails(r, v, sent)
       PROVE  ProbeInv'
  BY <1>15 DEF AttemptFails, Sent, Dials, Fallback, FallsBack, CanResend
<1>16. ASSUME NEW r \in Requests, H2Downgraded(r) PROVE ProbeInv'
  BY <1>16 DEF H2Downgraded, Dials, Downgrade, LeftInError
<1>17. ASSUME NEW r \in Requests, H3Disabled(r) PROVE ProbeInv'
  BY <1>17 DEF H3Disabled, Fallback, FallsBack, CanResend
<1>18. ASSUME NEW r \in Requests, H3RetryAnswers(r) PROVE ProbeInv'
  BY <1>18 DEF H3RetryAnswers, Sent, Answer, Learns
<1>19. ASSUME NEW r \in Requests, HandoffAnswers(r) PROVE ProbeInv'
  BY <1>19 DEF HandoffAnswers, Sent, Answer, Learns
<1>20. ASSUME NEW r \in Requests, Learn(r) PROVE ProbeInv'
  BY <1>20 DEF Learn
<1>21. ASSUME NEW r \in Requests, H3ProbeConnects(r) PROVE ProbeInv'
  BY <1>21 DEF H3ProbeConnects, Heard, Win
<1>22. ASSUME NEW r \in Requests, H3ProbeFails(r) PROVE ProbeInv'
  BY <1>22 DEF H3ProbeFails, Heard
<1>23. ASSUME NEW r \in Requests, H2ProbeConnects(r) PROVE ProbeInv'
  BY <1>23 DEF H2ProbeConnects, Heard, Win
<1>24. ASSUME NEW r \in Requests, H2ProbeFails(r) PROVE ProbeInv'
  BY <1>24 DEF H2ProbeFails, Heard
<1>25. ASSUME NEW r \in Requests, H2ProbeDowngraded(r) PROVE ProbeInv'
  BY <1>25 DEF H2ProbeDowngraded, Heard
<1>26. ASSUME NEW r \in Requests, Drain(r) PROVE ProbeInv'
  BY <1>26 DEF Drain
<1>27. ASSUME NEW new \in Proxies, SetProxy(new) PROVE ProbeInv'
  BY <1>27 DEF SetProxy, Change
<1>28. ASSUME NEW new \in Versions \cup {"auto"}, RefreshWithProtocol(new) PROVE ProbeInv'
  BY <1>28 DEF RefreshWithProtocol, Change
<1>29. ASSUME EnableHTTP3 PROVE ProbeInv'
  BY <1>29 DEF EnableHTTP3, Change
<1>30. ASSUME DisableHTTP3 PROVE ProbeInv'
  BY <1>30 DEF DisableHTTP3, Change
<1>31. ASSUME FinishOperation PROVE ProbeInv'
  BY <1>31 DEF FinishOperation
<1>32. CASE UNCHANGED vars
  BY <1>32 DEF vars
<1> HIDE DEF ProbeInv, Unstarted, LateDowngradeOwned, Versions, ProxyKinds
<1> QED BY <1>1, <1>2, <1>3, <1>4, <1>5, <1>6, <1>7, <1>8, <1>9, <1>10, <1>11, <1>12, <1>13,
    <1>14, <1>15, <1>16, <1>17, <1>18, <1>19, <1>20, <1>21, <1>22, <1>23, <1>24, <1>25,
    <1>26, <1>27, <1>28, <1>29, <1>30, <1>31, <1>32 DEF Next, Caller, Attempt, RaceResolves,
    Probe, Setting

\* A downgraded connection is handed on at once.
LEMMA SettledStep ==
  ASSUME ConstantsAssumption, TypeOK, DowngradedConnSettled, [Next]_vars
  PROVE  DowngradedConnSettled'
<1>a. Typed /\ held \subseteq Requests
  BY DEF TypeOK, ConstantsAssumption, Typed
<1> USE <1>a DEF Typed, DowngradedConnSettled, LeftInError, Versions, ProxyKinds, Goto, settings, raceVars,
    history, ProbeOnly
<1>1. ASSUME NEW r \in Requests, NEW scheme \in {"http", "https"}, Dispatch(r, scheme)
      PROVE  DowngradedConnSettled'
  BY <1>1 DEF Dispatch, PlainRoute, DoRoute, StreamRoute, AutoRoute, TcpBlocked,
      H3ProxyError
<1>2. ASSUME NEW r \in Requests, AutoSnapshot(r) PROVE DowngradedConnSettled'
  BY <1>2 DEF AutoSnapshot
<1>3. ASSUME NEW r \in Requests, AutoLookup(r) PROVE DowngradedConnSettled'
  BY <1>3 DEF AutoLookup, NextAttempt, FirstAttempt
<1>4. ASSUME NEW r \in Requests, RaceStart(r) PROVE DowngradedConnSettled'
  BY <1>4 DEF RaceStart, Dials
<1>5. ASSUME NEW r \in Requests, RaceWon(r) PROVE DowngradedConnSettled'
  BY <1>5 DEF RaceWon, EndRace, DrainLater
<1>6. ASSUME NEW r \in Requests, RaceDowngraded(r) PROVE DowngradedConnSettled'
  BY <1>6 DEF RaceDowngraded, Downgrade, EndRace, DrainLater
<1>7. ASSUME NEW r \in Requests, RaceBothFailed(r) PROVE DowngradedConnSettled'
  BY <1>7 DEF RaceBothFailed, RaceDefaults, EndRace, DrainLater
<1>8. ASSUME NEW r \in Requests, RaceBudget(r) PROVE DowngradedConnSettled'
  BY <1>8 DEF RaceBudget, RaceDefaults, EndRace, DrainLater
<1>9. ASSUME NEW r \in Requests, RaceCancelled(r) PROVE DowngradedConnSettled'
  BY <1>9 DEF RaceCancelled, Fallback, EndRace, DrainLater, FallsBack, CanResend
<1>10. ASSUME NEW r \in Requests, NEW v \in Versions, AttemptAnswers(r, v)
       PROVE  DowngradedConnSettled'
  BY <1>10 DEF AttemptAnswers, Answer, Learns, Sent, Dials
<1>11. ASSUME NEW r \in Requests, NEW sent \in BOOLEAN, H1Fails(r, sent)
       PROVE  DowngradedConnSettled'
  BY <1>11 DEF H1Fails, Sent, Dials
<1>12. ASSUME NEW r \in Requests, NEW sent \in BOOLEAN, H3Stalls(r, sent)
       PROVE  DowngradedConnSettled'
  BY <1>12 DEF H3Stalls, Sent, Dials
<1>13. ASSUME NEW r \in Requests, NEW sent \in BOOLEAN, H3RetryFails(r, sent)
       PROVE  DowngradedConnSettled'
  BY <1>13 DEF H3RetryFails, Sent, Fallback, FallsBack, CanResend
<1>14. ASSUME NEW r \in Requests, NEW sent \in BOOLEAN, HandoffFails(r, sent)
       PROVE  DowngradedConnSettled'
  BY <1>14 DEF HandoffFails, Sent
<1>15. ASSUME NEW r \in Requests, NEW v \in {"h2", "h3"}, NEW sent \in BOOLEAN, AttemptFails(r, v, sent)
       PROVE  DowngradedConnSettled'
  BY <1>15 DEF AttemptFails, Sent, Dials, Fallback, FallsBack, CanResend
<1>16. ASSUME NEW r \in Requests, H2Downgraded(r) PROVE DowngradedConnSettled'
  BY <1>16 DEF H2Downgraded, Dials, Downgrade
<1>17. ASSUME NEW r \in Requests, H3Disabled(r) PROVE DowngradedConnSettled'
  BY <1>17 DEF H3Disabled, Fallback, FallsBack, CanResend
<1>18. ASSUME NEW r \in Requests, H3RetryAnswers(r) PROVE DowngradedConnSettled'
  BY <1>18 DEF H3RetryAnswers, Sent, Answer, Learns
<1>19. ASSUME NEW r \in Requests, HandoffAnswers(r) PROVE DowngradedConnSettled'
  BY <1>19 DEF HandoffAnswers, Sent, Answer, Learns
<1>20. ASSUME NEW r \in Requests, Learn(r) PROVE DowngradedConnSettled'
  BY <1>20 DEF Learn
<1>21. ASSUME NEW r \in Requests, H3ProbeConnects(r) PROVE DowngradedConnSettled'
  BY <1>21 DEF H3ProbeConnects, Heard, Win
<1>22. ASSUME NEW r \in Requests, H3ProbeFails(r) PROVE DowngradedConnSettled'
  BY <1>22 DEF H3ProbeFails, Heard
<1>23. ASSUME NEW r \in Requests, H2ProbeConnects(r) PROVE DowngradedConnSettled'
  BY <1>23 DEF H2ProbeConnects, Heard, Win
<1>24. ASSUME NEW r \in Requests, H2ProbeFails(r) PROVE DowngradedConnSettled'
  BY <1>24 DEF H2ProbeFails, Heard
<1>25. ASSUME NEW r \in Requests, H2ProbeDowngraded(r) PROVE DowngradedConnSettled'
  BY <1>25 DEF H2ProbeDowngraded, Heard
<1>26. ASSUME NEW r \in Requests, Drain(r) PROVE DowngradedConnSettled'
  BY <1>26 DEF Drain
<1>27. ASSUME NEW new \in Proxies, SetProxy(new) PROVE DowngradedConnSettled'
  BY <1>27 DEF SetProxy, Change
<1>28. ASSUME NEW new \in Versions \cup {"auto"}, RefreshWithProtocol(new)
       PROVE  DowngradedConnSettled'
  BY <1>28 DEF RefreshWithProtocol, Change
<1>29. ASSUME EnableHTTP3 PROVE DowngradedConnSettled'
  BY <1>29 DEF EnableHTTP3, Change
<1>30. ASSUME DisableHTTP3 PROVE DowngradedConnSettled'
  BY <1>30 DEF DisableHTTP3, Change
<1>31. ASSUME FinishOperation PROVE DowngradedConnSettled'
  BY <1>31 DEF FinishOperation
<1>32. CASE UNCHANGED vars
  BY <1>32 DEF vars
<1> HIDE DEF DowngradedConnSettled, LeftInError, Versions, ProxyKinds
<1> QED BY <1>1, <1>2, <1>3, <1>4, <1>5, <1>6, <1>7, <1>8, <1>9, <1>10, <1>11, <1>12, <1>13,
    <1>14, <1>15, <1>16, <1>17, <1>18, <1>19, <1>20, <1>21, <1>22, <1>23, <1>24, <1>25,
    <1>26, <1>27, <1>28, <1>29, <1>30, <1>31, <1>32 DEF Next, Caller, Attempt, RaceResolves,
    Probe, Setting

\* A late downgrade has someone to take it.
LEMMA LateStep ==
  ASSUME ConstantsAssumption, TypeOK, ProbeInv, LateDowngradeOwned, [Next]_vars
  PROVE  LateDowngradeOwned'
<1>a. Typed /\ late \subseteq Requests
  BY DEF TypeOK, ConstantsAssumption, Typed
<1> USE <1>a DEF Typed, ProbeInv, LateDowngradeOwned, Versions, ProxyKinds, Goto, settings,
    raceVars, history, ProbeOnly
<1>1. ASSUME NEW r \in Requests, NEW scheme \in {"http", "https"}, Dispatch(r, scheme)
      PROVE  LateDowngradeOwned'
  BY <1>1 DEF Dispatch, PlainRoute, DoRoute, StreamRoute, AutoRoute, TcpBlocked,
      H3ProxyError
<1>2. ASSUME NEW r \in Requests, AutoSnapshot(r) PROVE LateDowngradeOwned'
  BY <1>2 DEF AutoSnapshot
<1>3. ASSUME NEW r \in Requests, AutoLookup(r) PROVE LateDowngradeOwned'
  BY <1>3 DEF AutoLookup, NextAttempt, FirstAttempt
<1>4. ASSUME NEW r \in Requests, RaceStart(r) PROVE LateDowngradeOwned'
  BY <1>4 DEF RaceStart, Dials
<1>5. ASSUME NEW r \in Requests, RaceWon(r) PROVE LateDowngradeOwned'
  BY <1>5 DEF RaceWon, EndRace, DrainLater
<1>6. ASSUME NEW r \in Requests, RaceDowngraded(r) PROVE LateDowngradeOwned'
  BY <1>6 DEF RaceDowngraded, Downgrade, LeftInError, EndRace, DrainLater
<1>7. ASSUME NEW r \in Requests, RaceBothFailed(r) PROVE LateDowngradeOwned'
  BY <1>7 DEF RaceBothFailed, RaceDefaults, EndRace, DrainLater
<1>8. ASSUME NEW r \in Requests, RaceBudget(r) PROVE LateDowngradeOwned'
  BY <1>8 DEF RaceBudget, RaceDefaults, EndRace, DrainLater
<1>9. ASSUME NEW r \in Requests, RaceCancelled(r) PROVE LateDowngradeOwned'
  BY <1>9 DEF RaceCancelled, Fallback, EndRace, DrainLater, FallsBack, CanResend
<1>10. ASSUME NEW r \in Requests, NEW v \in Versions, AttemptAnswers(r, v)
       PROVE  LateDowngradeOwned'
  BY <1>10 DEF AttemptAnswers, Answer, Learns, Sent, Dials
<1>11. ASSUME NEW r \in Requests, NEW sent \in BOOLEAN, H1Fails(r, sent)
       PROVE  LateDowngradeOwned'
  BY <1>11 DEF H1Fails, Sent, Dials
<1>12. ASSUME NEW r \in Requests, NEW sent \in BOOLEAN, H3Stalls(r, sent)
       PROVE  LateDowngradeOwned'
  BY <1>12 DEF H3Stalls, Sent, Dials
<1>13. ASSUME NEW r \in Requests, NEW sent \in BOOLEAN, H3RetryFails(r, sent)
       PROVE  LateDowngradeOwned'
  BY <1>13 DEF H3RetryFails, Sent, Fallback, FallsBack, CanResend
<1>14. ASSUME NEW r \in Requests, NEW sent \in BOOLEAN, HandoffFails(r, sent)
       PROVE  LateDowngradeOwned'
  BY <1>14 DEF HandoffFails, Sent
<1>15. ASSUME NEW r \in Requests, NEW v \in {"h2", "h3"}, NEW sent \in BOOLEAN, AttemptFails(r, v, sent)
       PROVE  LateDowngradeOwned'
  BY <1>15 DEF AttemptFails, Sent, Dials, Fallback, FallsBack, CanResend
<1>16. ASSUME NEW r \in Requests, H2Downgraded(r) PROVE LateDowngradeOwned'
  BY <1>16 DEF H2Downgraded, Dials, Downgrade, LeftInError
<1>17. ASSUME NEW r \in Requests, H3Disabled(r) PROVE LateDowngradeOwned'
  BY <1>17 DEF H3Disabled, Fallback, FallsBack, CanResend
<1>18. ASSUME NEW r \in Requests, H3RetryAnswers(r) PROVE LateDowngradeOwned'
  BY <1>18 DEF H3RetryAnswers, Sent, Answer, Learns
<1>19. ASSUME NEW r \in Requests, HandoffAnswers(r) PROVE LateDowngradeOwned'
  BY <1>19 DEF HandoffAnswers, Sent, Answer, Learns
<1>20. ASSUME NEW r \in Requests, Learn(r) PROVE LateDowngradeOwned'
  BY <1>20 DEF Learn
<1>21. ASSUME NEW r \in Requests, H3ProbeConnects(r) PROVE LateDowngradeOwned'
  BY <1>21 DEF H3ProbeConnects, Heard, Win
<1>22. ASSUME NEW r \in Requests, H3ProbeFails(r) PROVE LateDowngradeOwned'
  BY <1>22 DEF H3ProbeFails, Heard
<1>23. ASSUME NEW r \in Requests, H2ProbeConnects(r) PROVE LateDowngradeOwned'
  BY <1>23 DEF H2ProbeConnects, Heard, Win
<1>24. ASSUME NEW r \in Requests, H2ProbeFails(r) PROVE LateDowngradeOwned'
  BY <1>24 DEF H2ProbeFails, Heard
<1>25. ASSUME NEW r \in Requests, H2ProbeDowngraded(r) PROVE LateDowngradeOwned'
  BY <1>25 DEF H2ProbeDowngraded, Heard
<1>26. ASSUME NEW r \in Requests, Drain(r) PROVE LateDowngradeOwned'
  BY <1>26 DEF Drain
<1>27. ASSUME NEW new \in Proxies, SetProxy(new) PROVE LateDowngradeOwned'
  BY <1>27 DEF SetProxy, Change
<1>28. ASSUME NEW new \in Versions \cup {"auto"}, RefreshWithProtocol(new)
       PROVE  LateDowngradeOwned'
  BY <1>28 DEF RefreshWithProtocol, Change
<1>29. ASSUME EnableHTTP3 PROVE LateDowngradeOwned'
  BY <1>29 DEF EnableHTTP3, Change
<1>30. ASSUME DisableHTTP3 PROVE LateDowngradeOwned'
  BY <1>30 DEF DisableHTTP3, Change
<1>31. ASSUME FinishOperation PROVE LateDowngradeOwned'
  BY <1>31 DEF FinishOperation
<1>32. CASE UNCHANGED vars
  BY <1>32 DEF vars
<1> HIDE DEF ProbeInv, LateDowngradeOwned, Versions, ProxyKinds
<1> QED BY <1>1, <1>2, <1>3, <1>4, <1>5, <1>6, <1>7, <1>8, <1>9, <1>10, <1>11, <1>12, <1>13,
    <1>14, <1>15, <1>16, <1>17, <1>18, <1>19, <1>20, <1>21, <1>22, <1>23, <1>24, <1>25,
    <1>26, <1>27, <1>28, <1>29, <1>30, <1>31, <1>32 DEF Next, Caller, Attempt, RaceResolves,
    Probe, Setting

-----------------------------------------------------------------------------
(* The inductive invariant, and what follows from it.                      *)

\* IInv holds initially.
LEMMA Initially == Init => IInv
<1> SUFFICES ASSUME Init PROVE IInv
  OBVIOUS
<1> USE ConstantsAssumption DEF ConstantsAssumption, Init
<1>1. TypeOK
  <2>1. /\ proxy \in Proxies /\ preset \in Presets /\ protocol \in Versions \cup {"auto"}
        /\ ops \in 0..MaxOps
    BY DEF Versions
  <2>2. disableH3 \in BOOLEAN /\ panicked \in BOOLEAN
    OBVIOUS
  <2> QED BY <2>1, <2>2 DEF TypeOK, ProxyKinds, Versions
<1>2. Unstarted /\ RouteInv /\ ViaInv /\ ProxyHonoured
  BY DEF Unstarted, RouteInv, ViaInv, ProxyHonoured, Running
<1>3. PinInv /\ SentInv
  BY DEF PinInv, PinnedH1Justified, SentInv, Versions
<1>4. RaceInv
  BY DEF RaceInv, SnapInv, ProbeInv, DowngradedConnSettled, LateDowngradeOwned
<1> QED BY <1>1, <1>2, <1>3, <1>4 DEF IInv

\* IInv holds in every reachable state.
THEOREM Inductive == Spec => []IInv
<1>1. IInv /\ [Next]_vars => IInv'
  <2> SUFFICES ASSUME IInv, [Next]_vars PROVE IInv'
    OBVIOUS
  <2> USE ConstantsAssumption DEF IInv, RaceInv
  <2>1. TypeOK' /\ Unstarted' /\ RouteInv' /\ ViaInv'
    BY TypeStep, UnstartedStep, RouteStep, ViaStep
  <2>2. ProxyHonoured' /\ PinInv' /\ SentInv'
    BY HonouredStep, PinStep, SentStep
  <2>3. RaceInv'
    BY SnapStep, ProbeStep, SettledStep, LateStep
  <2> QED BY <2>1, <2>2, <2>3
<1> QED BY Initially, <1>1, PTL DEF Spec

\* A request that must not be repeated reaches the server over one protocol
\* only, whichever of race, fallback, stalled HTTP/3 attempt and settings change
\* it went through; the exception is Do's chain behind a proxy without HTTP/3.
THEOREM ResendSafe == Spec => []ResendGuarded
<1>1. IInv => ResendGuarded
  <2> SUFFICES ASSUME IInv, NEW r \in Requests, Once(r) PROVE ~(Cardinality(sentOn[r]) > 1)
    BY DEF ResendGuarded, Once
  <2>1. PICK v \in Versions : sentOn[r] \subseteq {v}
    BY DEF IInv, SentInv
  <2>2. IsFiniteSet({v}) /\ Cardinality({v}) = 1
    BY FS_Singleton
  <2>3. Cardinality(sentOn[r]) <= 1 /\ Cardinality(sentOn[r]) \in Nat
    BY <2>1, <2>2, FS_Subset, FS_CardinalityType
  <2> QED BY <2>3
<1> QED BY <1>1, Inductive, PTL

\* A request dispatched behind a proxy dials the target itself only after SetProxy
\* put one that does not carry the wire in its place, or as a stream on an HTTP/3
\* transport that could not be built for the proxy; and no host is pinned to
\* HTTP/1.1 by a transient failure.
THEOREM SelectionSafe == Spec => []SelectionSound
<1>1. IInv => SelectionSound
  BY DEF IInv, PinInv, SelectionSound
<1> QED BY <1>1, Inductive, PTL

\* What RaceNeverStuck says without ENABLED: once no probe runs any more, a
\* winner, a downgrade or two failures are there for the select to take.
RaceHasCase ==
    \A r \in Requests :
        pc[r] = "racing" /\ "running" \notin {h3Probe[r], h2Probe[r]} =>
            winner[r] # "none" \/ r \in late \/ BothFailed(r)

\* A race whose probes have returned is decided, and the connection of a
\* downgrade, early or late, is used, closed or about to be drained; the two ways
\* it reaches a caller inside the error, a forced HTTP/2 and DoStream behind an
\* HTTP proxy, are those that LeftInError names.
THEOREM RaceSafe ==
  Spec => [](RaceHasCase /\ DowngradedConnSettled /\ LateDowngradeOwned)
<1>1. IInv => RaceHasCase
  BY DEF IInv, TypeOK, RaceInv, ProbeInv, RaceHasCase, BothFailed
<1>2. IInv => DowngradedConnSettled /\ LateDowngradeOwned
  BY DEF IInv, RaceInv
<1> QED BY <1>1, <1>2, Inductive, PTL

\* The HTTP/3 transport that doAuto saw is nil at the race only if a setting
\* changed in between.
THEOREM NilProbeSafe == Spec => []NilProbeNeedsSwitch
<1>1. Init => NilProbeNeedsSwitch
  BY DEF Init, NilProbeNeedsSwitch
<1>2. IInv /\ NilProbeNeedsSwitch /\ [Next]_vars => NilProbeNeedsSwitch'
  <2> SUFFICES ASSUME IInv, NilProbeNeedsSwitch, [Next]_vars, ~panicked, panicked'
               PROVE  NilProbeNeedsSwitch'
    BY DEF Next, vars, settings, raceVars, history, NilProbeNeedsSwitch
  <2>1. PICK r \in Requests : RaceStart(r)
    <3>1. ASSUME NEW r \in Requests, Caller(r), ~RaceStart(r) PROVE UNCHANGED panicked
      BY <3>1 DEF Caller, Attempt, RaceResolves, Dispatch, AutoSnapshot, AutoLookup, RaceWon,
         RaceDowngraded, RaceBothFailed, RaceBudget, RaceDefaults, RaceCancelled, EndRace,
         AttemptAnswers, H1Fails, H3Stalls, H3RetryFails, HandoffFails, AttemptFails,
         H2Downgraded, H3Disabled, H3RetryAnswers, HandoffAnswers, Learn
    <3>2. ASSUME NEW r \in Requests, Probe(r) \/ Drain(r) PROVE UNCHANGED panicked
      BY <3>2 DEF Probe, Drain, H3ProbeConnects, H3ProbeFails, H2ProbeConnects, H2ProbeFails,
         H2ProbeDowngraded, ProbeOnly
    <3>3. ASSUME Setting PROVE UNCHANGED panicked
      BY <3>3 DEF Setting, SetProxy, RefreshWithProtocol, EnableHTTP3, DisableHTTP3, Change,
         FinishOperation
    <3> QED BY <3>1, <3>2, <3>3, Zenon DEF Next, vars
  <2> QED BY <2>1 DEF RaceStart, IInv, RaceInv, SnapInv, NilProbeNeedsSwitch
<1> QED BY <1>1, <1>2, Inductive, PTL DEF Spec
=============================================================================
