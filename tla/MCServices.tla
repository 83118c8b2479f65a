----------------------------- MODULE MCServices -----------------------------
(***************************************************************************)
(* The components with liveness properties that share no state with each   *)
(* other, checked in one run: a behaviour picks one of them and leaves the *)
(* others in their initial states, where no fair action is enabled.        *)
(***************************************************************************)
EXTENDS HostPool, DNSCache, CLib, CacheBackend, LocalProxy, DialRace

VARIABLE part

-----------------------------------------------------------------------------
(* Constants that a configuration cannot write down.                        *)

MCOneKey == [r \in Requests |-> CHOOSE k \in Keys : TRUE]

ProxyCall(connect, https, session, override) ==
    [connect |-> connect, https |-> https, session |-> session, override |-> override]

MCProxyRequests ==
    {ProxyCall(TRUE, FALSE, NoSession, "none"), ProxyCall(FALSE, TRUE, "s1", "none"),
     ProxyCall(FALSE, FALSE, NoSession, "http")}

-----------------------------------------------------------------------------
(* The sum.                                                                 *)

ServicesInit ==
    /\ Init /\ DNSInit /\ CLibInit /\ BackendInit /\ ProxyInit /\ RaceInit
    /\ part \in {"hostpool", "dns", "clib", "backend", "proxy", "race"}

ServicesNext ==
    /\ \/ part = "hostpool" /\ Next
          /\ UNCHANGED <<dnsVars, clibVars, backendVars, proxyVars, raceVars>>
       \/ part = "dns" /\ DNSNext
          /\ UNCHANGED <<vars, clibVars, backendVars, proxyVars, raceVars>>
       \/ part = "clib" /\ CLibNext
          /\ UNCHANGED <<vars, dnsVars, backendVars, proxyVars, raceVars>>
       \/ part = "backend" /\ BackendNext
          /\ UNCHANGED <<vars, dnsVars, clibVars, proxyVars, raceVars>>
       \/ part = "proxy" /\ ProxyNext
          /\ UNCHANGED <<vars, dnsVars, clibVars, backendVars, raceVars>>
       \/ part = "race" /\ RaceNext
          /\ UNCHANGED <<vars, dnsVars, clibVars, backendVars, proxyVars>>
    /\ UNCHANGED part

ServicesSpec ==
    /\ ServicesInit
    /\ [][ServicesNext]_<<part, vars, dnsVars, clibVars, backendVars, proxyVars, raceVars>>
    /\ Fairness /\ DNSFairness /\ CLibFairness /\ BackendFairness /\ ProxyFairness /\ RaceFairness

\* The type invariants of the components.
ServicesTypeOK ==
    TypeOK /\ DNSTypeOK /\ CLibTypeOK /\ BackendTypeOK /\ ProxyTypeOK /\ RaceTypeOK
=============================================================================
