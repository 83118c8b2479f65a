------------------------------ MODULE MCState -------------------------------
(***************************************************************************)
(* The components checked for safety that share no state with each other,  *)
(* in one run: a behaviour picks one of them and leaves the others in      *)
(* their initial states.                                                   *)
(***************************************************************************)
EXTENDS Session, CookieJar, SessionManager, TLSCache, UploadStream, SpeculativeConn,
        QUICPool, HTTP3Transport, MasqueTunnel, ClientRequest, TransportSwap

VARIABLE part

-----------------------------------------------------------------------------
(* Constants that a configuration cannot write down.                        *)

Url(https, host) == [https |-> https, host |-> host, page |-> 1]

MCUrls == {Url(TRUE, "a"), Url(FALSE, "a"), Url(TRUE, "b")}

MCCalls == {[method |-> "POST", body |-> "replayable", stream |-> FALSE],
            [method |-> "PUT", body |-> "oneshot", stream |-> FALSE],
            [method |-> "POST", body |-> "bytes", stream |-> FALSE],
            [method |-> "GET", body |-> "none", stream |-> TRUE]}

MCAnswers == {[cookie |-> b, acceptCH |-> b, etag |-> b] : b \in BOOLEAN}

MCHosts == {<<"com", "x">>, <<"com", "x", "www">>, <<"com", "y">>}

MCDomains == {<<"com", "x">>, <<"com", "y">>}

MCPaths == {<<>>, <<"p">>}

ClientCall(method, stream, force, auth, retry) ==
    [method |-> method, body |-> TRUE, stream |-> stream, force |-> force,
     auth |-> auth, retry |-> retry]

MCClientCalls == {ClientCall("POST", FALSE, "auto", "digest", FALSE),
                  ClientCall("PUT", FALSE, "h3", "header", TRUE),
                  ClientCall("POST", TRUE, "auto", "basic", FALSE),
                  ClientCall("PUT", FALSE, "auto", "basic", TRUE)}

-----------------------------------------------------------------------------
(* The sum.                                                                 *)

\* Only the chosen component starts in any of its initial states.
StateInit ==
    /\ part \in {"session", "cookies", "manager", "tickets", "upload",
             "speculative", "quic", "http3", "masque", "client", "swap"}
    /\ SessionInit /\ CookieInit /\ ManagerInit /\ TLSInit /\ UploadInit
    /\ SpeculativeInit /\ QUICInit /\ H3Init /\ TunnelInit /\ ClientInit /\ SwapInit
    /\ part = "http3" \/ (route = "direct" /\ ticket = [o \in Origins |-> NoTicket])
    /\ part = "swap" \/ (verification = Unverified /\ config = NoProxyConfig)
    /\ part = "client" \/ setup = [h3 |-> "quic", quicProxy |-> FALSE, auth |-> FALSE]

StateNext ==
    /\ UNCHANGED part
    /\ \/ part = "session" /\ SessionNext
          /\ UNCHANGED <<cookieVars, managerVars, tlsVars, uploadVars, speculativeVars,
                         quicVars, h3Vars, tunnelVars, clientVars, swapVars>>
       \/ part = "cookies" /\ CookieNext
          /\ UNCHANGED <<sessionVars, managerVars, tlsVars, uploadVars, speculativeVars,
                         quicVars, h3Vars, tunnelVars, clientVars, swapVars>>
       \/ part = "manager" /\ ManagerNext
          /\ UNCHANGED <<sessionVars, cookieVars, tlsVars, uploadVars, speculativeVars,
                         quicVars, h3Vars, tunnelVars, clientVars, swapVars>>
       \/ part = "tickets" /\ TLSNext
          /\ UNCHANGED <<sessionVars, cookieVars, managerVars, uploadVars, speculativeVars,
                         quicVars, h3Vars, tunnelVars, clientVars, swapVars>>
       \/ part = "upload" /\ UploadNext
          /\ UNCHANGED <<sessionVars, cookieVars, managerVars, tlsVars, speculativeVars,
                         quicVars, h3Vars, tunnelVars, clientVars, swapVars>>
       \/ part = "speculative" /\ SpeculativeNext
          /\ UNCHANGED <<sessionVars, cookieVars, managerVars, tlsVars, uploadVars,
                         quicVars, h3Vars, tunnelVars, clientVars, swapVars>>
       \/ part = "quic" /\ QUICNext
          /\ UNCHANGED <<sessionVars, cookieVars, managerVars, tlsVars, uploadVars,
                         speculativeVars, h3Vars, tunnelVars, clientVars, swapVars>>
       \/ part = "http3" /\ H3Next
          /\ UNCHANGED <<sessionVars, cookieVars, managerVars, tlsVars, uploadVars,
                         speculativeVars, quicVars, tunnelVars, clientVars, swapVars>>
       \/ part = "masque" /\ TunnelNext
          /\ UNCHANGED <<sessionVars, cookieVars, managerVars, tlsVars, uploadVars,
                         speculativeVars, quicVars, h3Vars, clientVars, swapVars>>
       \/ part = "client" /\ ClientNext
          /\ UNCHANGED <<sessionVars, cookieVars, managerVars, tlsVars, uploadVars,
                         speculativeVars, quicVars, h3Vars, tunnelVars, swapVars>>
       \/ part = "swap" /\ SwapNext
          /\ UNCHANGED <<sessionVars, cookieVars, managerVars, tlsVars, uploadVars,
                         speculativeVars, quicVars, h3Vars, tunnelVars, clientVars>>

StateSpec ==
    /\ StateInit
    /\ [][StateNext]_<<part, sessionVars, cookieVars, managerVars, tlsVars, uploadVars,
                      speculativeVars, quicVars, h3Vars, tunnelVars, clientVars, swapVars>>

\* The type invariant of the component that runs.
StateTypeOK ==
    CASE part = "session" -> SessionTypeOK
      [] part = "cookies" -> CookieTypeOK
      [] part = "manager" -> ManagerTypeOK
      [] part = "tickets" -> TLSTypeOK
      [] part = "upload" -> UploadTypeOK
      [] part = "speculative" -> SpeculativeTypeOK
      [] part = "quic" -> QUICTypeOK
      [] part = "http3" -> H3TypeOK
      [] part = "masque" -> TunnelTypeOK
      [] part = "client" -> ClientTypeOK
      [] part = "swap" -> SwapTypeOK
=============================================================================
