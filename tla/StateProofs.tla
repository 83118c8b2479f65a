----------------------------- MODULE StateProofs -----------------------------
(***************************************************************************)
(* Theorems about the state of a session and what goes out with a request: *)
(* the calls of a client in ClientRequest, the redirect chains of a        *)
(* session in Session, the cookies of its jar in CookieJar, the registry   *)
(* of SessionManager, a streaming upload in UploadStream, the tickets of   *)
(* TLSCache and the tunnel of SpeculativeConn.  The components share no    *)
(* state; each has an inductive invariant of its own.  The last section    *)
(* puts them together with those of TransportProofs and QUICPoolProofs, as *)
(* MCState does.                                                           *)
(***************************************************************************)
EXTENDS MCState, TransportProofs, QUICPoolProofs, FiniteSetTheorems, SequenceTheorems, TLAPS

-----------------------------------------------------------------------------
(* The calls of a client.                                                  *)

Doing ==
    [at : {"idle", "prepare", "choose", "try", "answer"}, call : CallSettings,
     home : ClientOrigins \cup {PlainOrigin}, origin : ClientOrigins \cup {PlainOrigin},
     method : CallMethods, body : BOOLEAN, reader : {"none", "fresh", "spent"}, auth : BOOLEAN,
     header : Owners, force : Protocols \cup {"auto"}, useH3 : BOOLEAN, plan : Seq(Protocols),
     attempt : 0..MaxClientRetries, hops : 0..MaxHops, nonce : BOOLEAN, digests : 0..MaxDigest,
     challenged : BOOLEAN, vetoed : BOOLEAN]

\* A hop that has its request prepared has a reader at its start; the caller's
\* authenticator and what it wrote stay on the origin the call began with.
Meant(d) ==
    /\ d \in Doing /\ ~d.vetoed
    /\ d.at \in {"choose", "try"} => d.reader # "spent"
    /\ d.at = "try" => d.plan # <<>>
    /\ d.auth \/ d.header = "request" => d.origin = d.home

ClientInv ==
    /\ setup \in Setups /\ Meant(doing)
    /\ wire.reader # "spent" /\ (wire.auth = "request" => wire.origin = wire.home)

\* Between two calls nothing is under way.
LEMMA NoDoingMeant ==
  ASSUME ClientConstants
  PROVE  Meant(NoDoing)
<1>1. NoClientCall \in CallSettings
  BY DEF NoClientCall, CallSettings, CallMethods, Protocols
<1>2. 0 \in 0..MaxClientRetries /\ 0 \in 0..MaxHops /\ 0 \in 0..MaxDigest
  BY DEF ClientConstants
<1>3. <<>> \in Seq(Protocols)
  OBVIOUS
<1>4. NoDoing \in Doing
  BY <1>1, <1>2, <1>3 DEF NoDoing, Doing, Owners, Protocols, CallMethods
<1> QED BY <1>4 DEF NoDoing, Meant

\* An attempt starts over from the caller's own request.
LEMMA FirstHopMeant ==
  ASSUME ClientConstants, NEW d \in Doing, ~d.vetoed
  PROVE  Meant(FirstHop(d)) /\ FirstHop(d).attempt = d.attempt /\ FirstHop(d).at = "prepare"
<1> DEFINE a == d.call.auth \in {"basic", "digest"}
           w == IF d.call.auth = "header" THEN "request" ELSE "none"
<1>1. d.call \in CallSettings
  BY DEF Doing
<1>2. d.call.method \in CallMethods /\ d.call.body \in BOOLEAN
  BY <1>1 DEF CallSettings
<1>3. a \in BOOLEAN /\ w \in Owners
  BY DEF Owners
<1>4. FirstHop(d) = [d EXCEPT !.at = "prepare", !.origin = d.home, !.method = d.call.method,
                       !.body = d.call.body, !.auth = a, !.hops = 0, !.header = w]
  BY DEF FirstHop
<1> HIDE DEF a, w
<1>5. 0 \in 0..MaxHops
  BY DEF ClientConstants
<1>6. FirstHop(d) \in Doing
  BY ZenonT(60), <1>2, <1>3, <1>4, <1>5 DEF Doing
<1>7. /\ FirstHop(d).at = "prepare" /\ FirstHop(d).origin = d.home /\ FirstHop(d).home = d.home
      /\ FirstHop(d).vetoed = d.vetoed /\ FirstHop(d).attempt = d.attempt
  BY <1>4 DEF Doing
<1> QED BY <1>6, <1>7 DEF Meant

\* So does the next turn of the retry loop.
LEMMA NextMeant ==
  ASSUME ClientConstants, NEW d \in Doing, ~d.vetoed
  PROVE  Meant(NextAttempt(d)) /\ NextAttempt(d).at \in {"idle", "prepare"}
<1>1. CASE d.attempt < MaxClientRetries
  <2> DEFINE f == FirstHop(d)
  <2>1. Meant(f) /\ f.attempt = d.attempt /\ f.at = "prepare"
    BY FirstHopMeant
  <2>2. NextAttempt(d) = [f EXCEPT !.attempt = f.attempt + 1]
    BY <1>1 DEF NextAttempt
  <2>3. f.attempt + 1 \in 0..MaxClientRetries
    BY <1>1, <2>1 DEF Doing, ClientConstants
  <2> HIDE DEF f
  <2> QED BY ZenonT(60), <2>1, <2>2, <2>3 DEF Meant, Doing
<1>2. CASE ~(d.attempt < MaxClientRetries)
  BY <1>2, NoDoingMeant DEF NextAttempt, NoDoing
<1> QED BY <1>1, <1>2

\* What follows an error: another attempt, or the end of the call.
LEMMA ErrorMeant ==
  ASSUME ClientConstants, NEW d \in Doing
  PROVE  Meant(AfterError(d))
BY NextMeant, NoDoingMeant DEF AfterError

\* The order of the protocols is a sequence of them, and not empty.
LEMMA PlanSeq ==
  ASSUME ClientConstants, setup \in Setups, Meant(doing)
  PROVE  LET p == IF Effective = "auto" THEN AutoPlan ELSE <<Effective>>
         IN  p \in Seq(Protocols) /\ p # <<>>
<1>1. doing.force \in Protocols \cup {"auto"}
  BY DEF Meant, Doing
<1>2. Effective \in Protocols \cup {"auto"}
  BY <1>1 DEF Effective, Protocols
<1>3. AutoPlan \in Seq(Protocols) /\ AutoPlan # <<>>
  <2>1. /\ <<"h1">> \in Seq(Protocols) /\ <<"h2">> \in Seq(Protocols)
        /\ <<"h1">> # <<>> /\ <<"h2">> # <<>>
    BY DEF Protocols
  <2>2. /\ <<"h3", "h2">> \in Seq(Protocols) /\ <<"h2", "h1">> \in Seq(Protocols)
        /\ <<"h3", "h2">> # <<>> /\ <<"h2", "h1">> # <<>>
    BY DEF Protocols
  <2>3. /\ <<"h3", "h2", "h1">> \in Seq(Protocols) /\ <<"h2", "h3", "h1">> \in Seq(Protocols)
        /\ <<"h3", "h2", "h1">> # <<>> /\ <<"h2", "h3", "h1">> # <<>>
    BY DEF Protocols
  <2>4. AutoPlan \in {<<"h1">>, <<"h2">>, <<"h3", "h2">>, <<"h2", "h1">>, <<"h3", "h2", "h1">>,
                     <<"h2", "h3", "h1">>}
    BY Zenon DEF AutoPlan
  <2> QED BY <2>1, <2>2, <2>3, <2>4
<1>4. Effective # "auto" => <<Effective>> \in Seq(Protocols) /\ <<Effective>> # <<>>
  BY <1>2
<1> QED BY <1>3, <1>4

\* What is left to try is a sequence of protocols too.
LEMMA FallbacksSeq ==
  ASSUME Meant(doing), doing.at = "try"
  PROVE  Fallbacks \in Seq(Protocols)
<1>1. doing.plan \in Seq(Protocols) /\ doing.plan # <<>>
  BY DEF Meant, Doing
<1>2. Tail(doing.plan) \in Seq(Protocols) /\ <<"h1">> \in Seq(Protocols)
  BY <1>1 DEF Protocols
<1> QED BY <1>2 DEF Fallbacks

\* A redirect writes two Boolean fields of the record.
LEMMA DoingBody ==
  ASSUME NEW d \in Doing, NEW b \in BOOLEAN
  PROVE  [d EXCEPT !.body = b] \in Doing
BY DEF Doing

\* A flag of a call may take any value.
LEMMA DoingAuth ==
  ASSUME NEW d \in Doing, NEW b \in BOOLEAN
  PROVE  [d EXCEPT !.auth = b] \in Doing
BY DEF Doing

\* Every step of a call keeps ClientInv.
LEMMA ClientStep ==
  ASSUME ClientConstants, ClientInv, [ClientNext]_clientVars
  PROVE  ClientInv'
<1>d. Meant(doing) /\ doing \in Doing /\ ~doing.vetoed
  BY DEF ClientInv, Meant
<1>k. ASSUME Meant(doing'), UNCHANGED <<setup, wire>> PROVE ClientInv'
  BY <1>k DEF ClientInv
<1>w. ASSUME Meant(doing'), UNCHANGED setup, Written, doing.at = "try" PROVE ClientInv'
  BY <1>d, <1>w DEF ClientInv, Written, Meant
<1>1. ASSUME NEW c \in ClientCalls, NEW o \in ClientOrigins, StartCall(c, o) PROVE ClientInv'
  <2> DEFINE n == [NoDoing EXCEPT !.call = c, !.home = o, !.force = c.force]
  <2>1. c \in CallSettings
    BY DEF ClientConstants
  <2>2. c.force \in Protocols \cup {"auto"}
    BY <2>1 DEF CallSettings
  <2>3. NoDoing \in Doing /\ ~NoDoing.vetoed
    BY NoDoingMeant DEF Meant
  <2>4. n \in Doing /\ ~n.vetoed
    BY <2>1, <2>2, <2>3 DEF Doing
  <2>5. doing' = FirstHop(n)
    BY <1>1 DEF StartCall
  <2> HIDE DEF n
  <2>6. Meant(doing')
    BY <2>4, <2>5, FirstHopMeant
  <2> QED BY <1>1, <1>k, <2>6 DEF StartCall
<1>2. ASSUME DoOnceFails PROVE ClientInv'
  BY <1>2, <1>d, <1>k, ErrorMeant DEF DoOnceFails
<1>3. ASSUME Prepare PROVE ClientInv'
  <2> DEFINE applies == IF doing.auth THEN doing.call.auth = "basic" \/ doing.nonce ELSE setup.auth
             owner == IF doing.auth THEN "request" ELSE "client"
             h3 == ShouldTryHTTP3(doing.origin)
             reader == IF doing.body THEN "fresh" ELSE "none"
             header == IF applies THEN owner ELSE doing.header
  <2>1. doing' = [doing EXCEPT !.at = "choose", !.useH3 = h3, !.reader = reader,
                               !.header = header]
    BY <1>3 DEF Prepare
  <2>2. h3 \in BOOLEAN /\ reader \in {"fresh", "none"} /\ owner \in Owners
    BY DEF ShouldTryHTTP3, Owners
  <2>3. header \in Owners /\ (header = "request" => doing.auth \/ doing.header = "request")
    BY <1>d, <2>2 DEF Doing
  <2> HIDE DEF h3, reader, header
  <2>4. Meant(doing')
    BY ZenonT(60), <1>d, <2>1, <2>2, <2>3 DEF Meant, Doing
  <2> QED BY <1>3, <1>k, <2>4 DEF Prepare
<1>4. ASSUME Choose PROVE ClientInv'
  <2> DEFINE p == IF Effective = "auto" THEN AutoPlan ELSE <<Effective>>
  <2>1. p \in Seq(Protocols) /\ p # <<>>
    BY <1>d, PlanSeq DEF ClientInv
  <2>2. doing.at = "choose" /\ doing' = [doing EXCEPT !.at = "try", !.plan = p]
    BY <1>4 DEF Choose
  <2> HIDE DEF p
  <2>3. Meant(doing')
    BY <1>d, <2>1, <2>2 DEF Meant, Doing
  <2> QED BY <1>4, <1>k, <2>3 DEF Choose
<1>5. ASSUME Answered PROVE ClientInv'
  <2> DEFINE reader == IF doing.reader = "none" THEN doing.reader ELSE "spent"
  <2>1. doing' = [doing EXCEPT !.at = "answer", !.reader = reader]
    BY <1>5 DEF Answered
  <2>2. reader \in {"none", "spent"}
    OBVIOUS
  <2> HIDE DEF reader
  <2>3. Meant(doing')
    BY <1>d, <2>1, <2>2 DEF Meant, Doing
  <2> QED BY <1>5, <1>w, <2>3 DEF Answered
<1>6. ASSUME NEW sent \in BOOLEAN, TryFails(sent) PROVE ClientInv'
  <2> DEFINE reader == IF sent /\ doing.reader # "none" THEN "spent" ELSE doing.reader
             new == ResetRequestBody(reader)
  <2>1. doing' = IF Fallbacks = <<>> THEN AfterError(doing)
                 ELSE [doing EXCEPT !.plan = Fallbacks, !.reader = new]
    BY <1>6 DEF TryFails
  <2>2. new \in {"none", "fresh"} /\ doing.at = "try"
    BY <1>6 DEF ResetRequestBody, TryFails
  <2> HIDE DEF new
  <2>3. Fallbacks \in Seq(Protocols)
    BY <1>d, <2>2, FallbacksSeq
  <2>4. Meant(doing')
    <3>1. CASE Fallbacks = <<>>
      BY <1>d, <2>1, <3>1, ErrorMeant
    <3>2. CASE Fallbacks # <<>>
      BY <1>d, <2>1, <2>2, <2>3, <3>2 DEF Meant, Doing
    <3> QED BY <3>1, <3>2
  <2>5. UNCHANGED setup /\ (Written \/ UNCHANGED wire)
    BY <1>6 DEF TryFails
  <2> QED BY <1>k, <1>w, <2>2, <2>4, <2>5
<1>7. ASSUME Deliver PROVE ClientInv'
  BY <1>7, <1>k, NoDoingMeant DEF Deliver
<1>8. ASSUME CookieChallenge PROVE ClientInv'
  <2> DEFINE n == NextAttempt(doing)
  <2>1. Meant(n) /\ n.at \in {"idle", "prepare"}
    BY <1>d, NextMeant
  <2>2. doing' = IF n.at = "idle" THEN NoDoing ELSE [n EXCEPT !.challenged = TRUE]
    BY <1>8 DEF CookieChallenge
  <2> HIDE DEF n
  <2>3. Meant(doing')
    BY ZenonT(60), <2>1, <2>2, NoDoingMeant DEF Meant, Doing
  <2> QED BY <1>8, <1>k, <2>3 DEF CookieChallenge
<1>9. ASSUME RetryStatus PROVE ClientInv'
  BY <1>9, <1>d, <1>k, NextMeant DEF RetryStatus
<1>10. ASSUME DigestChallenge PROVE ClientInv'
  <2>1. /\ doing' = [doing EXCEPT !.at = "prepare", !.nonce = TRUE, !.digests = doing.digests + 1]
        /\ doing.digests < MaxDigest
    BY <1>10 DEF DigestChallenge
  <2>2. doing.digests + 1 \in 0..MaxDigest
    BY <1>d, <2>1 DEF Doing, ClientConstants
  <2>3. Meant(doing')
    BY <1>d, <2>1, <2>2 DEF Meant, Doing
  <2> QED BY <1>10, <1>k, <2>3 DEF DigestChallenge
<1>11. ASSUME Veto PROVE ClientInv'
  <2>1. [doing EXCEPT !.vetoed = TRUE] \in Doing
    BY <1>d DEF Doing
  <2>2. Meant(doing')
    BY <1>11, <2>1, ErrorMeant DEF Veto
  <2> QED BY <1>11, <1>k, <2>2 DEF Veto
<1>12. ASSUME NEW status \in {302, 303, 307}, NEW to \in ClientOrigins \cup {PlainOrigin},
              Redirect(status, to)
       PROVE  ClientInv'
  <2> DEFINE method == IF status = 303 \/ (status = 302 /\ doing.method = "POST")
                       THEN "GET" ELSE doing.method
             body == doing.body /\ status = 307
             auth == doing.auth /\ doing.origin = to
             header == IF doing.origin = to THEN doing.header ELSE "none"
  <2>1. /\ doing' = [doing EXCEPT !.at = "prepare", !.origin = to, !.hops = doing.hops + 1,
                        !.method = method, !.body = body, !.auth = auth, !.header = header]
        /\ doing.hops < MaxHops
    BY <1>12 DEF Redirect, SameOriginClient, Carried
  <2>2. /\ method \in CallMethods /\ header \in Owners
        /\ body \in BOOLEAN /\ auth \in BOOLEAN
    <3>1. method \in CallMethods /\ header \in Owners
      BY <1>d DEF Doing, Owners, CallMethods
    <3>2. body \in BOOLEAN /\ auth \in BOOLEAN
      BY Zenon
    <3> QED BY <3>1, <3>2
  <2>3. doing.hops + 1 \in 0..MaxHops
    BY <1>d, <2>1 DEF Doing, ClientConstants
  <2>4. auth \/ header = "request" =>
           doing.origin = to /\ (doing.auth \/ doing.header = "request")
    OBVIOUS
  <2> HIDE DEF method, body, auth, header
  <2>5. doing' \in Doing
    <3> DEFINE n == [doing EXCEPT !.at = "prepare", !.origin = to, !.hops = doing.hops + 1]
    <3>1. to \in ClientOrigins \cup {PlainOrigin}
      BY <1>12
    <3>2. n \in Doing
      BY <1>d, <2>3, <3>1 DEF Doing
    <3>3. doing' = [n EXCEPT !.method = method, !.body = body, !.auth = auth, !.header = header]
      BY <2>1
    <3> HIDE DEF n
    <3> DEFINE m == [n EXCEPT !.method = method, !.header = header]
    <3>4. m \in Doing
      BY <2>2, <3>2 DEF Doing
    <3>5. doing' = [[m EXCEPT !.body = body] EXCEPT !.auth = auth]
      BY <3>2, <3>3 DEF Doing
    <3> HIDE DEF m
    <3> QED BY <2>2, <3>4, <3>5, DoingBody, DoingAuth
  <2>6. /\ doing'.at = "prepare" /\ doing'.origin = to /\ doing'.home = doing.home
        /\ doing'.vetoed = doing.vetoed /\ doing'.auth = auth /\ doing'.header = header
    BY <1>d, <2>1 DEF Doing
  <2>7. Meant(doing')
    BY <1>d, <2>4, <2>5, <2>6 DEF Meant
  <2> QED BY <1>12, <1>k, <2>7 DEF Redirect
<1>13. ASSUME NEW o \in ClientOrigins, FailureExpires(o) PROVE ClientInv'
  BY <1>13, <1>d, <1>k DEF FailureExpires
<1>14. CASE UNCHANGED clientVars
  BY <1>14, <1>d, <1>k DEF clientVars
<1> QED BY <1>1, <1>2, <1>3, <1>4, <1>5, <1>6, <1>7, <1>8, <1>9, <1>10, <1>11, <1>12, <1>13,
    <1>14 DEF ClientNext

\* What the type invariant says besides: only https origins are in the failure
\* caches, and a plan names each protocol at most once.
ClientBounds ==
    /\ h3Failures \subseteq ClientOrigins /\ h2Failures \subseteq ClientOrigins
    /\ clientCalls \in 0..MaxClientCalls
    /\ Len(doing.plan) <= 3
    /\ doing.at \in {"choose", "try"} => doing.origin # PlainOrigin
    /\ wire.reader \in {"none", "fresh", "spent"} /\ wire.auth \in Owners

\* A new attempt keeps the old plan until it chooses its own.
LEMMA AttemptPlan ==
  ASSUME NEW d \in Doing
  PROVE  /\ FirstHop(d).plan = d.plan /\ FirstHop(d).at = "prepare"
         /\ NextAttempt(d).plan \in {d.plan, <<>>} /\ NextAttempt(d).at \in {"idle", "prepare"}
         /\ AfterError(d).plan \in {d.plan, <<>>} /\ AfterError(d).at \in {"idle", "prepare"}
<1>1. FirstHop(d).plan = d.plan /\ FirstHop(d).at = "prepare" /\ FirstHop(d).attempt = d.attempt
  BY DEF FirstHop, Doing
<1>2. NoDoing.plan = <<>> /\ NoDoing.at = "idle"
  BY DEF NoDoing
<1> DEFINE f == FirstHop(d)
<1>3. [f EXCEPT !.attempt = @ + 1].plan = f.plan /\ [f EXCEPT !.attempt = @ + 1].at = f.at
  BY DEF FirstHop, Doing
<1>4. NextAttempt(d) \in {[f EXCEPT !.attempt = @ + 1], NoDoing}
  BY DEF NextAttempt
<1> HIDE DEF f
<1>5. f.plan = d.plan /\ f.at = "prepare"
  BY <1>1 DEF f
<1>6. NextAttempt(d).plan \in {d.plan, <<>>} /\ NextAttempt(d).at \in {"idle", "prepare"}
  BY <1>2, <1>3, <1>4, <1>5
<1>7. AfterError(d) \in {NextAttempt(d), NoDoing}
  BY DEF AfterError
<1> QED BY <1>1, <1>2, <1>6, <1>7

\* No order of protocols is longer than three.
LEMMA PlanShort ==
  /\ AutoPlan \in Seq(Protocols) /\ Len(AutoPlan) <= 3
  /\ \A p : Len(<<p>>) = 1
<1>1. AutoPlan \in {<<"h1">>, <<"h2">>, <<"h3", "h2">>, <<"h2", "h1">>, <<"h3", "h2", "h1">>,
                    <<"h2", "h3", "h1">>}
  BY Zenon DEF AutoPlan
<1>2. \A p, q, r : Len(<<p>>) = 1 /\ Len(<<p, q>>) = 2 /\ Len(<<p, q, r>>) = 3
  OBVIOUS
<1>3. /\ <<"h1">> \in Seq(Protocols) /\ <<"h2">> \in Seq(Protocols)
      /\ <<"h3", "h2">> \in Seq(Protocols) /\ <<"h2", "h1">> \in Seq(Protocols)
  BY DEF Protocols
<1>4. <<"h3", "h2", "h1">> \in Seq(Protocols) /\ <<"h2", "h3", "h1">> \in Seq(Protocols)
  BY DEF Protocols
<1>5. Len(AutoPlan) \in {1, 2, 3}
  BY <1>1, <1>2
<1> QED BY SMTT(40), <1>1, <1>2, <1>3, <1>4, <1>5

\* Every step of a call keeps ClientBounds.
LEMMA ClientBoundsStep ==
  ASSUME ClientConstants, ClientInv, ClientBounds, [ClientNext]_clientVars
  PROVE  ClientBounds'
<1>d. /\ doing \in Doing /\ doing.plan \in Seq(Protocols)
      /\ doing.reader \in {"none", "fresh", "spent"}
      /\ doing.header \in Owners /\ doing.origin \in ClientOrigins \cup {PlainOrigin}
      /\ Len(doing.plan) \in Nat /\ Len(doing.plan) <= 3
      /\ doing.at = "try" => doing.plan # <<>>
      /\ doing.at \in {"choose", "try"} => doing.origin \in ClientOrigins
  BY DEF ClientInv, Meant, Doing, ClientBounds
<1>e. Len(<<>>) = 0
  OBVIOUS
<1>k. ASSUME UNCHANGED <<h3Failures, h2Failures, wire, clientCalls>>,
             doing'.plan \in {doing.plan, <<>>}, doing'.at \in {"idle", "prepare", "answer"}
      PROVE  ClientBounds'
  BY <1>d, <1>e, <1>k DEF ClientBounds
<1>w. ASSUME Written
      PROVE  wire'.reader \in {"none", "fresh", "spent"} /\ wire'.auth \in Owners
  BY <1>d, <1>w DEF Written
<1>1. ASSUME NEW c \in ClientCalls, NEW o \in ClientOrigins, StartCall(c, o) PROVE ClientBounds'
  <2> DEFINE n == [NoDoing EXCEPT !.call = c, !.home = o, !.force = c.force]
  <2>1. n \in Doing /\ n.plan = <<>>
    <3>1. c \in CallSettings
      BY DEF ClientConstants
    <3>2. c.force \in Protocols \cup {"auto"}
      BY <3>1 DEF CallSettings
    <3>3. NoDoing \in Doing /\ NoDoing.plan = <<>>
      BY NoDoingMeant DEF Meant, NoDoing
    <3> QED BY <3>1, <3>2, <3>3 DEF Doing
  <2>2. /\ doing' = FirstHop(n) /\ clientCalls < MaxClientCalls /\ clientCalls' = clientCalls + 1
        /\ UNCHANGED <<h3Failures, h2Failures, wire>>
    BY <1>1 DEF StartCall
  <2> HIDE DEF n
  <2>3. doing'.plan = <<>> /\ doing'.at = "prepare"
    BY <2>1, <2>2, AttemptPlan
  <2>4. clientCalls' \in 0..MaxClientCalls
    BY <2>2 DEF ClientBounds, ClientConstants
  <2> QED BY <1>e, <2>2, <2>3, <2>4 DEF ClientBounds
<1>2. ASSUME DoOnceFails PROVE ClientBounds'
  BY <1>2, <1>d, <1>k, AttemptPlan DEF DoOnceFails
<1>3. ASSUME Prepare PROVE ClientBounds'
  <2>1. /\ doing'.plan = doing.plan /\ doing'.origin = doing.origin
        /\ doing.origin # PlainOrigin /\ UNCHANGED <<h3Failures, h2Failures, wire, clientCalls>>
    BY <1>3, <1>d DEF Prepare, Doing
  <2> QED BY <2>1 DEF ClientBounds
<1>4. ASSUME Choose PROVE ClientBounds'
  <2> DEFINE p == IF Effective = "auto" THEN AutoPlan ELSE <<Effective>>
  <2>1. /\ doing.at = "choose" /\ doing' = [doing EXCEPT !.at = "try", !.plan = p]
        /\ UNCHANGED <<h3Failures, h2Failures, wire, clientCalls>>
    BY <1>4 DEF Choose
  <2>2. Len(p) <= 3
    BY PlanShort
  <2> HIDE DEF p
  <2>3. doing'.plan = p /\ doing'.origin = doing.origin
    BY <1>d, <2>1 DEF Doing
  <2> QED BY <2>1, <2>2, <2>3 DEF ClientBounds
<1>5. ASSUME Answered PROVE ClientBounds'
  <2>1. /\ doing'.plan = doing.plan /\ doing'.at = "answer" /\ Written
        /\ UNCHANGED <<h3Failures, h2Failures, clientCalls>>
    BY <1>5, <1>d DEF Answered, Doing
  <2> QED BY <1>w, <2>1 DEF ClientBounds
<1>6. ASSUME NEW sent \in BOOLEAN, TryFails(sent) PROVE ClientBounds'
  <2>1. doing.at = "try" /\ UNCHANGED clientCalls /\ (Written \/ UNCHANGED wire)
    BY <1>6 DEF TryFails
  <2>2. doing.origin \in ClientOrigins
    BY <1>d, <2>1
  <2>3. h3Failures' \subseteq ClientOrigins /\ h2Failures' \subseteq ClientOrigins
    BY <1>6, <2>2 DEF TryFails, ClientBounds
  <2>4. Fallbacks \in Seq(Protocols) /\ Len(Fallbacks) <= 3
    <3>1. Len(Tail(doing.plan)) = Len(doing.plan) - 1 /\ Tail(doing.plan) \in Seq(Protocols)
      BY <1>d, <2>1
    <3>2. Len(Tail(doing.plan)) <= 3
      BY <1>d, <3>1
    <3>3. Len(<<"h1">>) <= 3 /\ <<"h1">> \in Seq(Protocols)
      BY DEF Protocols
    <3> QED BY <3>1, <3>2, <3>3 DEF Fallbacks
  <2>5. doing'.origin \in ClientOrigins \/ doing'.at \in {"idle", "prepare"}
    <3>1. CASE Fallbacks = <<>>
      BY <1>6, <1>d, <3>1, AttemptPlan DEF TryFails
    <3>2. CASE Fallbacks # <<>>
      <4> DEFINE r == ResetRequestBody(IF sent /\ doing.reader # "none" THEN "spent"
                                       ELSE doing.reader)
      <4>1. doing' = [doing EXCEPT !.plan = Fallbacks, !.reader = r]
        BY <1>6, <3>2 DEF TryFails
      <4> HIDE DEF r
      <4>2. doing'.plan = Fallbacks /\ doing'.origin = doing.origin
        BY <1>d, <4>1 DEF Doing
      <4> QED BY <2>2, <2>4, <4>2
    <3> QED BY <3>1, <3>2
  <2>6. Len(doing'.plan) <= 3
    <3>1. CASE Fallbacks = <<>>
      BY <1>6, <1>d, <1>e, <3>1, AttemptPlan DEF TryFails
    <3>2. CASE Fallbacks # <<>>
      <4> DEFINE r == ResetRequestBody(IF sent /\ doing.reader # "none" THEN "spent"
                                       ELSE doing.reader)
      <4>1. doing' = [doing EXCEPT !.plan = Fallbacks, !.reader = r]
        BY <1>6, <3>2 DEF TryFails
      <4> HIDE DEF r
      <4>2. doing'.plan = Fallbacks
        BY <1>d, <4>1 DEF Doing
      <4> QED BY <2>4, <4>2
    <3> QED BY <3>1, <3>2
  <2>7. doing'.at \in {"choose", "try"} => doing'.origin # PlainOrigin
    BY <2>5 DEF ClientConstants
  <2> QED BY <1>w, <2>1, <2>3, <2>6, <2>7 DEF ClientBounds
<1>7. ASSUME Deliver PROVE ClientBounds'
  BY <1>7, <1>k DEF Deliver, NoDoing
<1>8. ASSUME CookieChallenge PROVE ClientBounds'
  <2> DEFINE n == NextAttempt(doing)
  <2>1. Meant(n) /\ n.at \in {"idle", "prepare"} /\ n.plan \in {doing.plan, <<>>}
    BY <1>d, NextMeant, AttemptPlan DEF ClientInv, Meant
  <2>2. doing' = IF n.at = "idle" THEN NoDoing ELSE [n EXCEPT !.challenged = TRUE]
    BY <1>8 DEF CookieChallenge
  <2> HIDE DEF n
  <2>3. doing'.plan \in {doing.plan, <<>>} /\ doing'.at \in {"idle", "prepare"}
    BY <2>1, <2>2 DEF Meant, Doing, NoDoing
  <2> QED BY <1>8, <1>k, <2>3 DEF CookieChallenge
<1>9. ASSUME RetryStatus PROVE ClientBounds'
  BY <1>9, <1>d, <1>k, AttemptPlan DEF RetryStatus
<1>10. ASSUME DigestChallenge PROVE ClientBounds'
  BY <1>10, <1>d, <1>k DEF DigestChallenge, Doing
<1>11. ASSUME Veto PROVE ClientBounds'
  <2> DEFINE d == [doing EXCEPT !.vetoed = TRUE]
  <2>1. d \in Doing /\ d.plan = doing.plan
    BY <1>d DEF Doing
  <2>2. doing' = AfterError(d) /\ UNCHANGED <<h3Failures, h2Failures, wire, clientCalls>>
    BY <1>11 DEF Veto
  <2> HIDE DEF d
  <2> QED BY <1>k, <2>1, <2>2, AttemptPlan
<1>12. ASSUME NEW status \in {302, 303, 307}, NEW to \in ClientOrigins \cup {PlainOrigin},
              Redirect(status, to)
       PROVE  ClientBounds'
  <2>1. doing'.plan = doing.plan /\ doing'.at = "prepare"
    BY <1>12, <1>d DEF Redirect, Doing
  <2> QED BY <1>12, <1>k, <2>1 DEF Redirect
<1>13. ASSUME NEW o \in ClientOrigins, FailureExpires(o) PROVE ClientBounds'
  BY <1>13 DEF FailureExpires, ClientBounds
<1>14. CASE UNCHANGED clientVars
  BY <1>14 DEF clientVars, ClientBounds
<1> QED BY <1>1, <1>2, <1>3, <1>4, <1>5, <1>6, <1>7, <1>8, <1>9, <1>10, <1>11, <1>12, <1>13,
    <1>14 DEF ClientNext

\* The two invariants make the type invariant.
LEMMA ClientTyped ==
  ASSUME ClientInv, ClientBounds
  PROVE  ClientTypeOK
<1>1. doing \in Doing
  BY DEF ClientInv, Meant
<1>2. DOMAIN doing = DOMAIN NoDoing
  BY <1>1 DEF Doing, NoDoing
<1>3. /\ doing.at \in {"idle", "prepare", "choose", "try", "answer"}
      /\ doing.reader \in {"none", "fresh", "spent"} /\ doing.header \in Owners
      /\ doing.plan \in Seq(Protocols)
      /\ doing.attempt \in 0..MaxClientRetries /\ doing.hops \in 0..MaxHops
  BY <1>1 DEF Doing
<1> QED BY <1>2, <1>3 DEF ClientInv, ClientBounds, ClientTypeOK

\* A call starts with nothing sent.
LEMMA ClientStarts ==
  ASSUME ClientConstants, ClientInit
  PROVE  ClientInv /\ ClientBounds
<1>1. ClientInv
  BY NoDoingMeant DEF ClientInit, ClientInv
<1>2. ClientBounds
  BY DEF ClientInit, ClientBounds, ClientConstants, NoDoing, Owners
<1> QED BY <1>1, <1>2

\* What the two invariants say of the code.
LEMMA ClientSound ==
  ASSUME ClientInv, ClientBounds
  PROVE  ClientTypeOK /\ SentAsMeant
BY ClientTyped DEF ClientInv, Meant, SentAsMeant

\* Through retries, fallbacks, challenges and redirects: no reader goes out that
\* an earlier exchange has used up, the request's own credentials stay on its
\* origin, and a hop that OnRedirect refused ends the call.
THEOREM ClientSafe == ClientSpec => [](ClientTypeOK /\ SentAsMeant)
<1>1. ClientInit => ClientInv /\ ClientBounds
  BY ClientStarts, ClientConstants
<1>2. ClientInv /\ ClientBounds /\ [ClientNext]_clientVars => (ClientInv /\ ClientBounds)'
  BY ClientStep, ClientBoundsStep, ClientConstants
<1>3. ClientInv /\ ClientBounds => ClientTypeOK /\ SentAsMeant
  BY ClientSound
<1> QED BY <1>1, <1>2, <1>3, PTL DEF ClientSpec


-----------------------------------------------------------------------------
(* Session: a chain of hops and attempts.                                  *)

Stages == {"free", "gate", "attempt", "wire", "backoff"}
RequestStates ==
    [pc : Stages, session : Sessions, url : Urls \cup {NoUrl}, method : MethodKinds,
     body : BodyKinds, reader : {"fresh", "drained"}, headers : SUBSET Headers,
     hop : 0..MaxRedirects, attempt : 0..MaxRetries, stream : BOOLEAN, owed : BOOLEAN]

\* CredentialsConfined says this of the wire alone; it has to hold of a set of
\* headers at every stage, for a hop inherits them from the one before.
Fits(headers, url, hop) ==
    \A h \in headers :
        /\ h[1] \in {"auth", "referer"} => SameOrigin(h[2], url)
        /\ h[1] = "usercookie" => hop = 0 /\ h[2] = url
        /\ h[1] = "cookie" => h[2] = url.host
        /\ h[1] = "origin" => ~IsSchemeDowngrade(h[2], url)

\* Who has the body when: a hop starts with a reader nobody has read, and an
\* attempt with one that is so or is opened again; only what can be opened
\* again waits for another attempt, and only while attempts are left.
BodyReady(q) ==
    /\ q.owed => q.body # "none"
    /\ q.pc = "gate" => q.reader = "fresh"
    /\ q.pc = "attempt" => \/ q.reader = "fresh" \/ q.body \notin Readers
                           \/ q.body = "replayable" /\ q.attempt > 0
    /\ q.pc = "wire" /\ q.body \in Readers => q.reader = "fresh"
    /\ q.pc = "backoff" => q.body # "oneshot" /\ q.attempt < MaxRetries

RequestOK(q) ==
    /\ q \in RequestStates
    /\ q.pc # "free" => q.url \in Urls
    /\ Fits(q.headers, q.url, q.hop)
    /\ BodyReady(q)

SessionInv ==
    /\ request \in [Requests -> RequestStates]
    /\ \A r \in Requests : RequestOK(request[r])

\* A free slot is in order.
LEMMA FreeOK ==
  ASSUME SessionConstants
  PROVE  RequestOK(Free)
<1>1. Free \in RequestStates
  <2>1. 0 \in 0..MaxRedirects /\ 0 \in 0..MaxRetries
    BY DEF SessionConstants
  <2>2. FirstSession \in Sessions
    BY DEF SessionConstants
  <2> QED BY <2>1, <2>2 DEF Free, RequestStates, Stages, MethodKinds, BodyKinds
<1>2. Free.pc = "free" /\ Free.headers = {} /\ Free.owed = FALSE /\ Free.reader = "fresh"
  BY DEF Free
<1>3. Fits(Free.headers, Free.url, Free.hop) /\ BodyReady(Free)
  BY <1>2 DEF Fits, BodyReady
<1> QED BY <1>1, <1>2, <1>3 DEF RequestOK

\* Setting a header adds that header and no other.
LEMMA PutFits ==
  ASSUME NEW hs \in SUBSET Headers, NEW h \in Headers, NEW url, NEW hop,
         Fits(hs, url, hop), Fits({h}, url, hop)
  PROVE  Put(hs, h) \in SUBSET Headers /\ Fits(Put(hs, h), url, hop)
<1>1. Put(hs, h) \subseteq hs \cup {h}
  BY DEF Put
<1> QED BY <1>1 DEF Fits

\* The headers a URL gives rise to.
LEMMA UrlHeaders ==
  ASSUME NEW url \in Urls
  PROVE  /\ <<"auth", url>> \in Headers /\ <<"usercookie", url>> \in Headers
         /\ <<"validator", url>> \in Headers /\ <<"referer", url>> \in Headers
         /\ <<"origin", url>> \in Headers /\ <<"ctype", url>> \in Headers
         /\ <<"cookie", url.host>> \in Headers /\ <<"hint", url.host>> \in Headers
         /\ <<"maxage", NoUrl>> \in Headers
<1>1. url.host \in UrlHosts
  BY DEF UrlHosts
<1> QED BY <1>1 DEF Headers

\* The validators added are those of the URL requested.
LEMMA ValidatorsFit ==
  ASSUME NEW s, NEW q \in RequestStates, q.url \in Urls, Fits(q.headers, q.url, q.hop)
  PROVE  /\ WithValidators(s, q) \in SUBSET Headers
         /\ Fits(WithValidators(s, q), q.url, q.hop)
<1> DEFINE age == <<"maxage", NoUrl>>
           val == <<"validator", q.url>>
           fresh == IF s.refreshed THEN Put(q.headers, age) ELSE q.headers
<1>1. age \in Headers /\ val \in Headers /\ q.headers \in SUBSET Headers
  BY UrlHeaders DEF RequestStates
<1>2. Fits({age}, q.url, q.hop) /\ Fits({val}, q.url, q.hop)
  BY DEF Fits
<1>3. WithValidators(s, q) = IF s.conditionalCacheEnabled /\ q.url \in s.cacheEntries
                            THEN Put(fresh, val) ELSE fresh
  BY DEF WithValidators
<1> HIDE DEF age, val
<1>4. fresh \in SUBSET Headers /\ Fits(fresh, q.url, q.hop)
  BY <1>1, <1>2, PutFits
<1> HIDE DEF fresh
<1>5. Put(fresh, val) \in SUBSET Headers /\ Fits(Put(fresh, val), q.url, q.hop)
  BY <1>1, <1>2, <1>4, PutFits
<1> QED BY <1>3, <1>4, <1>5

\* The cookies added are those of the host requested.
LEMMA CookiesFit ==
  ASSUME NEW q \in RequestStates, q.url \in Urls, Fits(q.headers, q.url, q.hop)
  PROVE  WithCookies(q) \in SUBSET Headers /\ Fits(WithCookies(q), q.url, q.hop)
<1> DEFINE c == <<"cookie", q.url.host>>
           less == q.headers \ Of({"cookie"})
<1>1. c \in Headers /\ q.headers \in SUBSET Headers
  BY UrlHeaders DEF RequestStates
<1>2. Fits({c}, q.url, q.hop) /\ less \in SUBSET Headers /\ Fits(less, q.url, q.hop)
  BY <1>1 DEF Fits
<1>3. WithCookies(q) \in {Put(q.headers, c), less, q.headers}
  BY DEF WithCookies
<1> HIDE DEF c, less
<1>4. Put(q.headers, c) \in SUBSET Headers /\ Fits(Put(q.headers, c), q.url, q.hop)
  BY <1>1, <1>2, PutFits
<1> QED BY <1>1, <1>2, <1>3, <1>4

\* The client hints added are those the host requested asked for.
LEMMA HintsFit ==
  ASSUME NEW s, NEW url \in Urls, NEW hop, NEW hs \in SUBSET Headers, Fits(hs, url, hop)
  PROVE  /\ WithHints(s, url.host, hs) \in SUBSET Headers
         /\ Fits(WithHints(s, url.host, hs), url, hop)
<1> DEFINE h == <<"hint", url.host>>
<1>0. h \in Headers
  BY UrlHeaders
<1>1. h \in Headers /\ Fits({h}, url, hop)
  BY <1>0 DEF Fits
<1>2. WithHints(s, url.host, hs) \in {hs \cup {h}, hs}
  BY DEF WithHints
<1> HIDE DEF h
<1>3. hs \cup {h} \in SUBSET Headers /\ Fits(hs \cup {h}, url, hop)
  BY <1>1 DEF Fits
<1> QED BY <1>2, <1>3

\* What a hop inherits, with its Referer, fits the next URL: the Cookie headers
\* and the Referer were taken off, and the credentials where the origin changes.
LEMMA HopFits ==
  ASSUME NEW hs \in SUBSET Headers, NEW u \in Urls, NEW v \in Urls, NEW m, NEW n,
         NEW hop, NEW next, Fits(hs, u, hop)
  PROVE  /\ (CopiedHeaders(hs, u, v, m, n) \cup Referer(u, v)) \in SUBSET Headers
         /\ Fits(CopiedHeaders(hs, u, v, m, n) \cup Referer(u, v), v, next)
<1> DEFINE copied == CopiedHeaders(hs, u, v, m, n)
           ref == Referer(u, v)
<1>1. /\ \A h \in copied : h \in hs /\ h[1] \notin {"usercookie", "cookie", "referer", "origin"}
      /\ SameOrigin(u, v) \/ \A h \in copied : h[1] # "auth"
  BY DEF CopiedHeaders, Of
<1>2. copied \in SUBSET Headers /\ Fits(copied, v, next)
  BY <1>1 DEF Fits, SameOrigin
<1>3. ref \in SUBSET Headers
  BY UrlHeaders DEF Referer
<1>4. Fits(ref, v, next)
  BY DEF Referer, Fits
<1> HIDE DEF copied, ref
<1>5. copied \cup ref \in SUBSET Headers /\ Fits(copied \cup ref, v, next)
  BY <1>2, <1>3, <1>4 DEF Fits
<1> QED BY <1>5 DEF copied, ref

\* A request on the wire has its reader read: nothing else of it changes.
LEMMA DrainedOK ==
  ASSUME NEW q \in RequestStates
  PROVE  /\ Drained(q) \in RequestStates
         /\ Drained(q).pc = q.pc /\ Drained(q).session = q.session /\ Drained(q).url = q.url
         /\ Drained(q).method = q.method /\ Drained(q).body = q.body
         /\ Drained(q).headers = q.headers /\ Drained(q).hop = q.hop
         /\ Drained(q).attempt = q.attempt /\ Drained(q).stream = q.stream
         /\ Drained(q).owed = q.owed
BY DEF Drained, RequestStates

\* The two Boolean fields of a request.
LEMMA StreamStates ==
  ASSUME NEW q \in RequestStates, NEW b \in BOOLEAN
  PROVE  [q EXCEPT !.stream = b] \in RequestStates
BY DEF RequestStates

\* A flag of a request may take any value.
LEMMA OwedStates ==
  ASSUME NEW q \in RequestStates, NEW b \in BOOLEAN
  PROVE  [q EXCEPT !.owed = b] \in RequestStates
BY DEF RequestStates

\* Every step of a request, of a session or of the jar keeps SessionInv.
LEMMA SessionStep ==
  ASSUME SessionConstants, SessionInv, [SessionNext]_sessionVars
  PROVE  SessionInv'
<1>f. RequestOK(Free)
  BY FreeOK
<1>s. ASSUME NEW r \in Requests, NEW n, RequestOK(n), SetSession(r, n) PROVE SessionInv'
  <2>1. n \in RequestStates /\ request' = [request EXCEPT ![r] = n]
    BY <1>s DEF RequestOK, SetSession
  <2>2. request' \in [Requests -> RequestStates]
    BY <2>1 DEF SessionInv
  <2>3. ASSUME NEW x \in Requests PROVE RequestOK(request'[x])
    BY <1>s, <2>1, <2>3 DEF SessionInv
  <2> QED BY <2>2, <2>3 DEF SessionInv
<1>e. ASSUME NEW r \in Requests, Ends(r) PROVE SessionInv'
  BY <1>f, <1>s, <1>e DEF Ends
<1>u. ASSUME UNCHANGED request PROVE SessionInv'
  BY <1>u DEF SessionInv
<1>q. ASSUME NEW r \in Requests PROVE RequestOK(request[r])
  BY DEF SessionInv
<1>r. ASSUME NEW r \in Requests
      PROVE  /\ RequestOK(request[r]) /\ request[r] \in RequestStates
             /\ request[r].pc # "free" => request[r].url \in Urls
             /\ Fits(request[r].headers, request[r].url, request[r].hop)
  BY <1>q, <1>r DEF RequestOK
<1>n. MaxRetries \in Nat /\ MaxRedirects \in Nat
  BY DEF SessionConstants
<1>1. ASSUME NEW r \in Requests, BeginCall(r) PROVE SessionInv'
  <2>1. PICK s \in Sessions, u \in Urls, c \in Calls :
           SetSession(r, [Free EXCEPT !.pc = "gate", !.session = s, !.url = u, !.method = c.method,
                        !.body = c.body, !.stream = c.stream, !.owed = c.body # "none",
                        !.headers = {<<"auth", u>>, <<"usercookie", u>>}
                                    \cup (IF c.body = "none" THEN {} ELSE {<<"ctype", u>>})])
    BY <1>1 DEF BeginCall
  <2> DEFINE hs == {<<"auth", u>>, <<"usercookie", u>>}
                   \cup (IF c.body = "none" THEN {} ELSE {<<"ctype", u>>})
             owed == c.body # "none"
             n == [Free EXCEPT !.pc = "gate", !.session = s, !.url = u, !.method = c.method,
                        !.body = c.body, !.stream = c.stream, !.owed = owed, !.headers = hs]
  <2>2. c.method \in MethodKinds /\ c.body \in BodyKinds /\ c.stream \in BOOLEAN
    BY <2>1 DEF SessionConstants
  <2>3. hs \in SUBSET Headers
    BY <2>1, UrlHeaders
  <2>4. Fits(hs, u, 0)
    BY DEF Fits, SameOrigin
  <2>5. owed \in BOOLEAN /\ (owed => c.body # "none")
    BY Zenon
  <2> HIDE DEF hs, owed
  <2>6. n \in RequestStates
    <3>1. Free \in RequestStates
      BY <1>f DEF RequestOK
    <3>2. s \in Sessions /\ u \in Urls
      BY <2>1
    <3> DEFINE a == [Free EXCEPT !.pc = "gate", !.session = s, !.url = u, !.method = c.method,
                                 !.body = c.body, !.headers = hs]
               b == [a EXCEPT !.stream = c.stream]
    <3>3. a \in RequestStates
      BY <2>2, <2>3, <3>1, <3>2 DEF RequestStates, Stages
    <3>4. n = [b EXCEPT !.owed = owed]
      BY <3>1 DEF RequestStates
    <3> HIDE DEF a, n
    <3>5. b \in RequestStates
      BY <2>2, <3>3, StreamStates
    <3> HIDE DEF b
    <3> QED BY <2>5, <3>4, <3>5, OwedStates
  <2>7. /\ n.pc = "gate" /\ n.url = u /\ n.headers = hs /\ n.hop = 0 /\ n.body = c.body
        /\ n.owed = owed /\ n.reader = "fresh"
    BY DEF Free
  <2>8. RequestOK(n)
    BY <2>1, <2>4, <2>5, <2>6, <2>7 DEF RequestOK, BodyReady
  <2>9. SetSession(r, n)
    BY <2>1 DEF hs, owed
  <2> HIDE DEF n
  <2> QED BY <1>s, <2>8, <2>9
<1>2. ASSUME NEW r \in Requests, Gate(r) \/ StreamGate(r) PROVE SessionInv'
  <2> DEFINE q == request[r]
  <2>1. q \in RequestStates /\ RequestOK(q) /\ q.pc = "gate" /\ q.url \in Urls
    BY <1>2, <1>r DEF Gate, StreamGate
  <2>2. PICK hs : /\ hs \in {WithValidators(session[q.session], q), WithCookies(q)}
                  /\ SetSession(r, [q EXCEPT !.pc = "attempt", !.headers = hs]) \/ Ends(r)
    BY <1>2 DEF Gate, StreamGate
  <2>3. hs \in SUBSET Headers /\ Fits(hs, q.url, q.hop)
    BY <2>1, <2>2, ValidatorsFit, CookiesFit DEF RequestOK
  <2> DEFINE n == [q EXCEPT !.pc = "attempt", !.headers = hs]
  <2> HIDE DEF q
  <2>4. n \in RequestStates
    BY <2>1, <2>3 DEF RequestStates, Stages
  <2>5. /\ n.pc = "attempt" /\ n.headers = hs /\ n.url = q.url /\ n.hop = q.hop
        /\ n.owed = q.owed /\ n.body = q.body /\ n.reader = q.reader
    BY <2>1 DEF RequestStates
  <2>6. RequestOK(n)
    BY <2>1, <2>3, <2>4, <2>5 DEF RequestOK, BodyReady
  <2> HIDE DEF n
  <2>7. SetSession(r, n) \/ Ends(r)
    BY <2>2 DEF n
  <2> QED BY <1>s, <1>e, <2>6, <2>7
<1>3. ASSUME NEW r \in Requests, Attempt(r) PROVE SessionInv'
  <2> DEFINE q == request[r]
             base == IF q.stream THEN q.headers ELSE WithCookies(q)
             hs == WithHints(session[q.session], q.url.host, base)
             n == [q EXCEPT !.pc = "wire", !.reader = Rearm(q), !.headers = hs]
  <2>1. q \in RequestStates /\ RequestOK(q) /\ q.pc = "attempt" /\ q.url \in Urls
    BY <1>3, <1>r DEF Attempt
  <2>2. SetSession(r, n) \/ Ends(r)
    BY <1>3 DEF Attempt
  <2> HIDE DEF q
  <2>3. base \in SUBSET Headers /\ Fits(base, q.url, q.hop)
    BY <2>1, CookiesFit DEF RequestOK, RequestStates
  <2> HIDE DEF base
  <2>4. hs \in SUBSET Headers /\ Fits(hs, q.url, q.hop)
    BY <2>1, <2>3, HintsFit
  <2> HIDE DEF hs
  <2>5. /\ Rearm(q) \in {"fresh", "drained"}
        /\ q.body \in Readers => Rearm(q) = "fresh"
    BY <2>1 DEF Rearm, RequestOK, RequestStates, BodyReady, Readers
  <2>6. n \in RequestStates
    BY <2>1, <2>4, <2>5 DEF RequestStates, Stages
  <2>7. /\ n.pc = "wire" /\ n.headers = hs /\ n.url = q.url /\ n.hop = q.hop
        /\ n.owed = q.owed /\ n.body = q.body /\ n.reader = Rearm(q)
    BY <2>1 DEF RequestStates
  <2>8. RequestOK(n)
    BY <2>1, <2>4, <2>5, <2>6, <2>7 DEF RequestOK, BodyReady
  <2> HIDE DEF n
  <2> QED BY <1>s, <1>e, <2>2, <2>8
<1>4. ASSUME NEW r \in Requests, AttemptFails(r) \/ AnswerRetried(r) PROVE SessionInv'
  <2> DEFINE q == Drained(request[r])
             n == [q EXCEPT !.pc = "backoff"]
  <2>1. /\ q \in RequestStates /\ q.url \in Urls /\ Fits(q.headers, q.url, q.hop)
        /\ q.owed => q.body # "none"
    BY <1>4, <1>r, DrainedOK DEF AttemptFails, AnswerRetried, RequestOK, BodyReady
  <2>2. (MayRetry(q) /\ SetSession(r, n)) \/ Ends(r)
    BY <1>4 DEF AttemptFails, AnswerRetried
  <2> HIDE DEF q
  <2>3. ASSUME MayRetry(q) PROVE RequestOK(n)
    <3>1. n \in RequestStates
      BY <2>1 DEF RequestStates, Stages
    <3>2. /\ n.pc = "backoff" /\ n.headers = q.headers /\ n.url = q.url /\ n.hop = q.hop
          /\ n.owed = q.owed /\ n.body = q.body /\ n.attempt = q.attempt
      BY <2>1 DEF RequestStates
    <3>3. q.body # "oneshot" /\ q.attempt < MaxRetries
      BY <2>3 DEF MayRetry, BodyReplayable
    <3> QED BY <2>1, <3>1, <3>2, <3>3 DEF RequestOK, BodyReady
  <2> HIDE DEF n
  <2> QED BY <1>s, <1>e, <2>2, <2>3
<1>5. ASSUME NEW r \in Requests, AnswerFinal(r) \/ RedirectRefused(r) PROVE SessionInv'
  BY <1>5, <1>e DEF AnswerFinal, RedirectRefused
<1>6. ASSUME NEW r \in Requests, Redirected(r) PROVE SessionInv'
  <2> DEFINE q == Drained(request[r])
  <2>1. /\ q \in RequestStates /\ q.url \in Urls /\ Fits(q.headers, q.url, q.hop)
        /\ q.owed => q.body # "none"
    BY SMTT(40), <1>6, <1>r, DrainedOK DEF Redirected, RequestOK, BodyReady
  <2>2. PICK v \in Urls, status \in {302, 303, 307} :
          /\ status = 307 => BodyReplayable(q)
          /\ SetSession(r, [q EXCEPT !.pc = "gate", !.url = v, !.method = NewMethod(status, q.method),
                         !.body = HopBody(status, q), !.reader = HopReader(status, q),
                         !.owed = q.owed /\ status = 307, !.hop = q.hop + 1, !.attempt = 0,
                         !.headers = CopiedHeaders(q.headers, q.url, v, q.method,
                                                   NewMethod(status, q.method))
                                     \cup Referer(q.url, v)])
    BY <1>6 DEF Redirected
  <2>3. q.hop < MaxRedirects
    BY <1>6 DEF Redirected
  <2> HIDE DEF q
  <2> DEFINE m == NewMethod(status, q.method)
             hs == CopiedHeaders(q.headers, q.url, v, q.method, m) \cup Referer(q.url, v)
             body == HopBody(status, q)
             owed == q.owed /\ status = 307
             hop == q.hop + 1
             n == [q EXCEPT !.pc = "gate", !.url = v, !.method = m, !.body = body,
                            !.reader = HopReader(status, q), !.owed = owed, !.hop = hop,
                            !.attempt = 0, !.headers = hs]
  <2>4. m \in MethodKinds
    BY <2>1 DEF NewMethod, MethodKinds, RequestStates
  <2>5. body \in BodyKinds /\ (status = 307 => body = q.body)
    BY <2>1 DEF HopBody, BodyKinds, RequestStates
  <2>6. HopReader(status, q) = "fresh"
    BY <2>2 DEF HopReader, BodyReplayable
  <2>7. hop \in 0..MaxRedirects /\ 0 \in 0..MaxRetries
    BY <1>n, <2>1, <2>3 DEF RequestStates
  <2>8. owed \in BOOLEAN /\ (owed => body # "none")
    <3>1. owed \in BOOLEAN
      BY Zenon
    <3>2. owed => body # "none"
      BY <2>1, <2>5
    <3> QED BY <3>1, <3>2
  <2>9. q.headers \in SUBSET Headers
    BY <2>1 DEF RequestStates
  <2>10. hs \in SUBSET Headers /\ Fits(hs, v, hop)
    <3> HIDE DEF m, hop
    <3>1. v \in Urls
      BY <2>2
    <3> QED BY <2>1, <2>9, <3>1, HopFits
  <2>11. SetSession(r, n)
    BY <2>2
  <2> HIDE DEF m, hs, body, owed, hop
  <2>12. n \in RequestStates
    <3>1. v \in Urls /\ HopReader(status, q) \in {"fresh", "drained"}
      BY <2>2, <2>6
    <3> DEFINE a == [q EXCEPT !.pc = "gate", !.url = v, !.method = m, !.body = body,
                              !.reader = HopReader(status, q), !.hop = hop, !.attempt = 0,
                              !.headers = hs]
    <3>2. a \in RequestStates
      BY <2>1, <2>4, <2>5, <2>7, <2>10, <3>1 DEF RequestStates, Stages
    <3>3. n = [a EXCEPT !.owed = owed]
      BY <2>1 DEF RequestStates
    <3> HIDE DEF a, n
    <3> QED BY <2>8, <3>2, <3>3, OwedStates
  <2>13. /\ n.pc = "gate" /\ n.headers = hs /\ n.url = v /\ n.hop = hop
         /\ n.owed = owed /\ n.body = body /\ n.reader = "fresh"
    BY <2>1, <2>6 DEF RequestStates
  <2>14. RequestOK(n)
    BY <2>2, <2>8, <2>10, <2>12, <2>13 DEF RequestOK, BodyReady
  <2> HIDE DEF n
  <2> QED BY <1>s, <2>11, <2>14
<1>7. ASSUME NEW r \in Requests, Backoff(r) PROVE SessionInv'
  <2> DEFINE q == request[r]
             n == [q EXCEPT !.pc = "attempt", !.attempt = q.attempt + 1]
  <2>1. q \in RequestStates /\ RequestOK(q) /\ q.pc = "backoff" /\ q.url \in Urls
    BY <1>7, <1>r DEF Backoff
  <2>2. SetSession(r, n) \/ Ends(r)
    BY <1>7 DEF Backoff
  <2> HIDE DEF q
  <2>3. q.attempt + 1 \in 0..MaxRetries /\ q.attempt + 1 > 0 /\ q.body # "oneshot"
    BY <1>n, <2>1 DEF RequestOK, BodyReady, RequestStates
  <2>4. n \in RequestStates
    BY <2>1, <2>3 DEF RequestStates, Stages
  <2>5. /\ n.pc = "attempt" /\ n.headers = q.headers /\ n.url = q.url /\ n.hop = q.hop
        /\ n.owed = q.owed /\ n.body = q.body /\ n.reader = q.reader
        /\ n.attempt = q.attempt + 1
    BY <2>1 DEF RequestStates
  <2>6. RequestOK(n)
    BY <2>1, <2>3, <2>4, <2>5 DEF RequestOK, BodyReady, Readers
  <2> HIDE DEF n
  <2> QED BY <1>s, <1>e, <2>2, <2>6
<1>8. ASSUME NEW s \in Sessions, Change(s) PROVE SessionInv'
  BY <1>8, <1>u DEF Change
<1>9. ASSUME ClearCookies PROVE SessionInv'
  BY <1>9, <1>u DEF ClearCookies
<1>10. CASE UNCHANGED sessionVars
  BY <1>10, <1>u DEF sessionVars
<1> QED BY <1>1, <1>2, <1>3, <1>4, <1>5, <1>6, <1>7, <1>8, <1>9, <1>10 DEF SessionNext

\* What the type invariant says besides: the sessions' own records, the hosts in
\* the jar and the two counters.
Lives == {"unborn", "active", "draining", "closed"}
SessionRecords ==
    [life : Lives, refreshed : BOOLEAN, conditionalCacheEnabled : BOOLEAN,
     cacheEntries : SUBSET Urls, clientHintsEnabled : BOOLEAN,
     clientHints : SUBSET UrlHosts, followRedirects : BOOLEAN]
SessionBounds ==
    /\ session \in [Sessions -> SessionRecords]
    /\ jarHosts \subseteq UrlHosts
    /\ callsMade \in 0..MaxCalls /\ changesMade \in 0..MaxChanges

\* Any one field of a session's record can be set to a value of its own kind.
LEMMA RecordField ==
  ASSUME NEW s \in SessionRecords
  PROVE  /\ \A v \in Lives : [s EXCEPT !.life = v] \in SessionRecords
         /\ \A v \in BOOLEAN : [s EXCEPT !.refreshed = v] \in SessionRecords
         /\ \A v \in BOOLEAN : [s EXCEPT !.conditionalCacheEnabled = v] \in SessionRecords
         /\ \A v \in SUBSET Urls : [s EXCEPT !.cacheEntries = v] \in SessionRecords
         /\ \A v \in BOOLEAN : [s EXCEPT !.clientHintsEnabled = v] \in SessionRecords
         /\ \A v \in SUBSET UrlHosts : [s EXCEPT !.clientHints = v] \in SessionRecords
         /\ \A v \in BOOLEAN : [s EXCEPT !.followRedirects = v] \in SessionRecords
<1>1. \A v \in Lives : [s EXCEPT !.life = v] \in SessionRecords
  BY DEF SessionRecords
<1>2. \A v \in BOOLEAN : [s EXCEPT !.refreshed = v] \in SessionRecords
  BY DEF SessionRecords
<1>3. \A v \in BOOLEAN : [s EXCEPT !.conditionalCacheEnabled = v] \in SessionRecords
  BY DEF SessionRecords
<1>4. \A v \in SUBSET Urls : [s EXCEPT !.cacheEntries = v] \in SessionRecords
  BY DEF SessionRecords
<1>5. \A v \in BOOLEAN : [s EXCEPT !.clientHintsEnabled = v] \in SessionRecords
  BY DEF SessionRecords
<1>6. \A v \in SUBSET UrlHosts : [s EXCEPT !.clientHints = v] \in SessionRecords
  BY DEF SessionRecords
<1>7. \A v \in BOOLEAN : [s EXCEPT !.followRedirects = v] \in SessionRecords
  BY DEF SessionRecords
<1> QED BY <1>1, <1>2, <1>3, <1>4, <1>5, <1>6, <1>7

\* The switches of a session stay Boolean when they are flipped.
LEMMA SwitchesFlip ==
  ASSUME NEW s \in SessionRecords, NEW b
  PROVE  /\ (s.refreshed \/ b) \in BOOLEAN
         /\ (~s.conditionalCacheEnabled) \in BOOLEAN
         /\ (~s.clientHintsEnabled) \in BOOLEAN
         /\ (~s.followRedirects) \in BOOLEAN
BY Zenon

\* Every step of a request or a session operation keeps SessionBounds.
LEMMA SessionBoundsStep ==
  ASSUME SessionConstants, SessionInv, SessionBounds, [SessionNext]_sessionVars
  PROVE  SessionBounds'
<1>n. MaxCalls \in Nat /\ MaxChanges \in Nat
  BY DEF SessionConstants
<1>u. ASSUME UNCHANGED <<session, jarHosts, callsMade, changesMade>> PROVE SessionBounds'
  BY <1>u DEF SessionBounds
<1>r. ASSUME NEW r \in Requests
      PROVE  /\ request[r] \in RequestStates /\ request[r].session \in Sessions
             /\ request[r].pc # "free" => request[r].url \in Urls
  BY DEF SessionInv, RequestOK, RequestStates
<1>1. ASSUME NEW r \in Requests, BeginCall(r) PROVE SessionBounds'
  BY <1>n, <1>1 DEF BeginCall, SessionBounds
<1>2. ASSUME NEW r \in Requests,
             \/ Gate(r) \/ StreamGate(r) \/ Attempt(r) \/ AttemptFails(r) \/ Backoff(r)
      PROVE  SessionBounds'
  <2>1. UNCHANGED <<session, jarHosts, callsMade, changesMade>>
    BY <1>2 DEF Gate, StreamGate, Attempt, AttemptFails, Backoff
  <2> QED BY <1>u, <2>1
<1>3. ASSUME NEW r \in Requests, NEW q, q = Drained(request[r]), q.pc = "wire",
             NEW cookie, NEW acceptCH, NEW etag, Learn(q, cookie, acceptCH, etag)
      PROVE  SessionBounds'
  <2>1. q.session \in Sessions /\ q.url \in Urls /\ q.url.host \in UrlHosts
    <3>1. q.session = request[r].session /\ q.url = request[r].url /\ request[r].pc = "wire"
      BY <1>3, <1>r DEF Drained, RequestStates
    <3>2. request[r].url \in Urls /\ request[r].session \in Sessions
      BY <1>r, <3>1
    <3> QED BY <3>1, <3>2 DEF UrlHosts
  <2> DEFINE s == session[q.session]
             hosts == IF acceptCH THEN s.clientHints \cup {q.url.host} ELSE s.clientHints
             a == [s EXCEPT !.clientHints = hosts]
             pages == IF (etag /\ ~q.stream) /\ a.conditionalCacheEnabled
                      THEN a.cacheEntries \cup {q.url} ELSE a.cacheEntries
             b == [a EXCEPT !.cacheEntries = pages]
  <2>2. s \in SessionRecords /\ s.clientHints \in SUBSET UrlHosts
    BY <2>1 DEF SessionBounds, SessionRecords
  <2>3. jarHosts' \subseteq UrlHosts
    BY <1>3, <2>1 DEF Learn, ExtractCookies, SessionBounds
  <2>4. session' = [session EXCEPT ![q.session] = b]
    <3>1. StoreCacheHeaders(ParseAcceptCH(s, q, acceptCH), q, etag /\ ~q.stream) = b
      BY DEF StoreCacheHeaders, ParseAcceptCH
    <3> HIDE DEF b
    <3> QED BY <1>3, <3>1 DEF Learn
  <2> HIDE DEF s
  <2>5. hosts \in SUBSET UrlHosts
    BY <2>1, <2>2
  <2> HIDE DEF hosts
  <2>6. a \in SessionRecords
    BY <2>2, <2>5, RecordField
  <2> HIDE DEF a
  <2>7. pages \in SUBSET Urls
    BY <2>1, <2>6 DEF SessionRecords
  <2> HIDE DEF pages
  <2>8. b \in SessionRecords
    BY <2>6, <2>7, RecordField
  <2> HIDE DEF b
  <2>9. session' \in [Sessions -> SessionRecords]
    BY <2>1, <2>4, <2>8 DEF SessionBounds
  <2>10. UNCHANGED <<callsMade, changesMade>>
    BY <1>3 DEF Learn
  <2> QED BY <2>3, <2>9, <2>10 DEF SessionBounds
<1>4. ASSUME NEW r \in Requests,
             \/ AnswerRetried(r) \/ AnswerFinal(r) \/ Redirected(r) \/ RedirectRefused(r)
      PROVE  SessionBounds'
  <2> DEFINE q == Drained(request[r])
  <2>1. q.pc = "wire" /\ \E cookie, acceptCH, etag : Learn(q, cookie, acceptCH, etag)
    <3>1. CASE AnswerRetried(r)
      BY <3>1 DEF AnswerRetried
    <3>2. CASE AnswerFinal(r)
      BY <3>2 DEF AnswerFinal
    <3>3. CASE Redirected(r)
      BY <3>3 DEF Redirected
    <3>4. CASE RedirectRefused(r)
      BY <3>4 DEF RedirectRefused
    <3> QED BY <1>4, <3>1, <3>2, <3>3, <3>4
  <2> HIDE DEF q
  <2>2. q = Drained(request[r])
    BY DEF q
  <2> QED BY <1>3, <2>1, <2>2
<1>5. ASSUME NEW s \in Sessions, Change(s) PROVE SessionBounds'
  <2> DEFINE rec == session[s]
  <2>1. rec \in SessionRecords /\ session \in [Sessions -> SessionRecords]
    BY DEF SessionBounds
  <2>2. changesMade' \in 0..MaxChanges /\ UNCHANGED <<jarHosts, callsMade>>
    BY <1>n, <1>5 DEF Change, SessionBounds
  <2>3. ASSUME NEW t \in Sessions, NEW v \in SessionRecords, session' = [session EXCEPT ![t] = v]
        PROVE  session' \in [Sessions -> SessionRecords]
    BY <2>1, <2>3
  <2>4. ASSUME session' \in [Sessions -> SessionRecords] PROVE SessionBounds'
    BY <2>2, <2>4 DEF SessionBounds
  <2> HIDE DEF rec
  <2>5. CASE session' = Close(s)
    <3> DEFINE v == IF rec.life \in {"active", "draining"} THEN "closed" ELSE rec.life
    <3>1. v \in Lives
      BY <2>1 DEF SessionRecords, Lives
    <3>2. session' = [session EXCEPT ![s] = [rec EXCEPT !.life = v]]
      BY <2>5 DEF Close, rec
    <3> HIDE DEF v
    <3> QED BY <2>1, <2>3, <2>4, <3>1, <3>2, RecordField
  <2>6. CASE session' = CloseGraceful(s)
    <3> DEFINE v == IF rec.life = "active" THEN "draining" ELSE rec.life
    <3>1. v \in Lives
      BY <2>1 DEF SessionRecords, Lives
    <3>2. session' = [session EXCEPT ![s] = [rec EXCEPT !.life = v]]
      BY <2>6 DEF CloseGraceful, rec
    <3> HIDE DEF v
    <3> QED BY <2>1, <2>3, <2>4, <3>1, <3>2, RecordField
  <2>7. CASE session' = Refresh(s)
    <3> DEFINE v == rec.refreshed \/ session[s].life = "active"
    <3>1. v \in BOOLEAN
      BY Zenon
    <3>2. session' = [session EXCEPT ![s] = [rec EXCEPT !.refreshed = v]]
      BY <2>7 DEF Refresh, rec
    <3> HIDE DEF v
    <3> QED BY <2>1, <2>3, <2>4, <3>1, <3>2, RecordField
  <2>8. CASE session' = SetConditionalCacheEnabled(s)
    <3> DEFINE v == ~rec.conditionalCacheEnabled
    <3>1. v \in BOOLEAN
      BY Zenon
    <3>2. session' = [session EXCEPT ![s] = [rec EXCEPT !.conditionalCacheEnabled = v]]
      BY <2>8 DEF SetConditionalCacheEnabled, rec
    <3> HIDE DEF v
    <3> QED BY <2>1, <2>3, <2>4, <3>1, <3>2, RecordField
  <2>9. CASE session' = ClearCache(s)
    <3>1. session' = [session EXCEPT ![s] = [rec EXCEPT !.cacheEntries = {}]]
      BY <2>9 DEF ClearCache, rec
    <3>2. {} \in SUBSET Urls
      OBVIOUS
    <3> QED BY <2>1, <2>3, <2>4, <3>1, <3>2, RecordField
  <2>10. CASE session' = SetClientHintsEnabled(s)
    <3> DEFINE v == ~rec.clientHintsEnabled
    <3>1. v \in BOOLEAN
      BY Zenon
    <3>2. session' = [session EXCEPT ![s] = [rec EXCEPT !.clientHintsEnabled = v]]
      BY <2>10 DEF SetClientHintsEnabled, rec
    <3> HIDE DEF v
    <3> QED BY <2>1, <2>3, <2>4, <3>1, <3>2, RecordField
  <2>11. CASE session' = SetFollowRedirects(s)
    <3> DEFINE v == ~rec.followRedirects
    <3>1. v \in BOOLEAN
      BY Zenon
    <3>2. session' = [session EXCEPT ![s] = [rec EXCEPT !.followRedirects = v]]
      BY <2>11 DEF SetFollowRedirects, rec
    <3> HIDE DEF v
    <3> QED BY <2>1, <2>3, <2>4, <3>1, <3>2, RecordField
  <2>12. ASSUME NEW f \in Sessions, session' = Fork(s, f) PROVE SessionBounds'
    <3>1. ForkOne(s) \in SessionRecords
      BY <2>1 DEF ForkOne, SessionRecords, rec
    <3>2. session' = session \/ session' = [session EXCEPT ![f] = ForkOne(s)]
      BY <2>12 DEF Fork
    <3> QED BY <2>1, <2>3, <2>4, <3>1, <3>2
  <2>13. \/ session' \in {Close(s), CloseGraceful(s), Refresh(s), SetConditionalCacheEnabled(s),
                          ClearCache(s), SetClientHintsEnabled(s), SetFollowRedirects(s)}
         \/ \E f \in Sessions : session' = Fork(s, f)
    BY <1>5 DEF Change
  <2> QED BY <2>5, <2>6, <2>7, <2>8, <2>9, <2>10, <2>11, <2>12, <2>13
<1>6. CASE ClearCookies
  BY <1>n, <1>6 DEF ClearCookies, SessionBounds
<1>7. CASE UNCHANGED sessionVars
  BY <1>u, <1>7 DEF sessionVars
<1> QED BY <1>1, <1>2, <1>4, <1>5, <1>6, <1>7 DEF SessionNext

\* A session starts within its bounds.
LEMMA SessionStarts ==
  ASSUME SessionConstants, SessionInit
  PROVE  SessionInv /\ SessionBounds
<1>1. NewSession \in SessionRecords /\ Unborn \in SessionRecords
  BY DEF NewSession, Unborn, SessionRecords, Lives
<1>2. SessionBounds
  BY <1>1 DEF SessionInit, SessionBounds, SessionConstants
<1>3. RequestOK(Free) /\ Free \in RequestStates
  BY FreeOK DEF RequestOK
<1> QED BY <1>2, <1>3 DEF SessionInit, SessionInv

\* The two together give the type invariant.
LEMMA SessionTyped ==
  ASSUME SessionInv, SessionBounds
  PROVE  SessionTypeOK
<1>1. session \in [Sessions -> [life : {"unborn", "active", "draining", "closed"},
                                refreshed : BOOLEAN, conditionalCacheEnabled : BOOLEAN,
                                cacheEntries : SUBSET Urls, clientHintsEnabled : BOOLEAN,
                                clientHints : SUBSET UrlHosts, followRedirects : BOOLEAN]]
  BY DEF SessionBounds, SessionRecords, Lives
<1>2. ASSUME NEW r \in Requests
      PROVE  /\ request[r].pc \in {"free", "gate", "attempt", "wire", "backoff"}
             /\ request[r].url \in Urls \cup {NoUrl}
             /\ request[r].headers \subseteq Headers
             /\ request[r].hop \in 0..MaxRedirects /\ request[r].attempt \in 0..MaxRetries
  BY DEF SessionInv, RequestStates, Stages
<1> QED BY <1>1, <1>2 DEF SessionTypeOK, SessionBounds

\* What the two invariants say of the code.
LEMMA ChainIsSound ==
  ASSUME SessionInv, SessionBounds
  PROVE  SessionTypeOK /\ ChainSound
<1>1. ChainSound
  BY DEF SessionInv, RequestOK, Fits, BodyReady, ChainSound, CredentialsConfined, BodyIntact,
      OnWire
<1> QED BY <1>1, SessionTyped

\* Over any chain of redirects, retries and session operations the caller's
\* credentials stay with the origin he wrote them for and his body goes out
\* whole, for every set of URLs, every caller and every number of forks.
THEOREM ChainSafe == SessionSpec => [](SessionTypeOK /\ ChainSound)
<1>1. SessionInit => SessionInv /\ SessionBounds
  BY SessionStarts, SessionConstants
<1>2. SessionInv /\ SessionBounds /\ [SessionNext]_sessionVars => (SessionInv /\ SessionBounds)'
  BY SessionStep, SessionBoundsStep, SessionConstants
<1>3. SessionInv /\ SessionBounds => SessionTypeOK /\ ChainSound
  BY ChainIsSound
<1> QED BY <1>1, <1>2, <1>3, PTL DEF SessionSpec


-----------------------------------------------------------------------------
(* CookieJar: who may see a cookie.                                        *)

\* What the jar knows of each cookie's origin: the domain it is kept under is
\* the host that set it or one that this host belongs to, a Secure cookie came
\* over https, and HostOnly can be read off the domain, but for a global one.
Scoped(c) ==
    /\ c.setBy # <<>> => \/ c.domain = HostKey(c.setBy)
                         \/ c.domain.kind = "domain" /\ IsPrefix(c.domain.labels, c.setBy)
    /\ c.secure => c.https
    /\ c.domain # Global => (c.hostOnly <=> c.domain.kind = "host")

JarInv == CookieTypeOK /\ \A c \in jar : Scoped(c)

\* The kinds of key are told apart, and a host key by its host.
LEMMA KeyKinds ==
  /\ Global.kind = "global" /\ \A k \in Keys : k.kind = "global" <=> k = Global
  /\ \A h : HostKey(h).kind = "host" /\ HostKey(h).labels = h /\ HostKey(h) # Global
  /\ \A d : DomainKey(d).kind = "domain" /\ DomainKey(d).labels = d /\ DomainKey(d) # Global
  /\ \A k \in Keys : k.kind \in {"global", "host", "domain"}
BY DEF Global, HostKey, DomainKey, Keys

\* Store puts in one cookie and keeps the keys apart.
LEMMA StoreKeeps ==
  ASSUME JarInv, NEW c \in Cookies, Scoped(c), Stores(c)
  PROVE  JarInv'
<1>1. /\ jar' = {d \in jar : ~(d.domain = c.domain /\ d.path = c.path /\ d.name = c.name)} \cup {c}
      /\ clock' = clock
  BY DEF Stores, Store
<1>2. jar \subseteq Cookies /\ clock \in 0..MaxClock
  BY DEF JarInv, CookieTypeOK
<1>3. jar' \subseteq Cookies /\ clock' \in 0..MaxClock
  BY <1>1, <1>2
<1>4. ASSUME NEW x \in jar', NEW y \in jar', x.domain = y.domain, x.path = y.path, x.name = y.name
      PROVE  x = y
  <2>1. (x \in jar \/ x = c) /\ (y \in jar \/ y = c)
    BY <1>1
  <2>2. \A d \in jar \cap jar' :
          d # c => ~(d.domain = c.domain /\ d.path = c.path /\ d.name = c.name)
    BY <1>1
  <2> QED BY <1>4, <2>1, <2>2 DEF JarInv, CookieTypeOK
<1>5. \A x \in jar' : Scoped(x)
  BY <1>1 DEF JarInv
<1> QED BY <1>3, <1>4, <1>5 DEF JarInv, CookieTypeOK

\* A smaller jar is in order when the jar is.
LEMMA LessKeeps ==
  ASSUME JarInv, jar' \subseteq jar, clock' \in 0..MaxClock
  PROVE  JarInv'
BY DEF JarInv, CookieTypeOK

\* A cookie that is written into a file and read from it keeps all but HostOnly.
LEMMA ReadCookie ==
  ASSUME NEW c \in Cookies, NEW b \in BOOLEAN
  PROVE  [c EXCEPT !.hostOnly = b] \in Cookies
BY DEF Cookies

\* A cookie that is read back differs only in its hostOnly flag.
LEMMA ReadFields ==
  ASSUME NEW c \in Cookies, NEW b
  PROVE  LET d == [c EXCEPT !.hostOnly = b]
         IN  /\ d.domain = c.domain /\ d.path = c.path /\ d.name = c.name /\ d.secure = c.secure
             /\ d.expires = c.expires /\ d.setBy = c.setBy /\ d.https = c.https /\ d.hostOnly = b
BY DEF Cookies

\* Import and ImportV4 read HostOnly off the domain, each in its way; of a
\* cookie that is not global they read what it was.
LEMMA ReadBack ==
  ASSUME JarInv, NEW file \in SUBSET jar, NEW new \in {Import(file), ImportV4(file)}, NEW x \in new
  PROVE  \E c \in file : \E b \in BOOLEAN :
            /\ x = [c EXCEPT !.hostOnly = b]
            /\ c.domain # Global => (b <=> c.domain.kind = "host")
            /\ ~Expired(c)
<1>1. CASE new = Import(file)
  <2>1. PICK c \in file : x = [c EXCEPT !.hostOnly = c.domain.kind # "domain"] /\ ~Expired(c)
    BY <1>1 DEF Import
  <2> DEFINE b == c.domain.kind # "domain"
  <2>2. b \in BOOLEAN
    BY Zenon
  <2>3. c.domain \in Keys
    BY <2>1 DEF JarInv, CookieTypeOK, Cookies
  <2>4. c.domain # Global => (b <=> c.domain.kind = "host")
    BY <2>3, KeyKinds
  <2>5. x = [c EXCEPT !.hostOnly = b] /\ ~Expired(c) /\ c \in file
    BY <2>1
  <2> HIDE DEF b
  <2> QED BY <2>2, <2>4, <2>5
<1>2. CASE new = ImportV4(file)
  <2>1. PICK c \in file : x = [c EXCEPT !.hostOnly = c.domain.kind = "host"] /\ ~Expired(c)
    BY <1>2 DEF ImportV4
  <2> DEFINE b == c.domain.kind = "host"
  <2>2. b \in BOOLEAN
    BY Zenon
  <2>3. c.domain # Global => (b <=> c.domain.kind = "host")
    OBVIOUS
  <2>4. x = [c EXCEPT !.hostOnly = b] /\ ~Expired(c) /\ c \in file
    BY <2>1
  <2> HIDE DEF b
  <2> QED BY <2>2, <2>3, <2>4
<1> QED BY <1>1, <1>2

\* A saved and loaded jar is in order.
LEMMA LoadKeeps ==
  ASSUME JarInv, SaveAndLoad
  PROVE  JarInv'
<1> DEFINE file == Export(jar)
<1>1. file \in SUBSET jar
  BY DEF Export
<1>2. jar' \in {Import(file), ImportV4(file)} /\ clock' = clock
  BY DEF SaveAndLoad, UnmarshalSession
<1> HIDE DEF file
<1>3. ASSUME NEW x \in jar'
      PROVE  x \in Cookies /\ Scoped(x)
  <2>1. PICK c \in file, b \in BOOLEAN : /\ x = [c EXCEPT !.hostOnly = b]
                                         /\ c.domain # Global => (b <=> c.domain.kind = "host")
    BY <1>1, <1>2, <1>3, ReadBack
  <2>2. c \in jar /\ c \in Cookies /\ Scoped(c) /\ b \in BOOLEAN
    BY <1>1, <2>1 DEF JarInv, CookieTypeOK
  <2>3. x \in Cookies
    BY <2>1, <2>2, ReadCookie
  <2>4. /\ x.domain = c.domain /\ x.path = c.path /\ x.name = c.name /\ x.secure = c.secure
        /\ x.setBy = c.setBy /\ x.https = c.https /\ x.hostOnly = b
    BY <2>1, <2>2, ReadFields
  <2>5. Scoped(x)
    BY <2>1, <2>2, <2>4 DEF Scoped
  <2> QED BY <2>3, <2>5
<1>4. ASSUME NEW x \in jar', NEW y \in jar', x.domain = y.domain, x.path = y.path, x.name = y.name
      PROVE  x = y
  <2>1. \A c, d \in file :
          c.domain = d.domain /\ c.path = d.path /\ c.name = d.name => c = d
    BY <1>1 DEF JarInv, CookieTypeOK
  <2>2. file \subseteq Cookies
    BY <1>1 DEF JarInv, CookieTypeOK
  <2>3. CASE jar' = Import(file)
    <3>1. PICK c \in file : x = [c EXCEPT !.hostOnly = c.domain.kind # "domain"]
      BY <2>3 DEF Import
    <3>2. PICK d \in file : y = [d EXCEPT !.hostOnly = d.domain.kind # "domain"]
      BY <2>3 DEF Import
    <3>3. x.domain = c.domain /\ x.path = c.path /\ x.name = c.name
      BY <2>2, <3>1, ReadFields
    <3>4. y.domain = d.domain /\ y.path = d.path /\ y.name = d.name
      BY <2>2, <3>2, ReadFields
    <3>5. c = d
      BY <1>4, <2>1, <3>3, <3>4
    <3> QED BY <3>1, <3>2, <3>5
  <2>4. CASE jar' = ImportV4(file)
    <3>1. PICK c \in file : x = [c EXCEPT !.hostOnly = c.domain.kind = "host"]
      BY <2>4 DEF ImportV4
    <3>2. PICK d \in file : y = [d EXCEPT !.hostOnly = d.domain.kind = "host"]
      BY <2>4 DEF ImportV4
    <3>3. x.domain = c.domain /\ x.path = c.path /\ x.name = c.name
      BY <2>2, <3>1, ReadFields
    <3>4. y.domain = d.domain /\ y.path = d.path /\ y.name = d.name
      BY <2>2, <3>2, ReadFields
    <3>5. c = d
      BY <1>4, <2>1, <3>3, <3>4
    <3> QED BY <3>1, <3>2, <3>5
  <2> QED BY <1>2, <2>3, <2>4
<1>5. clock' \in 0..MaxClock
  BY <1>2 DEF JarInv, CookieTypeOK
<1> QED BY <1>3, <1>4, <1>5 DEF JarInv, CookieTypeOK

\* Every step of the jar keeps JarInv.
LEMMA JarStep ==
  ASSUME CookieConstants, JarInv, [CookieNext]_cookieVars
  PROVE  JarInv'
<1>c. clock \in 0..MaxClock
  BY DEF JarInv, CookieTypeOK
<1>e. Never \in 0..Never
  BY CookieConstants DEF Never
<1>1. ASSUME SetHostCookie PROVE JarInv'
  <2>1. PICK h \in CookieHosts, p \in CookiePaths, n \in CookieNames, s \in BOOLEAN,
             https \in BOOLEAN, e \in 0..Never :
          /\ s => https
          /\ Stores([domain |-> HostKey(h), hostOnly |-> TRUE, path |-> p, name |-> n, secure |-> s,
                     expires |-> e, setBy |-> h, https |-> https])
    BY <1>1 DEF SetHostCookie
  <2> DEFINE c == [domain |-> HostKey(h), hostOnly |-> TRUE, path |-> p, name |-> n, secure |-> s,
                   expires |-> e, setBy |-> h, https |-> https]
  <2>2. HostKey(h) \in Keys
    BY <2>1 DEF Keys
  <2>3. c \in Cookies
    BY <2>1, <2>2 DEF Cookies
  <2>4. Scoped(c)
    BY <2>1, KeyKinds DEF Scoped
  <2>5. Stores(c)
    BY <2>1
  <2> HIDE DEF c
  <2> QED BY <2>3, <2>4, <2>5, StoreKeeps
<1>2. ASSUME SetDomainCookie PROVE JarInv'
  <2>1. PICK h \in CookieHosts, d \in CookieDomains, p \in CookiePaths, n \in CookieNames,
             s \in BOOLEAN, https \in BOOLEAN, e \in 0..Never :
          /\ AcceptsDomain(h, d)
          /\ s => https
          /\ Stores([domain |-> DomainKey(d), hostOnly |-> FALSE, path |-> p, name |-> n,
                     secure |-> s, expires |-> e, setBy |-> h, https |-> https])
    BY <1>2 DEF SetDomainCookie
  <2> DEFINE c == [domain |-> DomainKey(d), hostOnly |-> FALSE, path |-> p, name |-> n,
                   secure |-> s, expires |-> e, setBy |-> h, https |-> https]
  <2>2. DomainKey(d) \in Keys
    BY <2>1 DEF Keys
  <2>3. c \in Cookies
    BY <2>1, <2>2 DEF Cookies
  <2>4. Scoped(c)
    <3>1. IsPrefix(d, h)
      BY <2>1 DEF AcceptsDomain, IsDomainMatch
    <3> QED BY <2>1, <3>1, KeyKinds DEF Scoped
  <2>5. Stores(c)
    BY <2>1
  <2> HIDE DEF c
  <2> QED BY <2>3, <2>4, <2>5, StoreKeeps
<1>3. ASSUME SetSimple PROVE JarInv'
  <2>1. PICK k \in Keys, p \in CookiePaths, n \in CookieNames, s \in BOOLEAN :
          Stores([domain |-> k, hostOnly |-> k.kind = "host", path |-> p, name |-> n, secure |-> s,
                  expires |-> Never, setBy |-> <<>>, https |-> TRUE])
    BY <1>3 DEF SetSimple
  <2> DEFINE b == k.kind = "host"
             c == [domain |-> k, hostOnly |-> b, path |-> p, name |-> n, secure |-> s,
                   expires |-> Never, setBy |-> <<>>, https |-> TRUE]
  <2>2. b \in BOOLEAN /\ (b <=> k.kind = "host")
    BY Zenon
  <2>3. Stores(c)
    BY <2>1
  <2> HIDE DEF b
  <2>4. c \in Cookies
    BY <1>e, <2>1, <2>2 DEF Cookies
  <2>5. Scoped(c)
    BY <2>2 DEF Scoped
  <2> HIDE DEF c
  <2> QED BY <2>3, <2>4, <2>5, StoreKeeps
<1>4. ASSUME Delete \/ ClearJar \/ ClearExpired PROVE JarInv'
  <2>1. jar' \subseteq jar /\ clock' = clock
    BY <1>4 DEF Delete, ClearJar, ClearExpired
  <2> QED BY <1>c, <2>1, LessKeeps
<1>5. ASSUME SaveAndLoad PROVE JarInv'
  BY <1>5, LoadKeeps
<1>6. ASSUME Tick PROVE JarInv'
  <2>1. jar' = jar /\ clock' \in 0..MaxClock
    BY <1>c, <1>6, CookieConstants DEF Tick
  <2> QED BY <2>1, LessKeeps
<1>7. CASE UNCHANGED cookieVars
  <2>1. jar' = jar /\ clock' = clock
    BY <1>7 DEF cookieVars
  <2> QED BY <1>c, <2>1, LessKeeps
<1> QED BY <1>1, <1>2, <1>3, <1>4, <1>5, <1>6, <1>7 DEF CookieNext

\* A cookie is sent only to hosts its server may set it for.
LEMMA SentConfined ==
  ASSUME JarInv
  PROVE  CookieConfined
<1> SUFFICES ASSUME NEW h \in CookieHosts, NEW p \in CookiePaths, NEW https \in BOOLEAN,
                    NEW c \in Get(jar, h, p, https), c.setBy # <<>>
             PROVE  /\ \/ h = c.setBy
                       \/ /\ c.domain.kind = "domain" /\ IsPrefix(c.domain.labels, h)
                          /\ IsPrefix(c.domain.labels, c.setBy)
                    /\ c.secure => c.https /\ https
  BY DEF CookieConfined
<1>1. /\ c \in jar /\ DomainMatchesHost(c.domain, h) /\ (c.secure => https)
  BY DEF Get
<1>2. Scoped(c)
  BY <1>1 DEF JarInv
<1>3. CASE c.domain = HostKey(c.setBy)
  BY <1>1, <1>2, <1>3, KeyKinds DEF DomainMatchesHost, Scoped
<1>4. CASE c.domain.kind = "domain" /\ IsPrefix(c.domain.labels, c.setBy)
  BY <1>1, <1>2, <1>4, KeyKinds DEF DomainMatchesHost, IsDomainMatch, Scoped
<1> QED BY <1>2, <1>3, <1>4 DEF Scoped

\* Save and Load give back every live cookie with a domain as it was.
LEMMA LoadIsIdentity ==
  ASSUME JarInv, NEW c \in jar, c.domain # Global
  PROVE  [c EXCEPT !.hostOnly = c.domain.kind # "domain"] = c
<1>1. c \in Cookies /\ Scoped(c)
  BY DEF JarInv, CookieTypeOK
<1>2. c.domain \in Keys /\ c.hostOnly \in BOOLEAN
  BY <1>1 DEF Cookies
<1>3. c.hostOnly <=> c.domain.kind # "domain"
  BY <1>1, <1>2, KeyKinds DEF Scoped
<1> DEFINE b == c.domain.kind # "domain"
<1>4. b \in BOOLEAN /\ (b <=> c.hostOnly)
  BY <1>3, Zenon
<1> HIDE DEF b
<1>5. b = c.hostOnly
  BY <1>2, <1>4
<1>6. [c EXCEPT !.hostOnly = c.hostOnly] = c
  BY <1>1 DEF Cookies
<1>7. [c EXCEPT !.hostOnly = b] = c
  BY <1>5, <1>6
<1> QED BY <1>7 DEF b

\* So the same cookies are sent after a Save and Load as before.
LEMMA LoadedSendsSame ==
  ASSUME JarInv
  PROVE  LoadSendsSame
<1> DEFINE new == Import(Export(jar))
<1>1. ASSUME NEW x \in new, x.domain # Global PROVE x \in jar /\ ~Expired(x)
  <2>1. PICK c \in jar : x = [c EXCEPT !.hostOnly = c.domain.kind # "domain"] /\ ~Expired(c)
    BY <1>1 DEF Import, Export
  <2>2. c \in Cookies
    BY <2>1 DEF JarInv, CookieTypeOK
  <2>3. x.domain = c.domain
    BY <2>1, <2>2, ReadFields
  <2>4. x = c
    BY <1>1, <2>1, <2>3, LoadIsIdentity
  <2> QED BY <2>1, <2>4
<1>2. ASSUME NEW x \in jar, x.domain # Global, ~Expired(x) PROVE x \in new
  <2>1. x = [x EXCEPT !.hostOnly = x.domain.kind # "domain"]
    BY <1>2, LoadIsIdentity
  <2>2. x \in {d \in Export(jar) : ~Expired(d)}
    BY <1>2 DEF Export
  <2> QED BY <2>1, <2>2 DEF Import
<1> HIDE DEF new
<1>3. ASSUME NEW h \in CookieHosts, NEW p \in CookiePaths, NEW https \in BOOLEAN
      PROVE  {d \in Get(new, h, p, https) : d.domain # Global}
             = {d \in Get(jar, h, p, https) : d.domain # Global}
  <2>1. ASSUME NEW x, x.domain # Global
        PROVE  x \in Get(new, h, p, https) <=> x \in Get(jar, h, p, https)
    BY <1>1, <1>2, <2>1 DEF Get
  <2> QED BY <2>1
<1>4. ASSUME NEW h \in CookieHosts, NEW p \in CookiePaths, NEW https \in BOOLEAN
      PROVE  {[c EXCEPT !.hostOnly = FALSE] : c \in {d \in Get(new, h, p, https) : d.domain # Global}}
             = {[c EXCEPT !.hostOnly = FALSE] : c \in {d \in Get(jar, h, p, https) : d.domain # Global}}
  BY <1>3, Zenon
<1> QED BY <1>4, Zenon DEF LoadSendsSame, new

\* For all hosts, domains and paths, across Save and Load: a domain, a path and
\* a name identify a cookie, a server's cookie is sent only where that server
\* could have sent it, and the jar sends the same cookies after a Load.
THEOREM JarSafe == CookieSpec => [](CookieTypeOK /\ JarSound)
<1>1. CookieInit => JarInv
  BY CookieConstants DEF CookieInit, JarInv, CookieTypeOK
<1>2. JarInv /\ [CookieNext]_cookieVars => JarInv'
  BY JarStep, CookieConstants
<1>3. JarInv => CookieTypeOK /\ JarSound
  BY SentConfined, LoadedSendsSame DEF JarInv, JarSound
<1> QED BY <1>1, <1>2, <1>3, PTL DEF CookieSpec
-----------------------------------------------------------------------------
(* The session manager.                                                    *)

\* The registry is finite, so that its size is a number.
ManagerInv == ManagerTypeOK /\ NoSessionLeaked /\ IsFiniteSet(registry)

\* Every step of the manager keeps ManagerInv.
LEMMA ManagerStep ==
  ASSUME ManagerConstants, ManagerInv, [ManagerNext]_managerVars
  PROVE  ManagerInv'
<1>a. Cardinality(registry) \in Nat
  BY FS_CardinalityType DEF ManagerInv
<1>b. ASSUME NEW S, S \subseteq registry PROVE IsFiniteSet(S) /\ Cardinality(S) <= MaxSessions
  <2>1. IsFiniteSet(S) /\ Cardinality(S) <= Cardinality(registry) /\ Cardinality(S) \in Nat
    BY <1>b, FS_Subset, FS_CardinalityType DEF ManagerInv
  <2> QED BY <1>a, <2>1 DEF ManagerInv, NoSessionLeaked, ManagerConstants
<1>c. ASSUME registry' \subseteq registry, alive' \subseteq registry' \cap alive, ManagerTypeOK'
      PROVE  ManagerInv'
  BY <1>b, <1>c DEF ManagerInv, NoSessionLeaked
<1> USE DEF ManagerConstants
<1>t. ManagerTypeOK /\ alive \subseteq registry
  BY DEF ManagerInv, NoSessionLeaked
<1>1. ASSUME NEW i \in Ids, CreateSession(i) PROVE ManagerInv'
  <2>1. ManagerTypeOK' /\ alive' \subseteq registry'
    BY <1>1, <1>t DEF CreateSession, ManagerTypeOK
  <2>2. i \notin registry
    BY <1>1, <1>t DEF CreateSession, ManagerTypeOK
  <2>3. IsFiniteSet(registry') /\ Cardinality(registry') = Cardinality(registry) + 1
    BY <1>1, <2>2, FS_AddElement DEF CreateSession, ManagerInv
  <2>4. Cardinality(registry') <= MaxSessions
    BY <1>1, <1>a, <2>3 DEF CreateSession, Room
  <2> QED BY <2>1, <2>3, <2>4 DEF ManagerInv, NoSessionLeaked
<1>2. ASSUME NEW i \in Ids, Lapse(i) PROVE ManagerInv'
  <2>1. ManagerTypeOK' /\ UNCHANGED <<registry, alive>>
    BY <1>2, <1>t DEF Lapse, ManagerTypeOK
  <2> QED BY <1>c, <1>t, <2>1
<1>3. ASSUME NEW i \in Ids, CloseSession(i) PROVE ManagerInv'
  <2>1. ManagerTypeOK' /\ registry' \subseteq registry /\ alive' \subseteq registry' \cap alive
    BY <1>3, <1>t DEF CloseSession, ManagerTypeOK
  <2> QED BY <1>c, <2>1
<1>4. ASSUME NEW w \in Workers, PassGate(w) PROVE ManagerInv'
  <2>1. UNCHANGED <<registry, alive, used, shut>>
    BY <1>4 DEF PassGate
  <2>2. ManagerTypeOK'
    <3>1. CASE holds[w] \in alive
      BY <1>4, <1>t, <2>1, <3>1 DEF PassGate, ManagerTypeOK
    <3>2. CASE holds[w] \notin alive
      BY <1>4, <1>t, <2>1, <3>2 DEF PassGate, ManagerTypeOK
    <3> QED BY <3>1, <3>2
  <2> QED BY <1>c, <1>t, <2>1, <2>2
<1>5. ASSUME NEW w \in Workers, FinishRequest(w) PROVE ManagerInv'
  <2>1. ManagerTypeOK' /\ UNCHANGED <<registry, alive>>
    BY <1>5, <1>t DEF FinishRequest, ManagerTypeOK
  <2> QED BY <1>c, <1>t, <2>1
<1>6. ASSUME NEW w \in Workers, NEW i \in Ids, GetSession(w, i) PROVE ManagerInv'
  <2>1. ManagerTypeOK' /\ UNCHANGED <<registry, alive>>
    BY <1>6, <1>t DEF GetSession, ManagerTypeOK
  <2> QED BY <1>c, <1>t, <2>1
<1>7. ASSUME CleanupExpiredSessions PROVE ManagerInv'
  <2>1. ManagerTypeOK' /\ registry' \subseteq registry /\ alive' \subseteq registry' \cap alive
    BY <1>7, <1>t DEF CleanupExpiredSessions, Swept, ManagerTypeOK
  <2> QED BY <1>c, <2>1
<1>8. ASSUME Shutdown PROVE ManagerInv'
  <2>1. ManagerTypeOK' /\ registry' \subseteq registry /\ alive' \subseteq registry' \cap alive
    BY <1>8, <1>t DEF Shutdown, ManagerTypeOK
  <2> QED BY <1>c, <2>1
<1>9. CASE UNCHANGED managerVars
  <2>1. ManagerTypeOK' /\ UNCHANGED <<registry, alive>>
    BY <1>9, <1>t DEF managerVars, ManagerTypeOK
  <2> QED BY <1>c, <1>t, <2>1
<1> QED BY <1>1, <1>2, <1>3, <1>4, <1>5, <1>6, <1>7, <1>8, <1>9 DEF ManagerNext

\* A session that left the registry is closed, by whichever of CloseSession, the
\* sweep and Shutdown, and there are never more than maxSessions of them.
THEOREM SessionsSafe == ManagerSpec => [](ManagerTypeOK /\ NoSessionLeaked)
<1>1. ManagerInit => ManagerInv
  <2> SUFFICES ASSUME ManagerInit PROVE ManagerInv
    OBVIOUS
  <2>1. ManagerTypeOK
    BY DEF ManagerInit, ManagerTypeOK
  <2>2. NoSessionLeaked /\ IsFiniteSet(registry)
    BY FS_EmptySet, ManagerConstants DEF ManagerInit, NoSessionLeaked, ManagerConstants
  <2> QED BY <2>1, <2>2 DEF ManagerInv
<1>2. ManagerInv /\ [ManagerNext]_managerVars => ManagerInv'
  BY ManagerStep, ManagerConstants
<1>3. ManagerInv => ManagerTypeOK /\ NoSessionLeaked
  BY DEF ManagerInv
<1> QED BY <1>1, <1>2, <1>3, PTL DEF ManagerSpec

-----------------------------------------------------------------------------
(* The streaming upload.                                                   *)

\* The pipe is closed cleanly only after upload_finish; the request's goroutine
\* leaves one result, which one upload_finish takes.
UploadInv ==
    /\ UploadTypeOK
    /\ accepted = received
    /\ (\E h \in Hosts : hostCall[h] = "closing") => finished
    /\ pipe = "closed" \/ sawEof => finished
    /\ uploadRequest = "running" => ~responseCh /\ finishes = 0
    /\ responseCh => finishes = 0
    /\ finishes <= 1

\* Every step of an upload keeps UploadInv.
LEMMA UploadStep ==
  ASSUME UploadConstants, UploadInv, [UploadNext]_uploadVars
  PROVE  UploadInv'
<1> USE DEF UploadConstants, UploadInv, UploadTypeOK, pipeState, counts
<1>1. ASSUME NEW h \in Hosts, LookUp(h) PROVE UploadInv'
  BY <1>1 DEF LookUp
<1>2. ASSUME NEW h \in Hosts, LockWrite(h) PROVE UploadInv'
  BY <1>2 DEF LockWrite
<1>3. ASSUME NEW h \in Hosts, EndWrite(h) PROVE UploadInv'
  BY <1>3 DEF EndWrite
<1>4. ASSUME NEW h \in Hosts, NEW op \in {"finish", "cancel"}, TakeUpload(h, op)
      PROVE  UploadInv'
  BY <1>4 DEF TakeUpload
<1>5. ASSUME NEW h \in Hosts, FinishUpload(h) PROVE UploadInv'
  BY <1>5 DEF FinishUpload
<1>6. ASSUME NEW h \in Hosts, CloseWriter(h) PROVE UploadInv'
  BY <1>6 DEF CloseWriter
<1>7. ASSUME NEW h \in Hosts, AwaitResponse(h) PROVE UploadInv'
  <2>1. /\ responseCh /\ responseCh' = FALSE /\ finishes' = finishes + 1
        /\ uploadRequest # "running"
    BY <1>7 DEF AwaitResponse
  <2>2. finishes' = 1
    BY <2>1
  <2>3. /\ UNCHANGED <<inTable, finished, mu, pipe, pipeReader, uploadRequest, sawEof, accepted>>
        /\ received' = received
    BY <1>7 DEF AwaitResponse
  <2>4. hostCall' = [hostCall EXCEPT ![h] = "idle"]
    BY <1>7 DEF AwaitResponse
  <2>5. UploadTypeOK'
    <3>0. responseCh' \in BOOLEAN
      BY <2>1, Zenon
    <3>1. finishes' \in Nat
      BY <2>2
    <3>2. hostCall' \in [Hosts -> {"idle", "write", "writing", "finish", "closing", "await",
                                  "cancel"}]
      BY <2>4
    <3> QED BY <2>3, <3>0, <3>1, <3>2
  <2> QED BY <2>1, <2>2, <2>3, <2>4, <2>5
<1>8. ASSUME NEW h \in Hosts, CancelUpload(h) PROVE UploadInv'
  BY <1>8 DEF CancelUpload, CancelledPipe
<1>9. ASSUME RequestEnds PROVE UploadInv'
  BY <1>9 DEF RequestEnds
<1>10. CASE UNCHANGED uploadVars
  BY <1>10 DEF uploadVars
<1> QED BY <1>1, <1>2, <1>3, <1>4, <1>5, <1>6, <1>7, <1>8, <1>9, <1>10 DEF UploadNext

\* The server sees a complete body only of an upload that was finished, with all
\* chunks that were reported as written, and one upload_finish gets the result.
THEOREM UploadSafe == UploadSpec => [](UploadTypeOK /\ CompleteMeansFinished)
<1>1. UploadInit => UploadInv
  <2> SUFFICES ASSUME UploadInit PROVE UploadInv
    OBVIOUS
  <2>1. UploadTypeOK
    BY UploadConstants DEF UploadConstants, UploadInit, UploadTypeOK
  <2> QED BY <2>1 DEF UploadInit, UploadInv
<1>2. UploadInv /\ [UploadNext]_uploadVars => UploadInv'
  BY UploadStep, UploadConstants
<1>3. UploadInv => UploadTypeOK /\ CompleteMeansFinished
  BY DEF UploadInv, CompleteMeansFinished
<1> QED BY <1>1, <1>2, <1>3, PTL DEF UploadSpec

-----------------------------------------------------------------------------
(* Lists without repetition.                                               *)

\* The least element of a set of naturals.
LEMMA LeastNatural ==
  ASSUME NEW S \in SUBSET Nat, S # {}
  PROVE  Min(S) \in S /\ \A y \in S : Min(S) <= y
<1> DEFINE R == {p \in Nat \X Nat : p[1] < p[2]}
<1>1. IsWellFoundedOn(R, Nat)
  BY NatLessThanWellFounded, Zenon DEF OpToRel
<1>2. PICK x \in S : \A y \in S : ~(<<y, x>> \in R)
  BY <1>1, WFMin
<1>3. ASSUME NEW y \in S PROVE x <= y
  <2>1. x \in Nat /\ y \in Nat /\ (y < x => <<y, x>> \in R)
    BY SMT
  <2> HIDE DEF R
  <2> QED BY <1>2, <2>1
<1> QED BY <1>3 DEF Min

\* A list without repetition is as long as it has members.
LEMMA ListCardinality ==
  ASSUME NEW S, NEW s \in Seq(S), IsInjective(s)
  PROVE  IsFiniteSet(ToSet(s)) /\ Cardinality(ToSet(s)) = Len(s)
<1>1. Len(s) \in Nat /\ DOMAIN s = 1..Len(s) /\ s \in [1..Len(s) -> ToSet(s)]
  BY DEF ToSet
<1>2. IsFiniteSet(1..Len(s)) /\ Cardinality(1..Len(s)) = Len(s)
  BY SMTT(40), <1>1, FS_Interval
<1>3. s \in Surjection(1..Len(s), ToSet(s)) /\ s \in Injection(1..Len(s), ToSet(s))
  BY <1>1 DEF Surjection, Injection, ToSet, IsInjective
<1> QED BY <1>2, <1>3, FS_Surjection

\* Adding a last element that is new.
LEMMA AppendMembers ==
  ASSUME NEW S, NEW s \in Seq(S), NEW c \in S, IsInjective(s), c \notin ToSet(s)
  PROVE  /\ Append(s, c) \in Seq(S) /\ IsInjective(Append(s, c))
         /\ Len(Append(s, c)) = Len(s) + 1
         /\ ToSet(Append(s, c)) = ToSet(s) \cup {c}
<1> DEFINE n == Len(s)  t == Append(s, c)
<1>1. n \in Nat /\ DOMAIN s = 1..n
  OBVIOUS
<1>2. /\ t \in Seq(S) /\ Len(t) = n + 1 /\ DOMAIN t = 1..(n + 1)
      /\ \A i \in 1..n : t[i] = s[i]
      /\ t[n + 1] = c
  BY <1>1
<1> HIDE DEF t
<1>3. \A m \in 1..n : t[m] # c
  BY <1>1, <1>2 DEF ToSet
<1>4. IsInjective(t)
  BY <1>1, <1>2, <1>3 DEF IsInjective
<1>5. ASSUME NEW x PROVE x \in ToSet(t) <=> x \in ToSet(s) \cup {c}
  <2>1. x \in ToSet(t) <=> \E i \in 1..(n + 1) : t[i] = x
    BY <1>2 DEF ToSet
  <2>2. x \in ToSet(s) <=> \E i \in 1..n : s[i] = x
    BY <1>1 DEF ToSet
  <2>3. \A i \in 1..(n + 1) : i \in 1..n \/ i = n + 1
    BY <1>1
  <2>4. n + 1 \in 1..(n + 1) /\ \A i \in 1..n : i \in 1..(n + 1)
    BY <1>1
  <2> QED BY <1>2, <2>1, <2>2, <2>3, <2>4
<1>6. ToSet(t) = ToSet(s) \cup {c}
  BY <1>5
<1> QED BY <1>2, <1>4, <1>6 DEF t

\* The positions of a list behind its first m.
LEMMA Behind ==
  ASSUME NEW n \in Nat, NEW m \in 0..n
  PROVE  n - (m + 1) + 1 = n - m /\ (m + 1 <= n \/ n - m = 0)
OBVIOUS

\* Removing the only place of a member.
LEMMA RemoveMember ==
  ASSUME NEW S, NEW s \in Seq(S), NEW c, IsInjective(s), c \in ToSet(s)
  PROVE  /\ RemoveFirst(s, c) \in Seq(S) /\ IsInjective(RemoveFirst(s, c))
         /\ Len(RemoveFirst(s, c)) = Len(s) - 1
         /\ ToSet(RemoveFirst(s, c)) = ToSet(s) \ {c}
<1> DEFINE n == Len(s)  I == {i \in 1..n : s[i] = c}  m == Min(I)
           t == SubSeq(s, 1, m - 1) \o SubSeq(s, m + 1, n)
<1>1. n \in Nat /\ DOMAIN s = 1..n
  OBVIOUS
<1>2. I # {} /\ I \in SUBSET Nat
  BY <1>1 DEF ToSet
<1>3. m \in I
  BY <1>2, LeastNatural
<1>4. RemoveFirst(s, c) = t
  BY <1>1, <1>2 DEF RemoveFirst, RemoveAt, SelectInSeq
<1>5. m \in 1..n /\ s[m] = c
  BY <1>3
<1> HIDE DEF m
<1>6. /\ SubSeq(s, 1, m - 1) \in Seq(S) /\ Len(SubSeq(s, 1, m - 1)) = m - 1
      /\ \A i \in 1..(m - 1) : SubSeq(s, 1, m - 1)[i] = s[i]
  BY <1>1, <1>5
<1>7. /\ SubSeq(s, m + 1, n) \in Seq(S) /\ Len(SubSeq(s, m + 1, n)) = n - m
      /\ \A i \in 1..(n - m) : SubSeq(s, m + 1, n)[i] = s[m + i]
  <2>1. m + 1 \in Int /\ n \in Int /\ \A i \in (m + 1)..n : s[i] \in S
    BY <1>1, <1>5
  <2>2. /\ SubSeq(s, m + 1, n) \in Seq(S)
        /\ Len(SubSeq(s, m + 1, n)) = IF m + 1 <= n THEN n - (m + 1) + 1 ELSE 0
        /\ \A i \in 1..(n - (m + 1) + 1) : SubSeq(s, m + 1, n)[i] = s[(m + 1) + i - 1]
    BY <2>1, SubSeqProperties
  <2> QED
    <3>1. n - (m + 1) + 1 = n - m /\ (m + 1 <= n \/ n - m = 0)
      <4>1. n \in Nat /\ m \in 0..n
        BY <1>1, <1>5
      <4> QED BY <4>1, Behind
    <3>2. \A i \in 1..(n - m) : (m + 1) + i - 1 = m + i
      BY <1>1, <1>5
    <3> QED BY <2>2, <3>1, <3>2
<1> DEFINE a == SubSeq(s, 1, m - 1)  b == SubSeq(s, m + 1, n)
<1>8. /\ t \in Seq(S) /\ Len(t) = n - 1 /\ DOMAIN t = 1..(n - 1)
      /\ \A i \in 1..(n - 1) : t[i] = IF i < m THEN s[i] ELSE s[i + 1]
  <2> HIDE DEF a, b
  <2>1. a \in Seq(S) /\ Len(a) = m - 1 /\ b \in Seq(S) /\ Len(b) = n - m
    BY <1>6, <1>7 DEF a, b
  <2>2. t = a \o b
    BY DEF t, a, b
  <2> HIDE DEF t
  <2>3. /\ t \in Seq(S) /\ Len(t) = Len(a) + Len(b)
        /\ \A i \in 1..(Len(a) + Len(b)) : t[i] = IF i <= Len(a) THEN a[i] ELSE b[i - Len(a)]
    BY <2>1, <2>2, ConcatProperties
  <2>4. Len(t) = n - 1 /\ DOMAIN t = 1..(n - 1)
    <3>1. DOMAIN t = 1..Len(t)
      BY <2>3
    <3>2. Len(t) = (m - 1) + (n - m)
      BY <2>1, <2>3
    <3>3. (m - 1) + (n - m) = n - 1
      BY <1>1, <1>5
    <3> QED BY <3>1, <3>2, <3>3
  <2>5. ASSUME NEW i \in 1..(n - 1), i < m PROVE t[i] = s[i]
    <3>1. i \in 1..(m - 1) /\ i \in 1..(Len(a) + Len(b)) /\ i <= Len(a)
      BY <1>1, <1>5, <2>1, <2>5
    <3> QED BY <1>6, <2>3, <3>1 DEF a
  <2>6. ASSUME NEW i \in 1..(n - 1), ~(i < m) PROVE t[i] = s[i + 1]
    <3>1. /\ i - (m - 1) \in 1..(n - m) /\ i \in 1..(Len(a) + Len(b)) /\ ~(i <= Len(a))
          /\ m + (i - (m - 1)) = i + 1
      BY <1>1, <1>5, <2>1, <2>6
    <3>2. t[i] = b[i - (m - 1)]
      BY <2>1, <2>3, <3>1
    <3> QED BY <1>7, <3>1, <3>2 DEF b
  <2> QED BY <2>3, <2>4, <2>5, <2>6
<1> HIDE DEF t
<1>9. IsInjective(t)
  <2> DEFINE Cut(i) == IF i < m THEN i ELSE i + 1
  <2>1. ASSUME NEW i \in 1..(n - 1) PROVE Cut(i) \in DOMAIN s /\ t[i] = s[Cut(i)]
    <3>1. Cut(i) \in 1..n
      BY <1>1, <1>5
    <3> QED BY <1>1, <1>8, <3>1
  <2>2. ASSUME NEW i \in 1..(n - 1), NEW j \in 1..(n - 1), Cut(i) = Cut(j) PROVE i = j
    BY <1>1, <1>5, <2>2
  <2> HIDE DEF Cut
  <2> QED BY SMTT(40), <1>8, <2>1, <2>2 DEF IsInjective
<1>10. ASSUME NEW x PROVE x \in ToSet(t) <=> x \in ToSet(s) \ {c}
  <2>1. x \in ToSet(t) <=> \E i \in 1..(n - 1) : t[i] = x
    BY <1>8 DEF ToSet
  <2>2. x \in ToSet(s) <=> \E i \in 1..n : s[i] = x
    BY <1>1 DEF ToSet
  <2>3. ASSUME NEW i \in 1..(n - 1), t[i] = x PROVE x \in ToSet(s) \ {c}
    <3>1. CASE i < m
      BY SMTT(40), <1>1, <1>5, <1>8, <2>2, <2>3, <3>1 DEF IsInjective
    <3>2. CASE ~(i < m)
      <4>1. i + 1 \in 1..n /\ i + 1 # m /\ s[i + 1] = x
        BY <1>1, <1>5, <1>8, <2>3, <3>2
      <4> QED BY <1>1, <1>5, <2>2, <4>1 DEF IsInjective
    <3> QED BY <3>1, <3>2
  <2>4. ASSUME NEW i \in 1..n, s[i] = x, x # c PROVE \E j \in 1..(n - 1) : t[j] = x
    <3>1. CASE i < m
      BY <1>1, <1>5, <1>8, <2>4, <3>1
    <3>2. CASE ~(i < m)
      <4>1. i # m /\ i - 1 \in 1..(n - 1) /\ ~(i - 1 < m)
        BY <1>1, <1>5, <2>4, <3>2
      <4>2. t[i - 1] = s[(i - 1) + 1]
        BY <1>8, <4>1
      <4> QED BY <1>1, <2>4, <4>1, <4>2
    <3> QED BY <3>1, <3>2
  <2> QED BY <2>1, <2>2, <2>3, <2>4
<1>11. ToSet(t) = ToSet(s) \ {c}
  BY SMTT(40), <1>10
<1> QED BY <1>4, <1>8, <1>9, <1>11

\* Dropping the first n elements.
LEMMA DropMembers ==
  ASSUME NEW S, NEW s \in Seq(S), IsInjective(s), NEW n \in 0..Len(s)
  PROVE  /\ SubSeq(s, n + 1, Len(s)) \in Seq(S) /\ IsInjective(SubSeq(s, n + 1, Len(s)))
         /\ Len(SubSeq(s, n + 1, Len(s))) = Len(s) - n
         /\ ToSet(SubSeq(s, n + 1, Len(s))) = ToSet(s) \ Oldest(s, n)
<1> DEFINE l == Len(s)  t == SubSeq(s, n + 1, l)
<1>1. l \in Nat /\ DOMAIN s = 1..l
  BY SMTT(40)
<1>2. /\ t \in Seq(S) /\ Len(t) = l - n /\ DOMAIN t = 1..(l - n)
      /\ \A i \in 1..(l - n) : t[i] = s[n + i]
  <2>1. n + 1 \in Int /\ l \in Int /\ \A i \in (n + 1)..l : s[i] \in S
    BY <1>1
  <2>2. /\ t \in Seq(S) /\ Len(t) = IF n + 1 <= l THEN l - (n + 1) + 1 ELSE 0
        /\ \A i \in 1..(l - (n + 1) + 1) : t[i] = s[(n + 1) + i - 1]
    BY SMTT(40), <2>1, SubSeqProperties
  <2>3. l - (n + 1) + 1 = l - n /\ (n + 1 <= l \/ l - n = 0)
    BY <1>1, Behind
  <2>4. \A i \in 1..(l - n) : (n + 1) + i - 1 = n + i
    BY <1>1
  <2>5. DOMAIN t = 1..Len(t)
    BY <2>2
  <2> QED BY <2>2, <2>3, <2>4, <2>5
<1> HIDE DEF t
<1>3. IsInjective(t)
  <2> SUFFICES ASSUME NEW i \in 1..(l - n), NEW j \in 1..(l - n), t[i] = t[j] PROVE i = j
    BY <1>2 DEF IsInjective
  <2>1. n + i \in 1..l /\ n + j \in 1..l /\ s[n + i] = s[n + j]
    BY <1>1, <1>2
  <2>2. n + i = n + j
    BY <1>1, <2>1 DEF IsInjective
  <2> QED BY <2>2
<1>4. ASSUME NEW x PROVE x \in ToSet(t) <=> x \in ToSet(s) \ Oldest(s, n)
  <2>1. x \in ToSet(t) <=> \E i \in 1..(l - n) : t[i] = x
    BY <1>2 DEF ToSet
  <2>2. x \in ToSet(s) <=> \E i \in 1..l : s[i] = x
    BY <1>1 DEF ToSet
  <2>3. x \in Oldest(s, n) <=> \E i \in 1..n : s[i] = x
    BY DEF Oldest
  <2>4. ASSUME NEW i \in 1..(l - n), t[i] = x PROVE x \in ToSet(s) /\ x \notin Oldest(s, n)
    <3>a. n + i \in 1..l
      BY <1>1
    <3>b. s[n + i] = x
      BY <1>2, <2>4
    <3>1. n + i \in 1..l /\ s[n + i] = x
      BY <3>a, <3>b
    <3>2. ASSUME NEW j \in 1..n, s[j] = x PROVE FALSE
      BY <1>1, <3>1, <3>2 DEF IsInjective
    <3> QED BY <2>2, <2>3, <3>1, <3>2
  <2>5. ASSUME NEW i \in 1..l, s[i] = x, x \notin Oldest(s, n) PROVE \E j \in 1..(l - n) : t[j] = x
    <3>1. i \notin 1..n
      BY <2>3, <2>5
    <3>2. i - n \in 1..(l - n) /\ t[i - n] = s[n + (i - n)]
      BY <1>1, <1>2, <3>1
    <3> QED BY <1>1, <2>5, <3>2
  <2> QED BY <2>1, <2>2, <2>4, <2>5
<1>5. ToSet(t) = ToSet(s) \ Oldest(s, n)
  BY <1>4
<1> QED BY <1>1, <1>2, <1>3, <1>5 DEF t

-----------------------------------------------------------------------------
(* The cache of TLS tickets.                                               *)

\* A cache whose order lists the keys it holds, once each; T holds the tickets.
Matched(local, order, T) ==
    /\ local \in [TicketKeys -> T] /\ order \in Seq(TicketKeys)
    /\ IsInjective(order) /\ ToSet(order) = Held(local)

\* evictIfNeeded ends with the cache within its limit, whatever it began with,
\* because the order it reads lists everything that is held.
LEMMA EvictionBounds ==
  ASSUME TLSCacheConstants, NEW T, 0 \in T, NEW local, NEW order, Matched(local, order, T)
  PROVE  /\ Matched(EvictIfNeeded(local, order).local, EvictIfNeeded(local, order).order, T)
         /\ Len(EvictIfNeeded(local, order).order) <= CacheMaxSize
         /\ Held(EvictIfNeeded(local, order).local) \subseteq Held(local)
<1> DEFINE l == Len(order)
           N == {n \in 0..l : n = l \/ Cardinality(Held(local) \ Oldest(order, n)) <= CacheMaxSize}
           n == Rounds(local, order)
           rest == SubSeq(order, n + 1, l)
           left == [k \in TicketKeys |-> IF k \in Oldest(order, n) THEN 0 ELSE local[k]]
<1>1. l \in Nat
  BY DEF Matched
<1>2. N \in SUBSET Nat /\ l \in N
  BY <1>1
<1>3. n \in N
  BY <1>2, LeastNatural DEF Rounds
<1>4. n \in 0..l /\ (n = l \/ Cardinality(Held(local) \ Oldest(order, n)) <= CacheMaxSize)
  BY <1>3
<1>5. EvictIfNeeded(local, order).local = left /\ EvictIfNeeded(local, order).order = rest
  BY DEF EvictIfNeeded
<1> HIDE DEF n
<1>6. /\ rest \in Seq(TicketKeys) /\ IsInjective(rest) /\ Len(rest) = l - n
      /\ ToSet(rest) = ToSet(order) \ Oldest(order, n)
  BY <1>4, DropMembers DEF Matched
<1> HIDE DEF rest
<1>7. left \in [TicketKeys -> T] /\ Held(left) = Held(local) \ Oldest(order, n)
  BY DEF Matched, Held
<1> HIDE DEF left
<1>8. Matched(left, rest, T)
  BY <1>6, <1>7 DEF Matched
<1>9. Len(rest) <= CacheMaxSize
  <2>1. Cardinality(ToSet(rest)) = Len(rest)
    BY <1>6, ListCardinality
  <2>2. ToSet(rest) = Held(local) \ Oldest(order, n)
    BY <1>6 DEF Matched
  <2>3. CASE n = l
    BY <1>1, <1>6, <2>3 DEF TLSCacheConstants
  <2> QED BY <1>4, <2>1, <2>2, <2>3
<1> QED BY <1>5, <1>7, <1>8, <1>9

\* A key that is not held is added at the end.
LEMMA AddedMatched ==
  ASSUME NEW T, 0 \in T, NEW local, NEW order, Matched(local, order, T),
         NEW k \in TicketKeys, k \notin Held(local), NEW t \in T, t # 0
  PROVE  Matched([local EXCEPT ![k] = t], Append(order, k), T)
         /\ Len(Append(order, k)) = Len(order) + 1
<1>1. Held([local EXCEPT ![k] = t]) = Held(local) \cup {k}
         /\ [local EXCEPT ![k] = t] \in [TicketKeys -> T]
  BY DEF Held, Matched
<1>2. /\ Append(order, k) \in Seq(TicketKeys) /\ IsInjective(Append(order, k))
      /\ Len(Append(order, k)) = Len(order) + 1
      /\ ToSet(Append(order, k)) = ToSet(order) \cup {k}
  BY AppendMembers DEF Matched
<1> QED BY <1>1, <1>2 DEF Matched

\* A key that is held goes to the end.
LEMMA MovedMatched ==
  ASSUME NEW T, NEW local, NEW order, Matched(local, order, T),
         NEW k \in TicketKeys, k \in Held(local)
  PROVE  Matched(local, MoveToEnd(order, k), T) /\ Len(MoveToEnd(order, k)) = Len(order)
<1> DEFINE cut == RemoveFirst(order, k)
<1>1. /\ cut \in Seq(TicketKeys) /\ IsInjective(cut) /\ Len(cut) = Len(order) - 1
      /\ ToSet(cut) = ToSet(order) \ {k}
  BY RemoveMember DEF Matched
<1>2. MoveToEnd(order, k) = Append(cut, k)
  BY DEF MoveToEnd, Matched
<1> HIDE DEF cut
<1>3. /\ Append(cut, k) \in Seq(TicketKeys) /\ IsInjective(Append(cut, k))
      /\ Len(Append(cut, k)) = Len(cut) + 1
      /\ ToSet(Append(cut, k)) = ToSet(cut) \cup {k}
  BY <1>1, AppendMembers
<1>4. Len(order) \in Nat /\ k \in ToSet(order) /\ ToSet(order) = Held(local)
  BY DEF Matched
<1> QED BY <1>1, <1>2, <1>3, <1>4 DEF Matched

\* A key that is held gets another ticket.
LEMMA ReplacedMatched ==
  ASSUME NEW T, NEW local, NEW order, Matched(local, order, T),
         NEW k \in TicketKeys, k \in Held(local), NEW t \in T, t # 0
  PROVE  Matched([local EXCEPT ![k] = t], order, T)
<1>1. Held([local EXCEPT ![k] = t]) = Held(local) /\ [local EXCEPT ![k] = t] \in [TicketKeys -> T]
  BY DEF Held, Matched
<1> QED BY <1>1 DEF Matched

\* A key that is held is removed.
LEMMA RemovedMatched ==
  ASSUME NEW T, 0 \in T, NEW local, NEW order, Matched(local, order, T),
         NEW k \in TicketKeys, k \in Held(local)
  PROVE  /\ Matched([local EXCEPT ![k] = 0], RemoveFirst(order, k), T)
         /\ Len(RemoveFirst(order, k)) = Len(order) - 1
<1>1. Held([local EXCEPT ![k] = 0]) = Held(local) \ {k}
         /\ [local EXCEPT ![k] = 0] \in [TicketKeys -> T]
  BY DEF Held, Matched
<1>2. /\ RemoveFirst(order, k) \in Seq(TicketKeys) /\ IsInjective(RemoveFirst(order, k))
      /\ Len(RemoveFirst(order, k)) = Len(order) - 1
      /\ ToSet(RemoveFirst(order, k)) = ToSet(order) \ {k}
  BY RemoveMember DEF Matched
<1> QED BY <1>1, <1>2 DEF Matched

\* What Import makes of a saved cache matches, in whatever order the tickets come.
LEMMA ImportMatched ==
  ASSUME TLSCacheConstants, NEW T, 0 \in T, NEW file, NEW order, Matched(file, order, T),
         NEW new \in ImportTickets(file)
  PROVE  Matched(new.local, new.order, T) /\ Len(new.order) <= CacheMaxSize
<1> DEFINE kept == {k \in Held(file) : file[k] \notin aged}
           local == [k \in TicketKeys |-> IF k \in kept THEN file[k] ELSE 0]
           n == Cardinality(kept)
<1>1. PICK list \in SetToSeqs(kept) : new = EvictIfNeeded(local, list)
  BY DEF ImportTickets
<1>2. IsFiniteSet(kept) /\ n \in Nat
  <2>1. IsFiniteSet(Held(file))
    BY ListCardinality DEF Matched
  <2>2. kept \in SUBSET Held(file)
    OBVIOUS
  <2> QED BY <2>1, <2>2, FS_Subset, FS_CardinalityType
<1>3. list \in [1..n -> kept] /\ \A i, j \in 1..n : i # j => list[i] # list[j]
  BY <1>1 DEF SetToSeqs
<1>4. local \in [TicketKeys -> T] /\ Held(local) = kept
  BY DEF Held, Matched
<1>5. kept \subseteq TicketKeys
  BY DEF Held
<1> HIDE DEF kept, local
<1>6. list \in Seq(TicketKeys) /\ IsInjective(list) /\ DOMAIN list = 1..n
  BY <1>2, <1>3, <1>5 DEF IsInjective
<1>7. ToSet(list) = kept
  <2>1. list \in Injection(1..n, kept)
    BY <1>3, <1>6 DEF Injection
  <2>2. Cardinality(1..n) = n
    BY <1>2, FS_Interval
  <2>3. list \in Surjection(1..n, kept)
    BY <1>2, <2>1, <2>2, FS_Injection
  <2> QED BY <1>6, <2>3 DEF Surjection, ToSet
<1>8. Matched(local, list, T)
  BY <1>4, <1>6, <1>7 DEF Matched
<1> QED BY <1>1, <1>8, EvictionBounds

\* The inductive invariant.
TLSInv == TLSTypeOK /\ OrderMatchesCache

\* A step that gives one cache tickets and an order that match keeps the caches right.
LEMMA CacheReplaced ==
  ASSUME TLSCacheConstants, NEW T, NEW c \in Caches, NEW new,
         tickets \in [Caches -> [TicketKeys -> T]], accessOrder \in [Caches -> Seq(TicketKeys)],
         OrderMatchesCache, SetCache(c, new),
         Matched(new.local, new.order, T), Len(new.order) <= CacheMaxSize + 1
  PROVE  /\ tickets' \in [Caches -> [TicketKeys -> T]]
         /\ accessOrder' \in [Caches -> Seq(TicketKeys)]
         /\ OrderMatchesCache'
<1>1. /\ tickets' = [tickets EXCEPT ![c] = new.local]
      /\ accessOrder' = [accessOrder EXCEPT ![c] = new.order]
  BY DEF SetCache
<1>2. new.local \in [TicketKeys -> T] /\ new.order \in Seq(TicketKeys)
  BY DEF Matched
<1>3. tickets' \in [Caches -> [TicketKeys -> T]] /\ accessOrder' \in [Caches -> Seq(TicketKeys)]
  BY <1>1, <1>2
<1>4. ASSUME NEW d \in Caches
      PROVE  /\ IsInjective(accessOrder'[d]) /\ ToSet(accessOrder'[d]) = Held(tickets'[d])
             /\ Len(accessOrder'[d]) <= CacheMaxSize + 1
  <2>1. CASE d = c
    BY <1>1, <2>1 DEF Matched
  <2>2. CASE d # c
    <3>1. tickets'[d] = tickets[d] /\ accessOrder'[d] = accessOrder[d]
      BY <1>1, <2>2
    <3> QED BY <3>1 DEF OrderMatchesCache
  <2> QED BY <2>1, <2>2
<1>5. OrderMatchesCache'
  <2>1. \A d \in Caches : Held(tickets[d])' = Held(tickets'[d])
    BY DEF Held
  <2> QED BY <1>4, <2>1 DEF OrderMatchesCache
<1> QED BY <1>3, <1>5
\* What each cache is in a state of the invariant.
LEMMA CachesMatched ==
  ASSUME TLSInv, NEW c \in Caches
  PROVE  Matched(tickets[c], accessOrder[c], Ticket \cup {0})
         /\ Len(accessOrder[c]) \in Nat /\ Len(accessOrder[c]) <= CacheMaxSize + 1
BY DEF TLSInv, TLSTypeOK, OrderMatchesCache, Matched

\* A step that leaves the caches alone.
LEMMA CachesKept ==
  ASSUME OrderMatchesCache, UNCHANGED <<tickets, accessOrder>>
  PROVE  OrderMatchesCache'
BY DEF OrderMatchesCache, Held

\* Put of a new ticket keeps the invariant.
LEMMA PutTicketStep ==
  ASSUME TLSCacheConstants, TLSInv, NEW c \in Caches, NEW k \in TicketKeys, PutTicket(c, k)
  PROVE  TLSInv'
<1> DEFINE t == issued + 1  U == (1..t) \cup {0}
<1>1. /\ issued \in Nat /\ t <= MaxTickets /\ issued' = t /\ MaxTickets \in Nat
      /\ UNCHANGED <<identifier, backend, aged, moves>>
      /\ writers' = writers \cup {Writer("put", c, k, t)}
  BY DEF PutTicket, TLSInv, TLSTypeOK, TLSCacheConstants
<1>2. Ticket \cup {0} \subseteq U /\ Ticket' \cup {0} = U /\ t \in U /\ t # 0 /\ 0 \in U
  BY <1>1 DEF Ticket
<1>3. Matched(tickets[c], accessOrder[c], U)
  BY <1>2, CachesMatched DEF Matched
<1>4. /\ tickets \in [Caches -> [TicketKeys -> U]]
      /\ accessOrder \in [Caches -> Seq(TicketKeys)]
      /\ OrderMatchesCache
  BY <1>2 DEF TLSInv, TLSTypeOK
<1> HIDE DEF t, U
<1>5. PICK new : SetCache(c, new) /\ Matched(new.local, new.order, U)
                 /\ Len(new.order) <= CacheMaxSize + 1
  <2>1. CASE tickets[c][k] # 0
    <3> DEFINE new == [local |-> [tickets[c] EXCEPT ![k] = t],
                       order |-> MoveToEnd(accessOrder[c], k)]
    <3>1. SetCache(c, new)
      BY <2>1 DEF PutTicket, t
    <3>2. k \in Held(tickets[c])
      BY <2>1 DEF Held
    <3>3. /\ Matched([tickets[c] EXCEPT ![k] = t], MoveToEnd(accessOrder[c], k), U)
          /\ Len(MoveToEnd(accessOrder[c], k)) = Len(accessOrder[c])
      BY <1>2, <1>3, <3>2, MovedMatched, ReplacedMatched
    <3> HIDE DEF new
    <3>4. new.local = [tickets[c] EXCEPT ![k] = t] /\ new.order = MoveToEnd(accessOrder[c], k)
      BY DEF new
    <3>5. Len(accessOrder[c]) <= CacheMaxSize + 1
      BY CachesMatched
    <3> QED BY <3>1, <3>3, <3>4, <3>5
  <2>2. CASE tickets[c][k] = 0
    <3> DEFINE e == EvictIfNeeded(tickets[c], accessOrder[c])
               new == [local |-> [e.local EXCEPT ![k] = t], order |-> Append(e.order, k)]
    <3>1. SetCache(c, new)
      BY <2>2 DEF PutTicket, Inserted, t
    <3>2. /\ Matched(e.local, e.order, U) /\ Len(e.order) <= CacheMaxSize
          /\ Held(e.local) \subseteq Held(tickets[c])
      BY <1>2, <1>3, EvictionBounds
    <3> HIDE DEF e
    <3>3. k \notin Held(e.local)
      BY <2>2, <3>2 DEF Held
    <3>4. /\ Matched([e.local EXCEPT ![k] = t], Append(e.order, k), U)
          /\ Len(Append(e.order, k)) = Len(e.order) + 1
      BY <1>2, <3>2, <3>3, AddedMatched
    <3> HIDE DEF new
    <3>5. new.local = [e.local EXCEPT ![k] = t] /\ new.order = Append(e.order, k)
      BY DEF new
    <3>6. Len(e.order) \in Nat /\ CacheMaxSize \in Nat
      BY <3>2 DEF Matched, TLSCacheConstants
    <3>7. Len(Append(e.order, k)) <= CacheMaxSize + 1
      BY <3>2, <3>4, <3>6
    <3> QED BY <3>1, <3>4, <3>5, <3>7
  <2> QED BY <2>1, <2>2
<1>6. /\ tickets' \in [Caches -> [TicketKeys -> U]]
      /\ accessOrder' \in [Caches -> Seq(TicketKeys)]
      /\ OrderMatchesCache'
  BY <1>4, <1>5, CacheReplaced
<1>7. /\ identifier' \in [Caches -> Identifiers]
      /\ backend' \in [Identifiers -> [TicketKeys -> Ticket' \cup {0}]]
      /\ aged' \subseteq Ticket' /\ issued' \in 0..MaxTickets /\ moves' \in 0..MaxMoves
  BY <1>1, <1>2 DEF TLSInv, TLSTypeOK, t, Ticket
<1>8. \A w \in writers' :
         w.cache \in Caches /\ w.key \in TicketKeys /\ w.ticket \in Ticket' \cup {0}
  BY <1>1, <1>2 DEF TLSInv, TLSTypeOK, Writer, t
<1> QED BY <1>2, <1>6, <1>7, <1>8 DEF TLSInv, TLSTypeOK

\* The steps that change one cache and give out no ticket.
LEMMA CacheStep ==
  ASSUME TLSCacheConstants, TLSInv, NEW c \in Caches, NEW new, SetCache(c, new),
         Matched(new.local, new.order, Ticket \cup {0}), Len(new.order) <= CacheMaxSize + 1,
         UNCHANGED <<identifier, backend, issued, aged>>, moves' \in 0..MaxMoves,
         \A w \in writers' :
            w.cache \in Caches /\ w.key \in TicketKeys /\ w.ticket \in Ticket \cup {0}
  PROVE  TLSInv'
<1>1. /\ tickets \in [Caches -> [TicketKeys -> Ticket \cup {0}]]
      /\ accessOrder \in [Caches -> Seq(TicketKeys)]
      /\ OrderMatchesCache
  BY DEF TLSInv, TLSTypeOK
<1>2. /\ tickets' \in [Caches -> [TicketKeys -> Ticket \cup {0}]]
      /\ accessOrder' \in [Caches -> Seq(TicketKeys)]
      /\ OrderMatchesCache'
  BY <1>1, CacheReplaced
<1>3. Ticket' = Ticket
  BY DEF Ticket
<1> QED BY <1>2, <1>3 DEF TLSInv, TLSTypeOK

\* Put with nil, Get and Import keep the invariant.
LEMMA LocalStep ==
  ASSUME TLSCacheConstants, TLSInv, NEW c \in Caches,
         \/ \E k \in TicketKeys : PutNil(c, k) \/ GetLocal(c, k) \/ GetFromBackend(c, k)
         \/ ClearCacheOf(c) \/ SaveAndLoadTickets(c)
  PROVE  TLSInv'
<1> DEFINE T == Ticket \cup {0}
<1>a. /\ Matched(tickets[c], accessOrder[c], T) /\ Len(accessOrder[c]) <= CacheMaxSize + 1
      /\ Len(accessOrder[c]) \in Nat /\ CacheMaxSize \in Nat /\ 0 \in T
  BY CachesMatched DEF TLSCacheConstants
<1>b. /\ moves \in 0..MaxMoves /\ MaxMoves \in Nat /\ issued \in Nat
      /\ \A w \in writers : w.cache \in Caches /\ w.key \in TicketKeys /\ w.ticket \in T
      /\ backend \in [Identifiers -> [TicketKeys -> T]] /\ identifier \in [Caches -> Identifiers]
      /\ OrderMatchesCache
  BY DEF TLSInv, TLSTypeOK, TLSCacheConstants
<1>c. \A k \in TicketKeys : tickets[c][k] # 0 <=> k \in Held(tickets[c])
  BY DEF Held
<1>1. ASSUME NEW k \in TicketKeys, PutNil(c, k) PROVE TLSInv'
  <2>1. /\ writers' = writers \cup {Writer("delete", c, k, 0)}
        /\ UNCHANGED <<identifier, backend, issued, aged, moves>>
    BY <1>1 DEF PutNil
  <2>2. \A w \in writers' : w.cache \in Caches /\ w.key \in TicketKeys /\ w.ticket \in T
    BY <1>a, <1>b, <2>1 DEF Writer
  <2>3. CASE tickets[c][k] # 0
    <3> DEFINE new == [local |-> [tickets[c] EXCEPT ![k] = 0],
                       order |-> RemoveFirst(accessOrder[c], k)]
    <3>1. SetCache(c, new)
      BY <1>1, <2>3 DEF PutNil
    <3>2. /\ Matched([tickets[c] EXCEPT ![k] = 0], RemoveFirst(accessOrder[c], k), T)
          /\ Len(RemoveFirst(accessOrder[c], k)) = Len(accessOrder[c]) - 1
      BY <1>a, <1>c, <2>3, RemovedMatched
    <3>3. new.local = [tickets[c] EXCEPT ![k] = 0] /\ new.order = RemoveFirst(accessOrder[c], k)
      OBVIOUS
    <3> HIDE DEF new
    <3>4. Len(new.order) <= CacheMaxSize + 1
      BY <1>a, <3>2, <3>3
    <3> QED BY <1>b, <2>1, <2>2, <3>1, <3>2, <3>3, <3>4, CacheStep
  <2>4. CASE tickets[c][k] = 0
    <3>1. UNCHANGED <<tickets, accessOrder>>
      BY <1>1, <2>4 DEF PutNil
    <3>2. OrderMatchesCache' /\ Ticket' = Ticket
      BY <1>b, <2>1, <3>1, CachesKept DEF Ticket
    <3> QED BY <2>1, <2>2, <3>1, <3>2 DEF TLSInv, TLSTypeOK
  <2> QED BY <2>3, <2>4
<1>2. ASSUME NEW k \in TicketKeys, GetLocal(c, k) PROVE TLSInv'
  <2> DEFINE new == [local |-> tickets[c], order |-> MoveToEnd(accessOrder[c], k)]
  <2>1. /\ SetCache(c, new) /\ UNCHANGED <<identifier, backend, writers, issued, aged, moves>>
        /\ tickets[c][k] # 0
    BY <1>2 DEF GetLocal
  <2>3. /\ Matched(tickets[c], MoveToEnd(accessOrder[c], k), T)
        /\ Len(MoveToEnd(accessOrder[c], k)) = Len(accessOrder[c])
    BY <1>a, <1>c, <2>1, MovedMatched
  <2>4. new.local = tickets[c] /\ new.order = MoveToEnd(accessOrder[c], k)
    OBVIOUS
  <2> HIDE DEF new
  <2> QED BY <1>a, <1>b, <2>1, <2>3, <2>4, CacheStep
<1>3. ASSUME NEW k \in TicketKeys, GetFromBackend(c, k) PROVE TLSInv'
  <2> DEFINE s == Stored(c, k)
             new == EvictIfNeeded([tickets[c] EXCEPT ![k] = s], Append(accessOrder[c], k))
  <2>1. /\ SetCache(c, new) /\ UNCHANGED <<identifier, backend, writers, issued, aged, moves>>
        /\ tickets[c][k] = 0 /\ s # 0
    BY <1>3 DEF GetFromBackend, Inserted
  <2>2. s \in T
    BY <1>b DEF Stored
  <2> HIDE DEF s
  <2>3. Matched([tickets[c] EXCEPT ![k] = s], Append(accessOrder[c], k), T)
    BY <1>a, <1>c, <2>1, <2>2, AddedMatched
  <2>4. Matched(new.local, new.order, T) /\ Len(new.order) <= CacheMaxSize
    BY <1>a, <2>3, EvictionBounds
  <2> HIDE DEF new
  <2>5. Len(new.order) <= CacheMaxSize + 1
    BY <1>a, <2>4 DEF Matched
  <2> QED BY <1>b, <2>1, <2>4, <2>5, CacheStep
<1>4. ASSUME ClearCacheOf(c) PROVE TLSInv'
  <2> DEFINE new == [local |-> [k \in TicketKeys |-> 0], order |-> <<>>]
  <2>1. /\ SetCache(c, new) /\ UNCHANGED <<identifier, backend, writers, issued, aged>>
        /\ moves < MaxMoves /\ moves' = moves + 1
    BY <1>4 DEF ClearCacheOf, MoveTicket
  <2>2. Matched(new.local, new.order, T) /\ Len(new.order) <= CacheMaxSize + 1
    <3>1. new.local = [k \in TicketKeys |-> 0] /\ new.order = <<>>
      OBVIOUS
    <3>2. Held([k \in TicketKeys |-> 0]) = {} /\ ToSet(<<>>) = {} /\ IsInjective(<<>>)
          /\ <<>> \in Seq(TicketKeys) /\ Len(<<>>) = 0
      BY DEF Held, ToSet, IsInjective
    <3>3. [k \in TicketKeys |-> 0] \in [TicketKeys -> T] /\ 0 <= CacheMaxSize + 1
      BY <1>a
    <3> HIDE DEF new, T
    <3> QED BY <3>1, <3>2, <3>3 DEF Matched
  <2> HIDE DEF new
  <2>3. moves' \in 0..MaxMoves
    BY <1>b, <2>1
  <2> QED BY <1>b, <2>1, <2>2, <2>3, CacheStep
<1>5. ASSUME SaveAndLoadTickets(c) PROVE TLSInv'
  <2>1. PICK new \in ImportTickets(tickets[c]) : SetCache(c, new)
    BY <1>5 DEF SaveAndLoadTickets, ExportTickets
  <2>2. /\ UNCHANGED <<identifier, backend, writers, issued, aged>>
        /\ moves < MaxMoves /\ moves' = moves + 1
    BY <1>5 DEF SaveAndLoadTickets, MoveTicket
  <2>3. Matched(new.local, new.order, T) /\ Len(new.order) <= CacheMaxSize
    BY <1>a, ImportMatched
  <2>4. moves' \in 0..MaxMoves /\ Len(new.order) <= CacheMaxSize + 1
    BY <1>a, <1>b, <2>2, <2>3 DEF Matched
  <2> QED BY <1>b, <2>1, <2>2, <2>3, <2>4, CacheStep
<1> QED BY <1>1, <1>2, <1>3, <1>4, <1>5

\* The goroutines that write the backend, and time, keep the invariant.
LEMMA BackendStep ==
  ASSUME TLSCacheConstants, TLSInv,
         \/ \E w \in writers : PutToBackend(w) \/ DeleteFromBackend(w)
         \/ \E c \in Caches, i \in Identifiers : SetSessionIdentifier(c, i)
         \/ \E t \in Ticket : Age(t)
         \/ UNCHANGED tlsVars
  PROVE  TLSInv'
<1>1. UNCHANGED <<tickets, accessOrder, issued>>
  BY DEF PutToBackend, DeleteFromBackend, SetSessionIdentifier, Age, tlsVars
<1>2. OrderMatchesCache' /\ Ticket' = Ticket
  BY <1>1, CachesKept DEF TLSInv, Ticket
<1>a. TLSTypeOK
  BY DEF TLSInv
<1>3. ASSUME NEW w \in writers, PutToBackend(w) \/ DeleteFromBackend(w) PROVE TLSTypeOK'
  <2>1. /\ writers' = writers \ {w} /\ UNCHANGED <<identifier, aged, moves>>
        /\ \E t \in Ticket \cup {0} : WriteBackend(w.cache, w.key, t)
    BY <1>3, <1>a DEF PutToBackend, DeleteFromBackend, TLSTypeOK
  <2>2. backend' \in [Identifiers -> [TicketKeys -> Ticket \cup {0}]]
    <3>1. PICK t \in Ticket \cup {0} : WriteBackend(w.cache, w.key, t)
      BY <2>1
    <3>2. w.cache \in Caches /\ w.key \in TicketKeys /\ identifier[w.cache] \in Identifiers
      BY <1>a DEF TLSTypeOK
    <3>3. backend \in [Identifiers -> [TicketKeys -> Ticket \cup {0}]]
      BY <1>a DEF TLSTypeOK
    <3>4. CASE UNCHANGED backend
      BY <3>3, <3>4
    <3>5. CASE backend' = [backend EXCEPT ![identifier[w.cache]][w.key] = t]
      BY <3>2, <3>3, <3>5
    <3> QED BY <3>1, <3>4, <3>5 DEF WriteBackend
  <2> QED BY <1>1, <1>2, <1>a, <2>1, <2>2 DEF TLSTypeOK
<1>4. ASSUME NEW c \in Caches, NEW i \in Identifiers, SetSessionIdentifier(c, i) PROVE TLSTypeOK'
  BY <1>1, <1>2, <1>a, <1>4 DEF SetSessionIdentifier, MoveTicket, TLSTypeOK, TLSCacheConstants
<1>5. ASSUME NEW t \in Ticket, Age(t) PROVE TLSTypeOK'
  BY <1>1, <1>2, <1>a, <1>5 DEF Age, TLSTypeOK
<1>6. ASSUME UNCHANGED tlsVars PROVE TLSTypeOK'
  BY <1>1, <1>2, <1>a, <1>6 DEF tlsVars, TLSTypeOK
<1> QED BY <1>2, <1>3, <1>4, <1>5, <1>6 DEF TLSInv

\* Every reachable state of the caches is well typed, and the order of each lists
\* the keys of the tickets it holds, once each, within the limit: eviction finds
\* the ticket used longest ago (tls_cache.go:244-445, 500-572).
THEOREM TicketOrderTheorem == TLSSpec => [](TLSTypeOK /\ OrderMatchesCache)
<1>1. TLSInit => TLSInv
  <2> SUFFICES ASSUME TLSInit PROVE TLSInv
    OBVIOUS
  <2>1. (CHOOSE i \in Identifiers : TRUE) \in Identifiers
    BY TLSCacheConstants DEF TLSCacheConstants
  <2>2. Ticket = {}
    BY DEF TLSInit, Ticket
  <2>3. TLSTypeOK
    BY <2>1, <2>2, TLSCacheConstants DEF TLSInit, TLSTypeOK, TLSCacheConstants
  <2>4. ASSUME NEW c \in Caches
        PROVE  accessOrder[c] = <<>> /\ Held(tickets[c]) = {}
    BY DEF TLSInit, Held
  <2>5. ToSet(<<>>) = {} /\ IsInjective(<<>>) /\ Len(<<>>) = 0 /\ CacheMaxSize \in Nat
    BY TLSCacheConstants DEF ToSet, IsInjective, TLSCacheConstants
  <2>6. 0 <= CacheMaxSize + 1
    BY <2>5
  <2> QED BY <2>3, <2>4, <2>5, <2>6 DEF TLSInv, OrderMatchesCache
<1>2. TLSInv /\ [TLSNext]_tlsVars => TLSInv'
  <2> SUFFICES ASSUME TLSInv, [TLSNext]_tlsVars PROVE TLSInv'
    OBVIOUS
  <2>1. TLSNext \/ UNCHANGED tlsVars
    OBVIOUS
  <2> QED BY <2>1, TLSCacheConstants, PutTicketStep, LocalStep, BackendStep DEF TLSNext
<1> QED BY <1>1, <1>2, PTL DEF TLSSpec, TLSInv
-----------------------------------------------------------------------------
(* The speculative connection.                                             *)

\* The bytes from position i on.
LEMMA FromPart ==
  ASSUME NEW S, NEW s \in Seq(S), NEW k \in 0..Len(s)
  PROVE  /\ From(s, k + 1) \in Seq(S) /\ Len(From(s, k + 1)) = Len(s) - k
         /\ DOMAIN From(s, k + 1) = 1..(Len(s) - k)
         /\ \A i \in 1..(Len(s) - k) : From(s, k + 1)[i] = s[k + i]
<1> DEFINE l == Len(s)  t == SubSeq(s, k + 1, l)
<1>1. l \in Nat /\ k \in 0..l
  OBVIOUS
<1>2. k + 1 \in Int /\ l \in Int /\ \A i \in (k + 1)..l : s[i] \in S
  BY <1>1
<1>3. /\ t \in Seq(S) /\ Len(t) = IF k + 1 <= l THEN l - (k + 1) + 1 ELSE 0
      /\ \A i \in 1..(l - (k + 1) + 1) : t[i] = s[(k + 1) + i - 1]
  BY <1>2, SubSeqProperties
<1> HIDE DEF t
<1>4. l - (k + 1) + 1 = l - k /\ (k + 1 <= l \/ l - k = 0)
  <2> HIDE DEF l
  <2> QED BY <1>1
<1>5. \A i \in 1..(l - k) : (k + 1) + i - 1 = k + i
  BY <1>1
<1>6. DOMAIN t = 1..Len(t)
  BY <1>3
<1> HIDE DEF l
<1>7. /\ t \in Seq(S) /\ Len(t) = l - k /\ DOMAIN t = 1..(l - k)
      /\ \A i \in 1..(l - k) : t[i] = s[k + i]
  BY SMTT(40), <1>3, <1>4, <1>5, <1>6
<1> QED BY <1>7 DEF From, t, l

\* The first n bytes.
LEMMA FirstPart ==
  ASSUME NEW S, NEW s \in Seq(S), NEW k \in 0..Len(s)
  PROVE  /\ SubSeq(s, 1, k) \in Seq(S) /\ Len(SubSeq(s, 1, k)) = k
         /\ SubSeq(s, 1, k) \o From(s, k + 1) = s
<1>1. SubSeq(s, 1, k) \in Seq(S) /\ Len(SubSeq(s, 1, k)) = k
  OBVIOUS
<1>2. /\ 1 \in 1..(Len(s) + 1) /\ k \in (1 - 1)..Len(s) /\ Len(s) \in k..Len(s)
  OBVIOUS
<1>3. SubSeq(s, 1, k) \o SubSeq(s, k + 1, Len(s)) = SubSeq(s, 1, Len(s))
  BY <1>2, ConcatAdjacentSubSeq
<1>4. SubSeq(s, 1, Len(s)) = s
  BY SubSeqFull
<1> QED BY <1>1, <1>3, <1>4 DEF From

\* What a buffer takes and what it leaves are the whole.
LEMMA AtMostPart ==
  ASSUME NEW S, NEW s \in Seq(S), NEW room \in Nat
  PROVE  /\ AtMost(s, room) \in Seq(S) /\ From(s, room + 1) \in Seq(S)
         /\ AtMost(s, room) \o From(s, room + 1) = s
<1>1. Len(s) \in Nat
  OBVIOUS
<1>2. CASE room < Len(s)
  <2>1. room \in 0..Len(s) /\ AtMost(s, room) = SubSeq(s, 1, room)
    BY <1>1, <1>2 DEF AtMost
  <2> QED BY ZenonT(60), <2>1, FirstPart, FromPart
<1>3. CASE ~(room < Len(s))
  <2>1. AtMost(s, room) = SubSeq(s, 1, Len(s))
    BY <1>3 DEF AtMost
  <2>2. SubSeq(s, 1, Len(s)) = s
    BY SubSeqFull
  <2>3. room + 1 \in Int /\ Len(s) \in Int /\ Len(s) < room + 1
    BY <1>1, <1>3
  <2>4. From(s, room + 1) = <<>>
    BY <2>3, SubSeqEmpty DEF From
  <2>5. s \o <<>> = s /\ <<>> \in Seq(S)
    OBVIOUS
  <2> QED BY <2>1, <2>2, <2>4, <2>5
<1> QED BY <1>2, <1>3

\* The bytes from position i on of a concatenation, when i is in its first part.
LEMMA FromConcat ==
  ASSUME NEW S, NEW a \in Seq(S), NEW b \in Seq(S), NEW k \in 0..Len(a)
  PROVE  From(a, k + 1) \o b = From(a \o b, k + 1)
<1> DEFINE n == Len(a)  m == Len(b)  t == From(a, k + 1)  ab == a \o b  u == From(ab, k + 1)
           tb == t \o b
<1>1. n \in Nat /\ m \in Nat /\ k \in 0..n
  OBVIOUS
<1>2. /\ ab \in Seq(S) /\ Len(ab) = n + m
      /\ \A i \in 1..(n + m) : ab[i] = IF i <= n THEN a[i] ELSE b[i - n]
  BY ConcatProperties
<1>3. t \in Seq(S) /\ Len(t) = n - k /\ \A i \in 1..(n - k) : t[i] = a[k + i]
  BY FromPart
<1> HIDE DEF t, ab
<1>4. k \in 0..Len(ab)
  BY <1>1, <1>2
<1>5. /\ u \in Seq(S) /\ Len(u) = n + m - k /\ DOMAIN u = 1..(n + m - k)
      /\ \A i \in 1..(n + m - k) : u[i] = ab[k + i]
  <2>1. /\ u \in Seq(S) /\ Len(u) = Len(ab) - k /\ DOMAIN u = 1..(Len(ab) - k)
        /\ \A i \in 1..(Len(ab) - k) : u[i] = ab[k + i]
    BY ZenonT(60), <1>2, <1>4, FromPart
  <2> HIDE DEF u
  <2> QED BY <1>2, <2>1
<1>6. /\ tb \in Seq(S) /\ Len(tb) = Len(t) + m
      /\ \A i \in 1..(Len(t) + m) : tb[i] = IF i <= Len(t) THEN t[i] ELSE b[i - Len(t)]
  BY <1>3, ConcatProperties
<1> HIDE DEF tb, u, n, m
<1>7. Len(tb) = n + m - k /\ DOMAIN tb = 1..(n + m - k) /\ Len(t) + m = n + m - k
  BY <1>1, <1>3, <1>6
<1>8. ASSUME NEW i \in 1..(n + m - k) PROVE tb[i] = u[i]
  <2>1. k + i \in 1..(n + m) /\ (i <= n - k <=> k + i <= n)
    BY <1>1
  <2>2. CASE i <= n - k
    BY SMTT(40), <1>2, <1>3, <1>5, <1>6, <1>7, <2>1, <2>2
  <2>3. CASE ~(i <= n - k)
    <3>1. i - (n - k) = (k + i) - n
      BY <1>1
    <3>2. tb[i] = b[i - (n - k)]
      BY <1>3, <1>6, <1>7, <2>3
    <3>3. u[i] = b[(k + i) - n]
      BY <1>2, <1>5, <2>1, <2>3
    <3> QED BY <3>1, <3>2, <3>3
  <2> QED BY <2>2, <2>3
<1>9. tb = u
  BY SMTT(40), <1>5, <1>6, <1>7, <1>8
<1> QED BY <1>9 DEF tb, u, t, ab

\* A part of a whole is its prefix.
LEMMA PrefixOfConcat ==
  ASSUME NEW S, NEW a \in Seq(S), NEW b \in Seq(S)
  PROVE  IsPrefix(a, a \o b)
<1>1. Len(a \o b) = Len(a) + Len(b) /\ Len(a) \in Nat /\ Len(b) \in Nat /\ a \o b \in Seq(S)
  BY ConcatProperties
<1>2. SubSeq(a, 1, Len(a)) = a
  BY SubSeqFull
<1>3. SubSeq(a \o b, 1, Len(a)) = a
  <2>1. CASE Len(a) = 0
    BY <2>1, <1>1
  <2>2. CASE Len(a) # 0
    <3>1. 1 \in 1..Len(a) /\ Len(a) \in 1..Len(a)
      BY <1>1, <2>2
    <3> QED BY <3>1, <1>2, SubSeqOfConcat1
  <2> QED BY <2>1, <2>2
<1> QED BY <1>1, <1>2, <1>3 DEF IsPrefix

\* What a proxy sends that has read CONNECT and ClientHello as one.
WholeAnswer(mood) == ProxyAnswer(mood, TRUE)

\* The proxy's answer and the server's bytes behind it.
LEMMA AnswerShape ==
  ASSUME SpeculativeConstants
  PROVE  /\ ServerStream \in Seq(Units) /\ HeaderPart \in Seq(Units) /\ Terminator \in Seq(Units)
         /\ \A mood \in ProxyMoods : WholeAnswer(mood) \in Seq(Units)
         /\ \A i \in DOMAIN WholeAnswer("flood") : WholeAnswer("flood")[i] # BlankLine
         /\ Len(WholeAnswer("tunnel")) = HeaderUnits + 1 + ServerUnits
         /\ WholeAnswer("tunnel")[HeaderUnits + 1] = BlankLine
         /\ \A i \in 1..HeaderUnits : WholeAnswer("tunnel")[i] # BlankLine
         /\ WholeAnswer("tunnel") = (HeaderPart \o Terminator) \o ServerStream
         /\ Len(HeaderPart \o Terminator) = HeaderUnits + 1
<1>1. /\ HeaderUnits \in Nat /\ HeaderLimit \in Nat /\ ServerUnits \in Nat /\ ServerUnits > 0
      /\ BlankLine = ServerUnits + 1 /\ BlankLine \in Units /\ HeaderUnit \in Units
      /\ HeaderUnit # BlankLine
  BY DEF SpeculativeConstants, BlankLine, Units, HeaderUnit
<1>2. /\ HeaderPart \in Seq(Units) /\ Len(HeaderPart) = HeaderUnits
      /\ \A i \in 1..HeaderUnits : HeaderPart[i] = HeaderUnit
  BY <1>1 DEF HeaderPart
<1>3. ServerStream \in Seq(Units) /\ Len(ServerStream) = ServerUnits
  BY <1>1 DEF ServerStream, Units
<1>4. Terminator \in Seq(Units) /\ Len(Terminator) = 1 /\ Terminator[1] = BlankLine
  BY <1>1 DEF Terminator
<1> DEFINE flood == [i \in 1..(HeaderLimit + 1) |-> HeaderUnit]  head == HeaderPart \o Terminator
           all == head \o ServerStream
<1>5. flood \in Seq(Units) /\ \A i \in DOMAIN flood : flood[i] = HeaderUnit
  BY <1>1
<1>6. /\ head \in Seq(Units) /\ Len(head) = HeaderUnits + 1
      /\ \A i \in 1..(HeaderUnits + 1) :
            head[i] = IF i <= HeaderUnits THEN HeaderPart[i] ELSE Terminator[i - HeaderUnits]
  BY <1>2, <1>4, ConcatProperties
<1> HIDE DEF head
<1>7. /\ all \in Seq(Units) /\ Len(all) = HeaderUnits + 1 + ServerUnits
      /\ \A i \in 1..(HeaderUnits + 1 + ServerUnits) :
            all[i] = IF i <= HeaderUnits + 1 THEN head[i] ELSE ServerStream[i - (HeaderUnits + 1)]
  <2>1. /\ all \in Seq(Units) /\ Len(all) = Len(head) + Len(ServerStream)
        /\ \A i \in 1..(Len(head) + Len(ServerStream)) :
              all[i] = IF i <= Len(head) THEN head[i] ELSE ServerStream[i - Len(head)]
    BY <1>3, <1>6, ConcatProperties
  <2> HIDE DEF all
  <2> QED BY <1>3, <1>6, <2>1
<1> HIDE DEF all
<1>8. HeaderUnits + 1 \in 1..(HeaderUnits + 1) /\ (HeaderUnits + 1) - HeaderUnits = 1
      /\ HeaderUnits + 1 \in 1..(HeaderUnits + 1 + ServerUnits) /\ ~(HeaderUnits + 1 <= HeaderUnits)
  BY <1>1
<1>9. all[HeaderUnits + 1] = BlankLine
  BY <1>1, <1>4, <1>6, <1>7, <1>8
<1>10. ASSUME NEW i \in 1..HeaderUnits PROVE all[i] # BlankLine
  <2>1. i \in 1..(HeaderUnits + 1) /\ i <= HeaderUnits + 1 /\ i <= HeaderUnits
        /\ i \in 1..(HeaderUnits + 1 + ServerUnits)
    BY <1>1
  <2> QED BY <1>1, <1>2, <1>6, <1>7, <2>1
<1>11. /\ WholeAnswer("drop") = <<>> /\ WholeAnswer("flood") = flood
       /\ WholeAnswer("refuse") = head /\ WholeAnswer("tunnel") = all
  BY DEF WholeAnswer, ProxyAnswer, head, all
<1>12. <<>> \in Seq(Units)
  OBVIOUS
<1> HIDE DEF flood
<1>13. \A mood \in ProxyMoods : WholeAnswer(mood) \in Seq(Units)
  BY <1>5, <1>6, <1>7, <1>11, <1>12 DEF ProxyMoods
<1> QED BY <1>1, <1>2, <1>3, <1>4, <1>5, <1>6, <1>7, <1>9, <1>10, <1>11, <1>13 DEF all, head

\* Nothing of the proxy's or the server's bytes has come to the wrapper.
NothingCame(r) == r.read = <<>> /\ r.readBuffer = <<>> /\ r.headerBuffer = <<>> /\ r.wire = <<>>

\* A dial, by where it stands: until the blank line is seen the wrapper and the wire
\* hold the whole answer of the proxy; after it the TLS stack, the wrapper and the
\* wire hold the server's bytes.
DialInv(r) ==
    /\ r.pc = "connect" => NothingCame(r) /\ ~r.speculative
    /\ r.pc = "hello" => /\ NothingCame(r)
                         /\ r.speculative => ~r.httpResponseDone
                         /\ ~r.speculative => r.httpResponseDone /\ r.sent = <<"CONNECT">>
    /\ r.pc = "answer" /\ ~r.httpResponseDone =>
          /\ r.read = <<>> /\ r.readBuffer = <<>> /\ r.speculative
          /\ r.headerBuffer \o r.wire = WholeAnswer(r.mood)
    /\ r.pc \in {"answer", "up"} /\ r.httpResponseDone =>
          r.read \o r.readBuffer \o r.wire = ServerStream
    /\ IsPrefix(r.read, ServerStream)
    /\ r.sent \in {<<>>, <<"CONNECT">>, <<"CONNECT", "hello">>}

\* The inductive invariant.
SpeculativeInv ==
    SpeculativeTypeOK /\ \A d \in Dialers : DialInv(dial[d])

\* An empty read is a prefix of anything.
LEMMA EmptyPrefix ==
  ASSUME SpeculativeConstants
  PROVE  IsPrefix(<<>>, ServerStream)
<1>1. ServerStream \in Seq(Units) /\ <<>> \in Seq(Units)
  BY AnswerShape
<1>2. <<>> \o ServerStream = ServerStream
  BY <1>1
<1> QED BY <1>1, <1>2, PrefixOfConcat

\* The wrapper finds the end of the proxy's answer where it is, and hands on what
\* is behind it.
LEMMA BlankLineFound ==
  ASSUME SpeculativeConstants, NEW mood \in ProxyMoods, NEW data \in Seq(Units),
         NEW rest \in Seq(Units), data \o rest = WholeAnswer(mood), mood # "refuse",
         HeaderEnd(data) # 0
  PROVE  /\ From(data, HeaderEnd(data) + 1) \in Seq(Units)
         /\ From(data, HeaderEnd(data) + 1) \o rest = ServerStream
<1> DEFINE A == WholeAnswer(mood)  n == Len(data)  end == HeaderEnd(data)
           I == {i \in 1..n : data[i] = BlankLine}  head == HeaderPart \o Terminator
<1>1. n \in Nat /\ Len(rest) \in Nat /\ HeaderUnits \in Nat /\ ServerUnits \in Nat
  BY DEF SpeculativeConstants
<1>2. A \in Seq(Units) /\ Len(A) = n + Len(rest) /\ \A i \in 1..n : A[i] = data[i]
  <2>1. /\ data \o rest \in Seq(Units) /\ Len(data \o rest) = n + Len(rest)
        /\ \A i \in 1..(n + Len(rest)) :
              (data \o rest)[i] = IF i <= n THEN data[i] ELSE rest[i - n]
    BY ConcatProperties
  <2>2. \A i \in 1..n : i \in 1..(n + Len(rest)) /\ i <= n
    BY <1>1
  <2> QED BY <2>1, <2>2
<1>3. I \in SUBSET Nat
  BY <1>1
<1>4. end = IF I # {} THEN Min(I) ELSE 0
  BY DEF HeaderEnd, SelectInSeq
<1>5. end \in I /\ \A i \in I : end <= i
  BY <1>3, <1>4, LeastNatural
<1>6. end \in 1..n /\ A[end] = BlankLine
  BY <1>2, <1>5
<1>7. end \in DOMAIN A
  <2>1. DOMAIN A = 1..Len(A)
    BY <1>2
  <2> QED BY <1>1, <1>2, <1>6, <2>1
<1>8. mood = "tunnel"
  <2>1. mood # "drop"
    <3>1. WholeAnswer("drop") = <<>>
      BY DEF WholeAnswer, ProxyAnswer
    <3> QED BY <1>7, <3>1
  <2>2. mood # "flood"
    BY <1>6, <1>7, AnswerShape
  <2> QED BY <2>1, <2>2 DEF ProxyMoods
<1>9. /\ A[HeaderUnits + 1] = BlankLine /\ \A i \in 1..HeaderUnits : A[i] # BlankLine
      /\ A = head \o ServerStream /\ Len(head) = HeaderUnits + 1
  BY <1>8, AnswerShape
<1> HIDE DEF end, A, I
<1>10. end = HeaderUnits + 1
  <2>1. end \notin 1..HeaderUnits
    BY <1>6, <1>9
  <2>2. HeaderUnits + 1 <= end /\ HeaderUnits + 1 \in 1..n
    BY <1>1, <1>6, <2>1
  <2>3. HeaderUnits + 1 \in I
    BY <1>2, <1>9, <2>2 DEF I
  <2>4. end <= HeaderUnits + 1
    BY <1>5, <2>3
  <2> QED BY <1>1, <1>6, <2>2, <2>4
<1>11. end \in 0..Len(data)
  BY <1>1, <1>6
<1>12. From(data, end + 1) \in Seq(Units)
          /\ From(data, end + 1) \o rest = From(data \o rest, end + 1)
  BY <1>11, FromConcat, FromPart
<1>13. From(head \o ServerStream, end + 1) = ServerStream
  <2>1. HeaderPart \in Seq(Units) /\ Terminator \in Seq(Units) /\ ServerStream \in Seq(Units)
    BY AnswerShape
  <2>2. head \in Seq(Units)
    BY <2>1, ConcatProperties
  <2>3. end = Len(head) /\ Len(head) \in 0..Len(head)
    BY <1>1, <1>9, <1>10
  <2> HIDE DEF head
  <2>4. From(head, end + 1) \o ServerStream = From(head \o ServerStream, end + 1)
    BY <2>1, <2>2, <2>3, FromConcat
  <2>5. From(head, end + 1) = <<>>
    <3>1. Len(head) \in Int /\ Len(head) + 1 \in Int /\ Len(head) < Len(head) + 1
      BY <2>2
    <3> QED BY <2>3, <3>1, SubSeqEmpty DEF From
  <2>6. <<>> \o ServerStream = ServerStream
    BY <2>1
  <2> QED BY <2>4, <2>5, <2>6
<1> QED BY <1>9, <1>12, <1>13 DEF end, A

\* Pieces of the stream may be put together in any order.
LEMMA PiecesJoin ==
  ASSUME NEW a \in Seq(Units), NEW b \in Seq(Units), NEW c \in Seq(Units)
  PROVE  (a \o b) \o c = a \o (b \o c)
BY ConcatAssociative

\* Three parts of a whole, cut again.
LEMMA PartsOfStream ==
  ASSUME SpeculativeConstants, NEW a \in Seq(Units), NEW b \in Seq(Units), NEW c \in Seq(Units),
         (a \o b) \o c = ServerStream
  PROVE  IsPrefix(a, ServerStream)
<1>1. a \o (b \o c) = ServerStream
  BY PiecesJoin
<1>2. b \o c \in Seq(Units)
  BY ConcatProperties
<1> QED BY <1>1, <1>2, PrefixOfConcat

\* readAndStripHTTPResponse keeps the dial right, however much has come.
LEMMA StripStep ==
  ASSUME SpeculativeConstants, NEW d \in Dialers, dial[d] \in Dials, DialInv(dial[d]),
         dial[d].pc = "answer", dial[d].speculative, ~dial[d].httpResponseDone,
         NEW n \in 1..Len(dial[d].wire), NEW room \in 1..ServerUnits
  PROVE  StripResponse(d, n, room) \in Dials /\ DialInv(StripResponse(d, n, room))
<1> DEFINE r == dial[d]  first == SubSeq(r.wire, 1, n)  rest == From(r.wire, n + 1)
           data == r.headerBuffer \o first  end == HeaderEnd(data)
           tlsData == From(data, end + 1)
           new == StripResponse(d, n, room)
<1>1. /\ r.wire \in Seq(Units) /\ r.headerBuffer \in Seq(Units) /\ r.mood \in ProxyMoods
      /\ r.read = <<>> /\ r.readBuffer = <<>>
      /\ r.headerBuffer \o r.wire = WholeAnswer(r.mood)
      /\ room \in Nat /\ n \in 0..Len(r.wire)
  <2>1. /\ r.read = <<>> /\ r.readBuffer = <<>>
        /\ r.headerBuffer \o r.wire = WholeAnswer(r.mood)
    BY Zenon DEF DialInv
  <2>2. r.wire \in Seq(Units) /\ r.headerBuffer \in Seq(Units) /\ r.mood \in ProxyMoods
    BY DEF Dials
  <2>3. room \in Nat /\ n \in 0..Len(r.wire)
    BY <2>2 DEF SpeculativeConstants
  <2> QED BY <2>1, <2>2, <2>3
<1>2. first \in Seq(Units) /\ rest \in Seq(Units) /\ first \o rest = r.wire
  BY <1>1, FirstPart, FromPart
<1> HIDE DEF first, rest
<1>3. data \in Seq(Units) /\ data \o rest = WholeAnswer(r.mood)
  <2>1. data \in Seq(Units)
    BY <1>1, <1>2, ConcatProperties
  <2>2. data \o rest = r.headerBuffer \o (first \o rest)
    BY <1>1, <1>2, PiecesJoin
  <2> QED BY <1>1, <1>2, <2>1, <2>2
<1>4. new = CASE end = 0 /\ Len(data) > HeaderLimit -> [r EXCEPT !.pc = "redial"]
              [] end = 0 /\ Len(data) <= HeaderLimit ->
                    [r EXCEPT !.headerBuffer = data, !.wire = rest]
              [] end # 0 /\ r.mood = "refuse" -> [r EXCEPT !.pc = "redial"]
              [] end # 0 /\ r.mood # "refuse" ->
                    [r EXCEPT !.httpResponseDone = TRUE, !.headerBuffer = <<>>, !.wire = rest,
                              !.read = @ \o AtMost(tlsData, room),
                              !.readBuffer = Leftover(tlsData, room)]
  BY DEF StripResponse, first, rest
<1>5. Len(data) \in Nat /\ HeaderLimit \in Nat
  BY <1>3 DEF SpeculativeConstants
<1> HIDE DEF data, end, new
<1>6. CASE new = [r EXCEPT !.pc = "redial"]
  <2>1. new \in Dials
    BY <1>6 DEF Dials, Places
  <2>2. new.pc = "redial" /\ new.read = r.read /\ new.sent = r.sent
    BY <1>6 DEF Dials
  <2>3. IsPrefix(r.read, ServerStream) /\ r.sent \in {<<>>, <<"CONNECT">>, <<"CONNECT", "hello">>}
    BY Zenon DEF DialInv
  <2>4. DialInv(new)
    BY <2>2, <2>3 DEF DialInv
  <2> QED BY <2>1, <2>4 DEF new
<1>7. CASE end = 0 /\ new = [r EXCEPT !.headerBuffer = data, !.wire = rest]
  <2>1. new \in Dials
    BY <1>2, <1>3, <1>7 DEF Dials
  <2>2. /\ new.pc = r.pc /\ new.read = r.read /\ new.sent = r.sent /\ new.readBuffer = r.readBuffer
        /\ new.speculative = r.speculative /\ new.httpResponseDone = r.httpResponseDone
        /\ new.headerBuffer = data /\ new.wire = rest /\ new.mood = r.mood
    BY <1>7 DEF Dials
  <2>3. IsPrefix(r.read, ServerStream) /\ r.sent \in {<<>>, <<"CONNECT">>, <<"CONNECT", "hello">>}
    BY Zenon DEF DialInv
  <2>4. DialInv(new)
    BY <1>1, <1>3, <2>2, <2>3 DEF DialInv
  <2> QED BY <2>1, <2>4 DEF new
<1>8. CASE /\ end # 0 /\ r.mood # "refuse"
           /\ new = [r EXCEPT !.httpResponseDone = TRUE, !.headerBuffer = <<>>, !.wire = rest,
                              !.read = @ \o AtMost(tlsData, room),
                              !.readBuffer = Leftover(tlsData, room)]
  <2> DEFINE got == AtMost(tlsData, room)  left == Leftover(tlsData, room)
  <2>1. tlsData \in Seq(Units) /\ tlsData \o rest = ServerStream
    BY <1>1, <1>2, <1>3, <1>8, BlankLineFound DEF end
  <2> HIDE DEF tlsData
  <2>2. got \in Seq(Units) /\ left \in Seq(Units) /\ got \o left = tlsData
    BY <1>1, <2>1, AtMostPart DEF Leftover
  <2> HIDE DEF got, left
  <2>3. <<>> \o got = got
    BY <2>2
  <2>4. /\ new.read = got /\ new.readBuffer = left /\ new.wire = rest /\ new.headerBuffer = <<>>
        /\ new.pc = "answer" /\ new.httpResponseDone /\ new.sent = r.sent
    BY <1>1, <1>8, <2>3 DEF got, left, Dials
  <2>5. new \in Dials
    BY <1>1, <1>2, <1>8, <2>2, <2>3 DEF Dials, got, left
  <2>6. (got \o left) \o rest = ServerStream /\ IsPrefix(got, ServerStream)
    BY <1>2, <2>1, <2>2, PartsOfStream
  <2>7. r.sent \in {<<>>, <<"CONNECT">>, <<"CONNECT", "hello">>}
    BY DEF DialInv
  <2>8. DialInv(new)
    BY <2>4, <2>6, <2>7 DEF DialInv
  <2> QED BY <2>5, <2>8 DEF new
<1> QED
  <2>1. \/ new = [r EXCEPT !.pc = "redial"]
        \/ end = 0 /\ new = [r EXCEPT !.headerBuffer = data, !.wire = rest]
        \/ /\ end # 0 /\ r.mood # "refuse"
           /\ new = [r EXCEPT !.httpResponseDone = TRUE, !.headerBuffer = <<>>, !.wire = rest,
                              !.read = @ \o AtMost(tlsData, room),
                              !.readBuffer = Leftover(tlsData, room)]
    BY <1>4, <1>5
  <2> QED BY <1>6, <1>7, <1>8, <2>1
\* A dial that has failed, or is not in the tunnel, needs a read that is a prefix.
LEMMA AsideInv ==
  ASSUME NEW r, r.pc \notin {"connect", "hello", "answer", "up"}, IsPrefix(r.read, ServerStream),
         r.sent \in {<<>>, <<"CONNECT">>, <<"CONNECT", "hello">>}
  PROVE  DialInv(r)
BY DEF DialInv

\* What DialInv says wherever the dial stands.
LEMMA AlwaysInv ==
  ASSUME NEW r, DialInv(r)
  PROVE  /\ IsPrefix(r.read, ServerStream)
         /\ r.sent \in {<<>>, <<"CONNECT">>, <<"CONNECT", "hello">>}
BY Zenon DEF DialInv

\* The fields of an idle dial.
LEMMA NoDialInv ==
  ASSUME SpeculativeConstants, NEW mood \in ProxyMoods, NEW b \in BOOLEAN
  PROVE  /\ NoDial \in Dials /\ DialInv(NoDial)
         /\ [NoDial EXCEPT !.mood = mood, !.speculative = ~b,
                            !.pc = IF b THEN "connect" ELSE "hello"] \in Dials
         /\ [NoDial EXCEPT !.mood = mood, !.pc = "connect"] \in Dials
         /\ DialInv([NoDial EXCEPT !.mood = mood, !.pc = "connect"])
         /\ ~b => DialInv([NoDial EXCEPT !.mood = mood, !.speculative = ~b,
                                        !.pc = IF b THEN "connect" ELSE "hello"])
         /\ b => DialInv([NoDial EXCEPT !.mood = mood, !.speculative = ~b,
                                        !.pc = IF b THEN "connect" ELSE "hello"])
<1>1. IsPrefix(<<>>, ServerStream)
  BY EmptyPrefix
<1>2. NoDial \in Dials /\ DialInv(NoDial)
  <2>1. <<>> \in Seq(Units) /\ <<>> \in Seq({"CONNECT", "hello"})
    OBVIOUS
  <2> QED BY <1>1, <2>1 DEF NoDial, Dials, Places, ProxyMoods, DialInv
<1> DEFINE plain == [NoDial EXCEPT !.mood = mood, !.pc = "connect"]
           eager == [NoDial EXCEPT !.mood = mood, !.speculative = TRUE, !.pc = "hello"]
           wary == [NoDial EXCEPT !.mood = mood, !.speculative = FALSE, !.pc = "connect"]
<1>3. plain \in Dials /\ eager \in Dials /\ wary \in Dials
  BY <1>2 DEF Dials, Places
<1>4. DialInv(plain) /\ DialInv(eager) /\ DialInv(wary)
  BY <1>1 DEF NoDial, DialInv, NothingCame
<1> QED BY <1>2, <1>3, <1>4

\* A step that gives one dial a record that is right keeps the invariant.
LEMMA DialReplaced ==
  ASSUME SpeculativeInv, NEW d \in Dialers, NEW new, SetDial(d, new), blocklist' \in BOOLEAN,
         new \in Dials, DialInv(new)
  PROVE  SpeculativeInv'
<1>1. dial' = [dial EXCEPT ![d] = new] /\ dial \in [Dialers -> Dials]
  BY DEF SetDial, SpeculativeInv, SpeculativeTypeOK
<1>2. dial' \in [Dialers -> Dials]
  BY <1>1
<1>3. ASSUME NEW e \in Dialers PROVE DialInv(dial'[e])
  <2>1. CASE e = d
    BY <1>1, <2>1
  <2>2. CASE e # d
    <3>1. dial'[e] = dial[e]
      BY <1>1, <2>2
    <3> QED BY <3>1 DEF SpeculativeInv
  <2> QED BY <2>1, <2>2
<1> QED BY <1>2, <1>3 DEF SpeculativeInv, SpeculativeTypeOK

\* ClientHello is sent behind CONNECT.
LEMMA HelloAppended == Append(<<"CONNECT">>, "hello") = <<"CONNECT", "hello">>
<1> DEFINE S == {"CONNECT", "hello"}  one == <<"CONNECT">>  two == <<"CONNECT", "hello">>
           a == Append(one, "hello")
<1>1. /\ one \in Seq(S) /\ Len(one) = 1 /\ one[1] = "CONNECT"
      /\ two \in Seq(S) /\ Len(two) = 2 /\ two[1] = "CONNECT" /\ two[2] = "hello"
      /\ "hello" \in S
  OBVIOUS
<1> HIDE DEF S, one, two
<1>2. /\ a \in Seq(S) /\ Len(a) = 2 /\ a[1] = "CONNECT" /\ a[2] = "hello"
  <2>1. /\ a \in Seq(S) /\ Len(a) = Len(one) + 1
        /\ \A i \in 1..Len(one) : a[i] = one[i]
        /\ a[Len(one) + 1] = "hello"
    BY SMTT(40), <1>1, AppendProperties
  <2> HIDE DEF a
  <2> QED BY <1>1, <2>1
<1> HIDE DEF a
<1>3. \A i \in 1..Len(a) : a[i] = two[i]
  BY <1>1, <1>2
<1>4. a = two
  BY <1>1, <1>2, <1>3, SeqEqual
<1> QED BY <1>4 DEF a, one, two

\* The steps before the answer keep the invariant.
LEMMA DialStep ==
  ASSUME SpeculativeConstants, SpeculativeInv, NEW d \in Dialers,
         \/ \E mood \in ProxyMoods : DialProxy(d, mood)
         \/ WriteHello(d) \/ WriteFails(d) \/ BlockingConnect(d) \/ Fallback(d)
  PROVE  SpeculativeInv'
<1> DEFINE r == dial[d]
<1>a. r \in Dials /\ DialInv(r) /\ blocklist \in BOOLEAN
  BY DEF SpeculativeInv, SpeculativeTypeOK
<1>b. IsPrefix(r.read, ServerStream) /\ r.sent \in {<<>>, <<"CONNECT">>, <<"CONNECT", "hello">>}
  BY <1>a, AlwaysInv
<1>1. ASSUME NEW mood \in ProxyMoods, DialProxy(d, mood) PROVE SpeculativeInv'
  <2> DEFINE new == [NoDial EXCEPT !.mood = mood, !.speculative = ~blocklist,
                                   !.pc = IF blocklist THEN "connect" ELSE "hello"]
  <2>1. SetDial(d, new) /\ blocklist' = blocklist
    BY <1>1 DEF DialProxy
  <2>2. new \in Dials /\ DialInv(new)
    BY <1>a, NoDialInv
  <2> HIDE DEF new
  <2> QED BY <1>a, <2>1, <2>2, DialReplaced
<1>2. ASSUME WriteHello(d) PROVE SpeculativeInv'
  <2>a. r.pc = "hello" /\ blocklist' = blocklist
    BY <1>2 DEF WriteHello
  <2>b. NothingCame(r)
    BY <1>a, <2>a, Zenon DEF DialInv
  <2>1. CASE r.speculative
    <3> DEFINE new == [r EXCEPT !.firstWrite = TRUE, !.pc = "answer",
                                !.sent = <<"CONNECT", "hello">>, !.wire = WholeAnswer(r.mood)]
    <3>1. SetDial(d, new)
      BY <1>2, <2>1 DEF WriteHello, WholeAnswer
    <3>2. ~r.httpResponseDone
      BY <1>a, <2>a, <2>1, Zenon DEF DialInv
    <3>3. WholeAnswer(r.mood) \in Seq(Units) /\ <<"CONNECT", "hello">> \in Seq({"CONNECT", "hello"})
      BY <1>a, AnswerShape DEF Dials
    <3>4. new \in Dials
      BY <1>a, <3>3 DEF Dials, Places
    <3>5. /\ new.pc = "answer" /\ new.wire = WholeAnswer(r.mood) /\ new.mood = r.mood
          /\ new.read = r.read /\ new.readBuffer = r.readBuffer
          /\ new.headerBuffer = r.headerBuffer /\ new.sent = <<"CONNECT", "hello">>
      BY <1>a DEF Dials
    <3>6. new.speculative /\ ~new.httpResponseDone
      BY <1>a, <2>1, <3>2 DEF Dials
    <3> HIDE DEF new
    <3>7. <<>> \o WholeAnswer(r.mood) = WholeAnswer(r.mood)
      BY <3>3
    <3>8. DialInv(new)
      BY <1>b, <2>b, <3>5, <3>6, <3>7 DEF DialInv, NothingCame
    <3> QED BY <1>a, <2>a, <3>1, <3>4, <3>8, DialReplaced
  <2>2. CASE ~r.speculative
    <3> DEFINE new == [r EXCEPT !.firstWrite = TRUE, !.pc = "answer",
                                !.sent = Append(r.sent, "hello"), !.wire = ServerStream]
    <3>1. SetDial(d, new)
      BY <1>2, <2>2 DEF WriteHello
    <3>2. r.httpResponseDone /\ r.sent = <<"CONNECT">>
      BY <1>a, <2>a, <2>2, Zenon DEF DialInv
    <3>3. ServerStream \in Seq(Units) /\ Append(r.sent, "hello") = <<"CONNECT", "hello">>
          /\ <<"CONNECT", "hello">> \in Seq({"CONNECT", "hello"})
      <4>1. Append(<<"CONNECT">>, "hello") = <<"CONNECT", "hello">>
        BY HelloAppended
      <4>2. <<"CONNECT", "hello">> \in Seq({"CONNECT", "hello"})
        OBVIOUS
      <4>3. ServerStream \in Seq(Units)
        BY AnswerShape
      <4> QED BY <3>2, <4>1, <4>2, <4>3
    <3>4. new \in Dials
      BY <1>a, <3>3 DEF Dials, Places
    <3>5. /\ new.pc = "answer" /\ new.wire = ServerStream
          /\ new.read = r.read /\ new.readBuffer = r.readBuffer /\ new.sent = <<"CONNECT", "hello">>
      BY <1>a, <3>3 DEF Dials
    <3>6. new.httpResponseDone
      BY <1>a, <3>2 DEF Dials
    <3> HIDE DEF new
    <3>7. (<<>> \o <<>>) \o ServerStream = ServerStream
      BY <3>3
    <3>8. DialInv(new)
      BY <1>b, <2>b, <3>5, <3>6, <3>7 DEF DialInv, NothingCame
    <3> QED BY <1>a, <2>a, <3>1, <3>4, <3>8, DialReplaced
  <2> QED BY <2>1, <2>2
<1>3. ASSUME WriteFails(d) PROVE SpeculativeInv'
  <2> DEFINE new == [r EXCEPT !.pc = FailedPc(d)]
  <2>1. SetDial(d, new) /\ blocklist' = blocklist
    BY <1>3 DEF WriteFails
  <2>2. FailedPc(d) \in {"redial", "failed"}
    BY DEF FailedPc
  <2>3. new \in Dials /\ new.pc = FailedPc(d) /\ new.read = r.read /\ new.sent = r.sent
    BY <1>a, <2>2 DEF Dials, Places
  <2> HIDE DEF new
  <2>4. DialInv(new)
    BY <1>b, <2>2, <2>3, AsideInv
  <2> QED BY <1>a, <2>1, <2>3, <2>4, DialReplaced
<1>4. ASSUME BlockingConnect(d) PROVE SpeculativeInv'
  <2> DEFINE place == IF r.mood = "tunnel" THEN "hello" ELSE "failed"
             new == [r EXCEPT !.sent = <<"CONNECT">>, !.httpResponseDone = TRUE, !.pc = place]
  <2>1. SetDial(d, new) /\ blocklist' = blocklist /\ r.pc = "connect"
    BY <1>4 DEF BlockingConnect
  <2>2. place \in {"hello", "failed"} /\ <<"CONNECT">> \in Seq({"CONNECT", "hello"})
    OBVIOUS
  <2>3. NothingCame(r) /\ ~r.speculative
    BY <1>a, <2>1, Zenon DEF DialInv
  <2> HIDE DEF place
  <2>4. new \in Dials
    BY <1>a, <2>2 DEF Dials, Places
  <2>5. /\ new.pc = place /\ new.read = r.read /\ new.sent = <<"CONNECT">> /\ new.wire = r.wire
        /\ new.readBuffer = r.readBuffer /\ new.headerBuffer = r.headerBuffer
    BY <1>a DEF Dials
  <2>6. new.httpResponseDone /\ ~new.speculative
    BY <1>a, <2>3 DEF Dials
  <2> HIDE DEF new
  <2>7. DialInv(new)
    BY <1>b, <2>2, <2>3, <2>5, <2>6 DEF DialInv, NothingCame
  <2> QED BY <1>a, <2>1, <2>4, <2>7, DialReplaced
<1>5. ASSUME Fallback(d) PROVE SpeculativeInv'
  <2>1. PICK mood \in ProxyMoods : SetDial(d, [NoDial EXCEPT !.mood = mood, !.pc = "connect"])
    BY <1>5 DEF Fallback
  <2>2. blocklist' = TRUE
    BY <1>5 DEF Fallback
  <2> DEFINE new == [NoDial EXCEPT !.mood = mood, !.pc = "connect"]
  <2>3. new \in Dials /\ DialInv(new)
    BY NoDialInv
  <2>4. SetDial(d, new)
    BY <2>1
  <2> HIDE DEF new
  <2> QED BY <2>2, <2>3, <2>4, DialReplaced
<1> QED BY <1>1, <1>2, <1>3, <1>4, <1>5

\* The steps that wait for the answer and read it keep the invariant.
LEMMA AnswerStep ==
  ASSUME SpeculativeConstants, SpeculativeInv, NEW d \in Dialers,
         \/ \E n \in 1..(HeaderUnits + ServerUnits + 1), room \in 1..ServerUnits : Read(d, n, room)
         \/ ReadFails(d) \/ HandshakeDone(d)
  PROVE  SpeculativeInv'
<1> DEFINE r == dial[d]
<1>a. r \in Dials /\ DialInv(r) /\ blocklist \in BOOLEAN
  BY DEF SpeculativeInv, SpeculativeTypeOK
<1>b. IsPrefix(r.read, ServerStream) /\ r.sent \in {<<>>, <<"CONNECT">>, <<"CONNECT", "hello">>}
  BY <1>a, AlwaysInv
<1>c. /\ r.read \in Seq(Units) /\ r.readBuffer \in Seq(Units) /\ r.wire \in Seq(Units)
      /\ ServerStream \in Seq(Units) /\ ServerUnits \in Nat
  BY ZenonT(60), <1>a, AnswerShape DEF Dials, SpeculativeConstants
<1>d. r.pc = "answer" /\ blocklist' = blocklist
  BY ZenonT(60) DEF Read, ReadFails, HandshakeDone
<1>1. ASSUME NEW n \in 1..(HeaderUnits + ServerUnits + 1), NEW room \in 1..ServerUnits,
             Read(d, n, room)
      PROVE  SpeculativeInv'
  <2>a. room \in Nat
    BY <1>c
  \* more is read into `read`, and `buffered` and `wire` are left
  <2>b. ASSUME NEW read \in Seq(Units), NEW buffered \in Seq(Units), NEW line \in Seq(Units),
               r.httpResponseDone, (read \o buffered) \o line = ServerStream,
               SetDial(d, [r EXCEPT !.read = read, !.readBuffer = buffered, !.wire = line])
        PROVE  SpeculativeInv'
    <3> DEFINE new == [r EXCEPT !.read = read, !.readBuffer = buffered, !.wire = line]
    <3>1. new \in Dials
      BY <1>a DEF Dials
    <3>2. /\ new.pc = "answer" /\ new.read = read /\ new.readBuffer = buffered
          /\ new.wire = line /\ new.sent = r.sent
      BY <1>a, <1>d DEF Dials
    <3>3. new.httpResponseDone
      BY <1>a, <2>b DEF Dials
    <3>4. SetDial(d, new)
      BY <2>b
    <3> HIDE DEF new
    <3>5. IsPrefix(read, ServerStream)
      BY <2>b, PartsOfStream
    <3>6. DialInv(new)
      BY SMTT(40), <1>b, <2>b, <3>2, <3>3, <3>5 DEF DialInv
    <3> QED BY <1>a, <1>d, <3>1, <3>4, <3>6, DialReplaced
  <2>1. CASE /\ r.readBuffer # <<>>
             /\ SetDial(d, [r EXCEPT !.read = r.read \o AtMost(r.readBuffer, room),
                                     !.readBuffer = From(r.readBuffer, room + 1)])
    <3> DEFINE got == AtMost(r.readBuffer, room)  left == From(r.readBuffer, room + 1)
    <3>1. r.httpResponseDone
      BY <1>a, <1>d, <2>1, Zenon DEF DialInv
    <3>2. (r.read \o r.readBuffer) \o r.wire = ServerStream
      BY <1>a, <1>d, <3>1, Zenon DEF DialInv
    <3>3. got \in Seq(Units) /\ left \in Seq(Units) /\ got \o left = r.readBuffer
      BY <1>c, <2>a, AtMostPart
    <3>4. SetDial(d, [r EXCEPT !.read = r.read \o got, !.readBuffer = left, !.wire = r.wire])
      <4>1. [r EXCEPT !.read = r.read \o got, !.readBuffer = left, !.wire = r.wire]
            = [r EXCEPT !.read = r.read \o got, !.readBuffer = left]
        BY <1>a DEF Dials
      <4> QED BY <2>1, <4>1
    <3> HIDE DEF got, left
    <3>5. (r.read \o got) \o left = r.read \o (got \o left)
      BY ZenonT(60), <1>c, <3>3, PiecesJoin
    <3>6. r.read \o got \in Seq(Units)
      BY <1>c, <3>3, ConcatProperties
    <3>7. ((r.read \o got) \o left) \o r.wire = ServerStream
      BY <3>2, <3>3, <3>5
    <3> QED BY <1>c, <2>b, <3>1, <3>3, <3>4, <3>6, <3>7
  <2>2. CASE /\ r.speculative /\ ~r.httpResponseDone /\ n \in 1..Len(r.wire)
             /\ SetDial(d, StripResponse(d, n, room))
    <3>1. StripResponse(d, n, room) \in Dials /\ DialInv(StripResponse(d, n, room))
      BY SMTT(40), <1>a, <1>d, <2>2, StripStep
    <3> QED BY <1>a, <1>d, <2>2, <3>1, DialReplaced
  <2>3. CASE /\ r.readBuffer = <<>> /\ (r.httpResponseDone \/ ~r.speculative)
             /\ n \in 1..Len(r.wire)
             /\ SetDial(d, [r EXCEPT !.read = r.read \o SubSeq(r.wire, 1, n),
                                     !.wire = From(r.wire, n + 1)])
    <3> DEFINE got == SubSeq(r.wire, 1, n)  left == From(r.wire, n + 1)
    <3>1. r.httpResponseDone
      BY <1>a, <1>d, <2>3, Zenon DEF DialInv
    <3>2. (r.read \o r.readBuffer) \o r.wire = ServerStream
      BY <1>a, <1>d, <3>1, Zenon DEF DialInv
    <3>3. got \in Seq(Units) /\ left \in Seq(Units) /\ got \o left = r.wire
      <4>1. n \in 0..Len(r.wire)
        BY <1>c, <2>3
      <4> QED BY <1>c, <4>1, FirstPart, FromPart
    <3>4. SetDial(d, [r EXCEPT !.read = r.read \o got, !.readBuffer = <<>>, !.wire = left])
      <4>1. [r EXCEPT !.read = r.read \o got, !.readBuffer = <<>>, !.wire = left]
            = [r EXCEPT !.read = r.read \o got, !.wire = left]
        BY <1>a, <2>3 DEF Dials
      <4> QED BY <2>3, <4>1
    <3> HIDE DEF got, left
    <3>5. (r.read \o got) \o left = r.read \o (got \o left)
      BY ZenonT(60), <1>c, <3>3, PiecesJoin
    <3>6. r.read \o got \in Seq(Units) /\ <<>> \in Seq(Units)
      BY <1>c, <3>3, ConcatProperties
    <3>7. (r.read \o got) \o <<>> = r.read \o got /\ r.read \o <<>> = r.read
      BY <1>c, <3>6, ConcatEmptySeq
    <3>8. ((r.read \o got) \o <<>>) \o left = ServerStream
      BY <2>3, <3>2, <3>3, <3>5, <3>7
    <3> QED BY <1>c, <2>b, <3>1, <3>3, <3>4, <3>6, <3>8
  <2> QED BY <1>1, <2>1, <2>2, <2>3 DEF Read
<1>2. ASSUME ReadFails(d) PROVE SpeculativeInv'
  <2> DEFINE new == [r EXCEPT !.pc = FailedPc(d)]
  <2>1. SetDial(d, new)
    BY <1>2 DEF ReadFails
  <2>2. FailedPc(d) \in {"redial", "failed"}
    BY DEF FailedPc
  <2>3. new \in Dials /\ new.pc = FailedPc(d) /\ new.read = r.read /\ new.sent = r.sent
    BY <1>a, <2>2 DEF Dials, Places
  <2> HIDE DEF new
  <2>4. DialInv(new)
    BY <1>b, <2>2, <2>3, AsideInv
  <2> QED BY <1>a, <1>d, <2>1, <2>3, <2>4, DialReplaced
<1>3. ASSUME HandshakeDone(d) PROVE SpeculativeInv'
  <2> DEFINE new == [r EXCEPT !.pc = "up"]
  <2>1. SetDial(d, new)
    BY <1>3 DEF HandshakeDone
  <2>2. /\ new \in Dials /\ new.pc = "up" /\ new.read = r.read /\ new.sent = r.sent
        /\ new.readBuffer = r.readBuffer /\ new.wire = r.wire
        /\ new.httpResponseDone = r.httpResponseDone
    BY <1>a DEF Dials, Places
  <2>3. r.httpResponseDone => (r.read \o r.readBuffer) \o r.wire = ServerStream
    BY <1>a, <1>d, Zenon DEF DialInv
  <2> HIDE DEF new
  <2>4. DialInv(new)
    BY <1>b, <2>2, <2>3 DEF DialInv
  <2> QED BY <1>a, <1>d, <2>1, <2>2, <2>4, DialReplaced
<1> QED BY <1>1, <1>2, <1>3

\* However the network cuts the stream and whatever buffers the TLS stack reads
\* into, it is given the server's bytes, in order, and none of the proxy's: for
\* every number of dials through the proxy and every length of the proxy's header
\* and of the server's answer (speculative_conn.go:136-228).
THEOREM TunnelStreamTheorem == SpeculativeSpec => [](SpeculativeTypeOK /\ TunnelStreamIntact)
<1>1. SpeculativeInit => SpeculativeInv
  <2> SUFFICES ASSUME SpeculativeInit PROVE SpeculativeInv
    OBVIOUS
  <2>1. NoDial \in Dials /\ DialInv(NoDial)
    BY SpeculativeConstants, NoDialInv DEF ProxyMoods
  <2> QED BY <2>1 DEF SpeculativeInit, SpeculativeInv, SpeculativeTypeOK
<1>2. SpeculativeInv /\ [SpeculativeNext]_speculativeVars => SpeculativeInv'
  <2> SUFFICES ASSUME SpeculativeInv, [SpeculativeNext]_speculativeVars PROVE SpeculativeInv'
    OBVIOUS
  <2>1. CASE UNCHANGED speculativeVars
    BY <2>1 DEF speculativeVars, SpeculativeInv, SpeculativeTypeOK
  <2>2. CASE SpeculativeNext
    BY <2>2, SpeculativeConstants, DialStep, AnswerStep DEF SpeculativeNext
  <2> QED BY <2>1, <2>2
<1>3. SpeculativeInv => TunnelStreamIntact
  <2> SUFFICES ASSUME SpeculativeInv, NEW d \in Dialers
               PROVE  /\ IsPrefix(dial[d].read, ServerStream)
                      /\ dial[d].pc \in {"answer", "up"} /\ dial[d].httpResponseDone =>
                            dial[d].read \o dial[d].readBuffer \o dial[d].wire = ServerStream
                      /\ IsPrefix(dial[d].sent, <<"CONNECT", "hello">>)
    BY DEF TunnelStreamIntact
  <2>1. DialInv(dial[d])
    BY DEF SpeculativeInv
  <2>2. /\ IsPrefix(dial[d].read, ServerStream)
        /\ dial[d].pc \in {"answer", "up"} /\ dial[d].httpResponseDone =>
              dial[d].read \o dial[d].readBuffer \o dial[d].wire = ServerStream
        /\ dial[d].sent \in {<<>>, <<"CONNECT">>, <<"CONNECT", "hello">>}
    BY <2>1, Zenon DEF DialInv
  <2>3. /\ IsPrefix(<<>>, <<"CONNECT", "hello">>) /\ IsPrefix(<<"CONNECT">>, <<"CONNECT", "hello">>)
        /\ IsPrefix(<<"CONNECT", "hello">>, <<"CONNECT", "hello">>)
    BY DEF IsPrefix
  <2> QED BY <2>2, <2>3
<1> QED BY <1>1, <1>2, <1>3, PTL DEF SpeculativeSpec, SpeculativeInv

-----------------------------------------------------------------------------
(* The components side by side.                                            *)

Parts == {"session", "cookies", "manager", "tickets", "upload", "speculative", "quic", "http3",
          "masque", "client", "swap"}

\* A step of the sum is a step of each component, or leaves it alone.
LEMMA EachComponentSteps ==
  ASSUME [StateNext]_<<part, sessionVars, cookieVars, managerVars, tlsVars, uploadVars,
                       speculativeVars, quicVars, h3Vars, tunnelVars, clientVars, swapVars>>
  PROVE  /\ UNCHANGED part
         /\ [SessionNext]_sessionVars /\ [CookieNext]_cookieVars /\ [ManagerNext]_managerVars
         /\ [TLSNext]_tlsVars /\ [UploadNext]_uploadVars /\ [SpeculativeNext]_speculativeVars
         /\ [QUICNext]_quicVars /\ [H3Next]_h3Vars /\ [TunnelNext]_tunnelVars
         /\ [ClientNext]_clientVars /\ [SwapNext]_swapVars
BY Zenon DEF StateNext

\* A behaviour of the sum is one of each component.
LEMMA EachComponentRuns ==
  StateSpec => /\ [](part \in Parts)
               /\ SessionSpec /\ CookieSpec /\ ManagerSpec /\ TLSSpec /\ UploadSpec
               /\ SpeculativeSpec /\ QUICSpec /\ H3Spec /\ TunnelSpec /\ ClientSpec /\ SwapSpec
<1> DEFINE all == <<part, sessionVars, cookieVars, managerVars, tlsVars, uploadVars,
                    speculativeVars, quicVars, h3Vars, tunnelVars, clientVars, swapVars>>
<1>1. StateInit => /\ part \in Parts /\ SessionInit /\ CookieInit /\ ManagerInit /\ TLSInit
                   /\ UploadInit /\ SpeculativeInit /\ QUICInit /\ H3Init /\ TunnelInit
                   /\ ClientInit /\ SwapInit
  BY DEF StateInit, Parts
<1>2. part \in Parts /\ [StateNext]_all => (part \in Parts)'
  BY EachComponentSteps
<1>3. [StateNext]_all =>
         /\ [SessionNext]_sessionVars /\ [CookieNext]_cookieVars /\ [ManagerNext]_managerVars
         /\ [TLSNext]_tlsVars /\ [UploadNext]_uploadVars /\ [SpeculativeNext]_speculativeVars
         /\ [QUICNext]_quicVars /\ [H3Next]_h3Vars /\ [TunnelNext]_tunnelVars
         /\ [ClientNext]_clientVars /\ [SwapNext]_swapVars
  BY EachComponentSteps
<1> QED BY <1>1, <1>2, <1>3, PTL
       DEF StateSpec, SessionSpec, CookieSpec, ManagerSpec, TLSSpec, UploadSpec, SpeculativeSpec,
           QUICSpec, H3Spec, TunnelSpec, ClientSpec, SwapSpec

\* What the component that runs has to satisfy is its own type invariant.
LEMMA PartTyped ==
  ASSUME part \in Parts, SessionTypeOK, CookieTypeOK, ManagerTypeOK, TLSTypeOK, UploadTypeOK,
         SpeculativeTypeOK, QUICTypeOK, H3TypeOK, TunnelTypeOK, ClientTypeOK, SwapTypeOK
  PROVE  StateTypeOK
BY DEF Parts, StateTypeOK

\* All that the components promise, of the specification that runs any one of them: each
\* has its types, and every safety property of requests, redirects, cookies, sessions,
\* tickets, uploads, tunnels, transports and HTTP/3 connections holds of it.
THEOREM StateSafe ==
  StateSpec =>
    /\ [](/\ StateTypeOK /\ ChainSound /\ JarSound /\ NoSessionLeaked /\ OrderMatchesCache
          /\ CompleteMeansFinished /\ TunnelStreamIntact /\ TransportSound /\ TunnelOwned
          /\ SentAsMeant /\ SwapSound)
    /\ QUICKeepsLease
<1>1. /\ part \in Parts /\ SessionTypeOK /\ CookieTypeOK /\ ManagerTypeOK /\ TLSTypeOK
      /\ UploadTypeOK /\ SpeculativeTypeOK /\ QUICTypeOK /\ H3TypeOK /\ TunnelTypeOK
      /\ ClientTypeOK /\ SwapTypeOK
      => StateTypeOK
  BY PartTyped
<1> QED BY <1>1, EachComponentRuns, ChainSafe, JarSafe, SessionsSafe, TicketOrderTheorem,
       UploadSafe, TunnelStreamTheorem, Inductive, QUICPoolImplementsLease, TransportSafe,
       TunnelSafe, ClientSafe, SwapSafe, PTL

=============================================================================
