---------------------------- MODULE ClientRequest ----------------------------
(***************************************************************************)
(* One caller of client.Client: Do with its retry loop, doOnce with the    *)
(* choice of protocol, the fallbacks, redirects and the digest challenge   *)
(* (client/client.go, client/auth.go), and DoStream (client/stream.go).    *)
(* The HTTP/3 and HTTP/2 failure caches outlive the call.  An exchange on  *)
(* a protocol is one step that answers, fails before anything was sent, or *)
(* fails after the body was read.                                          *)
(***************************************************************************)
EXTENDS Naturals, Sequences

CONSTANTS
    ClientCalls,        \* records of CallSettings
    ClientOrigins,      \* https origins
    PlainOrigin,        \* an http target of a redirect
    MaxClientRetries,   \* config.MaxRetries
    MaxHops,            \* config.MaxRedirects
    MaxClientCalls,     \* bound on calls in a behaviour
    MaxDigest           \* bound on 401 answers to one call

Protocols == {"h1", "h2", "h3"}

\* What the caller asks for: any method (a redirect may make it GET), whether it
\* has a body and is a stream, the protocol he forces, whose credentials he
\* gives and how, and whether the retry loop is on.
CallMethods == {c.method : c \in ClientCalls} \cup {"GET"}
CallSettings ==
    [method : CallMethods, body : BOOLEAN, stream : BOOLEAN, force : Protocols \cup {"auto"},
     auth : {"none", "basic", "digest", "header"}, retry : BOOLEAN]

ASSUME ClientConstants ==
    /\ ClientCalls \subseteq CallSettings /\ PlainOrigin \notin ClientOrigins
    /\ MaxClientRetries \in Nat /\ MaxHops \in Nat /\ MaxClientCalls \in Nat /\ MaxDigest \in Nat

VARIABLES
    setup,          \* the client's HTTP/3 transports, proxy and authenticator
    h3Failures,     \* origins whose HTTP/3 failed less than five minutes ago
    h2Failures,     \* likewise for HTTP/2
    doing,          \* the call in progress
    wire,           \* the last request written: its body, credentials and origin
    clientCalls

clientVars == <<setup, h3Failures, h2Failures, doing, wire, clientCalls>>

\* The kind of HTTP/3 transport, a proxy that carries QUIC (a client that has one
\* never dials directly), and whether SetAuth gave it a Basic or Bearer authenticator.
Setups == {s \in [h3 : {"none", "quic", "masque", "socks5"}, quicProxy : BOOLEAN, auth : BOOLEAN] :
              s.quicProxy => s.h3 # "quic"}
\* Whose credentials an Authorization header carries.
Owners == {"none", "request", "client"}

NoClientCall == [method |-> "GET", body |-> FALSE, stream |-> FALSE, force |-> "auto",
           auth |-> "none", retry |-> FALSE]
NoDoing == [at |-> "idle", call |-> NoClientCall, home |-> PlainOrigin, origin |-> PlainOrigin,
           method |-> "GET", body |-> FALSE, reader |-> "none", auth |-> FALSE,
           header |-> "none", force |-> "auto", useH3 |-> FALSE, plan |-> <<>>, attempt |-> 0,
           hops |-> 0, nonce |-> FALSE, digests |-> 0, challenged |-> FALSE, vetoed |-> FALSE]

ClientInit ==
    /\ setup \in Setups
    /\ h3Failures = {} /\ h2Failures = {} /\ clientCalls = 0
    /\ doing = NoDoing
    /\ wire = [reader |-> "none", auth |-> "none", origin |-> PlainOrigin,
             home |-> PlainOrigin]

\* The type invariant.
ClientTypeOK ==
    /\ setup \in Setups
    /\ h3Failures \subseteq ClientOrigins /\ h2Failures \subseteq ClientOrigins
    /\ clientCalls \in 0..MaxClientCalls
    /\ DOMAIN doing = DOMAIN NoDoing
    /\ doing.at \in {"idle", "prepare", "choose", "try", "answer"}
    /\ doing.reader \in {"none", "fresh", "spent"} /\ doing.header \in Owners
    /\ doing.plan \in Seq(Protocols) /\ Len(doing.plan) <= 3
    /\ doing.attempt \in 0..MaxClientRetries /\ doing.hops \in 0..MaxHops
    /\ wire.reader \in {"none", "fresh", "spent"} /\ wire.auth \in Owners

-----------------------------------------------------------------------------
(* The retry loop.                                                          *)

\* doWithRetry clones the request and gives the copy a fresh reader over the
\* cached body; a call without retries has the caller's own.
FirstHop(d) ==
    [d EXCEPT !.at = "prepare", !.origin = d.home, !.method = d.call.method, !.body = d.call.body,
              !.auth = d.call.auth \in {"basic", "digest"}, !.hops = 0,
              !.header = IF d.call.auth = "header" THEN "request" ELSE "none"]

StartCall(c, o) ==
    /\ doing.at = "idle" /\ clientCalls < MaxClientCalls
    /\ clientCalls' = clientCalls + 1
    /\ doing' = FirstHop([NoDoing EXCEPT !.call = c, !.home = o, !.force = c.force])
    /\ UNCHANGED <<setup, h3Failures, h2Failures, wire>>

\* The next turn of the loop, if there is one; after a cookie challenge on HTTP/3.
NextAttempt(d) == IF d.attempt < MaxClientRetries
                  THEN [FirstHop(d) EXCEPT !.attempt = @ + 1]
                  ELSE NoDoing

\* doOnce has returned an error.  A redirectHookError is the caller's decision.
AfterError(d) == IF d.call.retry /\ ~d.vetoed THEN NextAttempt(d) ELSE NoDoing

\* A bad scheme, a hook, the certificate pins, the body or its decoding, the
\* context during the wait before an attempt.
DoOnceFails ==
    /\ \/ doing.at = "prepare"
       \/ doing.at = "answer"
    /\ doing' = AfterError(doing)
    /\ UNCHANGED <<setup, h3Failures, h2Failures, wire, clientCalls>>

-----------------------------------------------------------------------------
(* doOnce: the request and the protocols to try.                            *)

ShouldTryHTTP3(o) == setup.h3 # "none" /\ o \notin h3Failures

\* The body is read into memory, the authenticator of the request, or else of
\* the client, writes the Authorization header, and all headers are copied
\* into the request's own map.  Digest writes nothing before a challenge.
Prepare ==
    /\ doing.at = "prepare" /\ doing.origin # PlainOrigin
    /\ LET applies == IF doing.auth THEN doing.call.auth = "basic" \/ doing.nonce ELSE setup.auth
           owner == IF doing.auth THEN "request" ELSE "client"
       IN  doing' = [doing EXCEPT !.at = "choose", !.useH3 = ShouldTryHTTP3(doing.origin),
                         !.reader = IF doing.body THEN "fresh" ELSE "none",
                         !.header = IF applies THEN owner ELSE @]
    /\ UNCHANGED <<setup, h3Failures, h2Failures, wire, clientCalls>>

\* A challenged call goes on over HTTP/3 unless only a SOCKS5 transport offers it.
Effective == IF doing.challenged /\ doing.force = "auto" /\ setup.h3 \in {"quic", "masque"}
             THEN "h3" ELSE doing.force

\* The order of protocols in auto mode, for Do and for DoStream.
AutoPlan ==
    IF doing.call.stream
    THEN IF doing.useH3 THEN <<"h3", "h2">> ELSE <<"h2">>
    ELSE IF doing.origin \in h2Failures /\ ~setup.quicProxy THEN <<"h1">>
    ELSE IF setup.quicProxy /\ doing.useH3 THEN <<"h3", "h2", "h1">>
    ELSE IF doing.useH3 THEN <<"h2", "h3", "h1">> ELSE <<"h2", "h1">>

Choose ==
    /\ doing.at = "choose"
    /\ doing' = [doing EXCEPT !.at = "try",
                     !.plan = IF Effective = "auto" THEN AutoPlan ELSE <<Effective>>]
    /\ UNCHANGED <<setup, h3Failures, h2Failures, wire, clientCalls>>

Written == wire' = [reader |-> doing.reader, auth |-> doing.header, origin |-> doing.origin,
                    home |-> doing.home]

\* HTTP/3 needs a transport; DoStream refuses to force it behind a proxy.
Possible(p) == p = "h3" =>
    /\ setup.h3 # "none"
    /\ doing.call.stream /\ Effective = "h3" => setup.h3 = "quic"

\* doHTTP1, doHTTP2 or doHTTP3 returns a response.
Answered ==
    /\ doing.at = "try" /\ Possible(Head(doing.plan))
    /\ Written
    /\ doing' = [doing EXCEPT !.at = "answer", !.reader = IF @ = "none" THEN @ ELSE "spent"]
    /\ UNCHANGED <<setup, h3Failures, h2Failures, clientCalls>>

\* Mutant of ResetRequestBody: the fallback goes on with the reader as it is.
ResetRequestBodyNot(reader) == reader

\* A new reader over the cached bytes; an empty body has an empty reader.
ResetRequestBody(reader) == IF reader = "none" THEN "none" ELSE "fresh"

\* What is left to try.  DoStream turns to HTTP/1.1 only where HTTP/2 is known to fail.
Fallbacks ==
    IF doing.call.stream /\ Effective = "auto" /\ Len(doing.plan) = 1
       /\ Head(doing.plan) = "h2" /\ doing.origin \in h2Failures
    THEN <<"h1">>
    ELSE Tail(doing.plan)

\* An attempt fails: the failure caches learn in auto mode, the rest of the plan is tried.
TryFails(sent) ==
    /\ doing.at = "try"
    /\ IF sent THEN Possible(Head(doing.plan)) /\ Written ELSE UNCHANGED wire
    /\ LET now == Head(doing.plan)
           reader == IF sent /\ doing.reader # "none" THEN "spent" ELSE doing.reader
       IN  /\ h3Failures' = IF now = "h3" /\ Effective = "auto"
                            THEN h3Failures \cup {doing.origin} ELSE h3Failures
           /\ h2Failures' = IF \/ doing.plan = <<"h2", "h1">> /\ ~doing.useH3
                               \/ doing.call.stream /\ Fallbacks = <<"h1">>
                            THEN h2Failures \cup {doing.origin} ELSE h2Failures
           /\ doing' = IF Fallbacks = <<>>
                       THEN AfterError(doing)
                       ELSE [doing EXCEPT !.plan = Fallbacks, !.reader = ResetRequestBody(reader)]
    /\ UNCHANGED <<setup, clientCalls>>

-----------------------------------------------------------------------------
(* doOnce: the answer.                                                      *)

\* A final response; a stream is handed out with its body unread.
Deliver ==
    /\ doing.at = "answer"
    /\ doing' = NoDoing
    /\ UNCHANGED <<setup, h3Failures, h2Failures, wire, clientCalls>>

\* 403 or 429 with cookies: the loop goes on whatever is left of it.
CookieChallenge ==
    /\ doing.at = "answer" /\ doing.call.retry /\ ~doing.challenged /\ doing.call.force = "auto"
    /\ doing' = IF NextAttempt(doing).at = "idle" THEN NoDoing ELSE [NextAttempt(doing) EXCEPT !.challenged = TRUE]
    /\ UNCHANGED <<setup, h3Failures, h2Failures, wire, clientCalls>>

\* A status of RetryOnStatus while attempts are left.
RetryStatus ==
    /\ doing.at = "answer" /\ doing.call.retry /\ doing.attempt < MaxClientRetries
    /\ doing' = NextAttempt(doing)
    /\ UNCHANGED <<setup, h3Failures, h2Failures, wire, clientCalls>>

\* 401 to a digest authenticator: the same request again, with the body restored.
DigestChallenge ==
    /\ doing.at = "answer" /\ ~doing.call.stream /\ doing.auth /\ doing.call.auth = "digest"
    /\ doing.digests < MaxDigest
    /\ doing' = [doing EXCEPT !.at = "prepare", !.nonce = TRUE, !.digests = @ + 1]
    /\ UNCHANGED <<setup, h3Failures, h2Failures, wire, clientCalls>>

\* Scheme, host and port are one model value: a scheme downgrade is another origin.
SameOriginClient(from, to) == from = to

\* carriedHeaders: Authorization is dropped on a downgrade or another origin.
Carried(from, to, owner) == IF SameOriginClient(from, to) THEN owner ELSE "none"

\* A redirect to origin `to` that the cap and OnRedirect let pass.  303, and 301
\* or 302 of a POST, change to GET; only 307 and 308 carry the body.
Redirect(status, to) ==
    /\ doing.at = "answer" /\ ~doing.call.stream /\ doing.hops < MaxHops
    /\ LET keeps == status = 307
       IN  doing' = [doing EXCEPT !.at = "prepare", !.origin = to, !.hops = @ + 1,
                         !.method = IF status = 303 \/ (status = 302 /\ @ = "POST") THEN "GET" ELSE @,
                         !.body = @ /\ keeps,
                         !.auth = @ /\ SameOriginClient(doing.origin, to),
                         !.header = Carried(doing.origin, to, @)]
    /\ UNCHANGED <<setup, h3Failures, h2Failures, wire, clientCalls>>

\* OnRedirect refuses the hop with an error of its own.
Veto ==
    /\ doing.at = "answer" /\ ~doing.call.stream /\ doing.hops < MaxHops
    /\ doing' = AfterError([doing EXCEPT !.vetoed = TRUE])
    /\ UNCHANGED <<setup, h3Failures, h2Failures, wire, clientCalls>>

\* Five minutes pass since one of the two failures, each with a time of its own.
FailureExpires(o) ==
    /\ \/ o \in h3Failures /\ h3Failures' = h3Failures \ {o} /\ UNCHANGED h2Failures
       \/ o \in h2Failures /\ h2Failures' = h2Failures \ {o} /\ UNCHANGED h3Failures
    /\ UNCHANGED <<setup, doing, wire, clientCalls>>

ClientNext ==
    \/ \E c \in ClientCalls, o \in ClientOrigins : StartCall(c, o)
    \/ DoOnceFails \/ Prepare \/ Choose \/ Answered
    \/ \E sent \in BOOLEAN : TryFails(sent)
    \/ Deliver \/ CookieChallenge \/ RetryStatus \/ DigestChallenge \/ Veto
    \/ \E status \in {302, 303, 307}, to \in ClientOrigins \cup {PlainOrigin} : Redirect(status, to)
    \/ \E o \in ClientOrigins : FailureExpires(o)

ClientSpec == ClientInit /\ [][ClientNext]_clientVars

-----------------------------------------------------------------------------
(* Properties.                                                              *)

\* What goes on the wire is what the caller asked for: through retries,
\* fallbacks, a digest challenge and 307 redirects the body is never a reader
\* that an earlier exchange has used up, the request's own credentials stay on
\* its origin, and a hop that OnRedirect refused ends the call ("a request the
\* caller already vetoed should not be replayed", client.go:566-567).
SentAsMeant ==
    /\ wire.reader # "spent"
    /\ wire.auth = "request" => wire.origin = wire.home
    /\ ~doing.vetoed
=============================================================================
