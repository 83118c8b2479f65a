------------------------------ MODULE Session ------------------------------
(***************************************************************************)
(* session/session.go, session/fork.go: requests on a session and its      *)
(* forks.  requestWithRedirects takes a private copy of the request, passes*)
(* the gate under s.mu, sends it with retries and follows redirects, each  *)
(* hop a new request built from the one before; RequestStream does one hop *)
(* without retries.  Cookies, cache validators and client hints are        *)
(* learned from every answer and added to later requests.  Forks share the *)
(* cookie jar (CookieJar models its rules) and start from a copy of the    *)
(* rest.  A header is a pair of its kind and the URL or host it was made   *)
(* for, so that a header which outlives its hop can be told.               *)
(***************************************************************************)
EXTENDS Naturals, FiniteSets

CONSTANTS
    Sessions,      \* the first session and the forks it may have
    FirstSession,
    Requests,      \* request slots: each runs one call at a time
    Urls,          \* records [https, host, page]
    Calls,         \* records [method, body, stream]: what callers ask for
    Answers,       \* records [cookie, acceptCH, etag]: what responses bring
    Changes,       \* the session operations that run meanwhile
    MaxRedirects,  \* Config.MaxRedirects
    MaxRetries,    \* Config.MaxRetries
    MaxCalls,      \* bound on the calls made
    MaxChanges     \* bound on the session operations

\* "bytes" is Request.Body; a BodyReader is "oneshot", or "replayable" when the
\* caller gave GetBody or DeriveGetBody found one.
BodyKinds == {"none", "bytes", "replayable", "oneshot"}
MethodKinds == {"GET", "POST", "PUT"}

ASSUME SessionConstants ==
    /\ FirstSession \in Sessions
    /\ \A u \in Urls : DOMAIN u = {"https", "host", "page"} /\ u.https \in BOOLEAN
    /\ Calls \subseteq [method : MethodKinds, body : BodyKinds, stream : BOOLEAN]
    /\ Answers \subseteq [cookie : BOOLEAN, acceptCH : BOOLEAN, etag : BOOLEAN]
    /\ {MaxRedirects, MaxRetries, MaxCalls, MaxChanges} \subseteq Nat

VARIABLES
    session,      \* the sessions, one record each
    jarHosts,     \* the hosts with a cookie in the shared jar
    request,      \* the requests, one record each
    callsMade,
    changesMade

sessionVars == <<session, jarHosts, request, callsMade, changesMade>>

UrlHosts == {u.host : u \in Urls}
NoUrl == [https |-> FALSE, host |-> "none", page |-> 0]
Readers == {"replayable", "oneshot"}

Unborn == [life |-> "unborn", refreshed |-> FALSE, conditionalCacheEnabled |-> FALSE,
           cacheEntries |-> {}, clientHintsEnabled |-> FALSE, clientHints |-> {},
           followRedirects |-> FALSE]

\* NewSessionWithOptions, with every feature on.
NewSession == [life |-> "active", refreshed |-> FALSE, conditionalCacheEnabled |-> TRUE,
               cacheEntries |-> {}, clientHintsEnabled |-> TRUE, clientHints |-> {},
               followRedirects |-> TRUE]

\* A slot with no call running.
Free == [pc |-> "free", session |-> FirstSession, url |-> NoUrl, method |-> "GET", body |-> "none",
         reader |-> "fresh", headers |-> {}, hop |-> 0, attempt |-> 0, stream |-> FALSE,
         owed |-> FALSE]

SessionInit ==
    /\ session = [s \in Sessions |-> IF s = FirstSession THEN NewSession ELSE Unborn]
    /\ jarHosts = {}
    /\ request = [r \in Requests |-> Free]
    /\ callsMade = 0 /\ changesMade = 0

Headers == {"auth", "usercookie", "validator", "referer", "origin", "ctype"} \X Urls
           \cup {"cookie", "hint"} \X UrlHosts \cup {<<"maxage", NoUrl>>}

\* The type invariant.
SessionTypeOK ==
    /\ session \in [Sessions -> [life : {"unborn", "active", "draining", "closed"},
                                 refreshed : BOOLEAN, conditionalCacheEnabled : BOOLEAN,
                                 cacheEntries : SUBSET Urls, clientHintsEnabled : BOOLEAN,
                                 clientHints : SUBSET UrlHosts, followRedirects : BOOLEAN]]
    /\ jarHosts \subseteq UrlHosts
    /\ \A r \in Requests :
          /\ request[r].pc \in {"free", "gate", "attempt", "wire", "backoff"}
          /\ request[r].url \in Urls \cup {NoUrl}
          /\ request[r].headers \subseteq Headers
          /\ request[r].hop \in 0..MaxRedirects /\ request[r].attempt \in 0..MaxRetries
    /\ callsMade \in 0..MaxCalls /\ changesMade \in 0..MaxChanges

-----------------------------------------------------------------------------
(* URLs and headers.                                                       *)

\* parseOrigin, sameOrigin: scheme, host and port; the port is part of host here.
SameOrigin(u, v) == u.https = v.https /\ u.host = v.host
IsSchemeDowngrade(u, v) == u.https /\ ~v.https

Of(kinds) == {h \in Headers : h[1] \in kinds}

\* The header map holds one value of a kind: setting one replaces another.
Put(headers, h) == (headers \ Of({h[1]})) \cup {h}

\* redirectReferer: the whole URL within an origin, the origin across origins.
Referer(u, v) ==
    IF IsSchemeDowngrade(u, v) THEN {}
    ELSE IF SameOrigin(u, v) THEN {<<"referer", u>>} ELSE {<<"origin", u>>}

\* The method of the next hop.
NewMethod(status, method) ==
    IF status = 303 \/ (status = 302 /\ method = "POST") THEN "GET" ELSE method

\* Mutant of CopiedHeaders: credentials are dropped on a downgrade only.
CopiedHeadersToAnyHost(headers, u, v, method, newMethod) ==
    headers \ (Of({"usercookie", "cookie", "referer", "origin"})
               \cup (IF newMethod # method THEN Of({"ctype"}) ELSE {})
               \cup (IF IsSchemeDowngrade(u, v) THEN Of({"auth"}) ELSE {}))

\* The headers a hop from u to v inherits: Cookie and Referer are made afresh.
CopiedHeaders(headers, u, v, method, newMethod) ==
    headers \ (Of({"usercookie", "cookie", "referer", "origin"})
               \cup (IF newMethod # method THEN Of({"ctype"}) ELSE {})
               \cup (IF ~SameOrigin(u, v) THEN Of({"auth"}) ELSE {}))

-----------------------------------------------------------------------------
(* A call.                                                                 *)

SetSession(r, q) == request' = [request EXCEPT ![r] = q]
Ends(r) == SetSession(r, Free)

\* Request and RequestStream: the private copy, with GetBody derived.
BeginCall(r) ==
    /\ request[r].pc = "free" /\ callsMade < MaxCalls
    /\ \E s \in Sessions, u \in Urls, c \in Calls :
          /\ session[s].life # "unborn"
          /\ SetSession(r, [Free EXCEPT !.pc = "gate", !.session = s, !.url = u, !.method = c.method,
                        !.body = c.body, !.stream = c.stream, !.owed = c.body # "none",
                        !.headers = {<<"auth", u>>, <<"usercookie", u>>}
                                    \cup (IF c.body = "none" THEN {} ELSE {<<"ctype", u>>})])
    /\ callsMade' = callsMade + 1
    /\ UNCHANGED <<session, jarHosts, changesMade>>

\* cache-control after a Refresh and the validators stored for this URL.
WithValidators(s, q) ==
    LET fresh == IF s.refreshed THEN Put(q.headers, <<"maxage", NoUrl>>) ELSE q.headers
    IN  IF s.conditionalCacheEnabled /\ q.url \in s.cacheEntries
        THEN Put(fresh, <<"validator", q.url>>) ELSE fresh

\* The gate at the start of every hop, under s.mu.
Gate(r) ==
    LET q == request[r]
        s == session[q.session]
    IN  /\ q.pc = "gate" /\ ~q.stream
        /\ IF s.life = "active"
           THEN SetSession(r, [q EXCEPT !.pc = "attempt", !.headers = WithValidators(s, q)])
           ELSE Ends(r)
        /\ UNCHANGED <<session, jarHosts, callsMade, changesMade>>

\* BuildCookieHeader, on top of the Cookie header the caller gave for this hop.
WithCookies(q) ==
    IF q.url.host \in jarHosts THEN Put(q.headers, <<"cookie", q.url.host>>)
    ELSE IF q.headers \cap Of({"usercookie"}) # {} THEN q.headers \ Of({"cookie"}) ELSE q.headers

\* RequestStream: the gate and the jar's cookies in one critical section.
StreamGate(r) ==
    LET q == request[r]
    IN  /\ q.pc = "gate" /\ q.stream
        /\ IF session[q.session].life = "active"
           THEN SetSession(r, [q EXCEPT !.pc = "attempt", !.headers = WithCookies(q)])
           ELSE Ends(r)
        /\ UNCHANGED <<session, jarHosts, callsMade, changesMade>>

\* applyClientHintPolicy and applyClientHints: a header that is there stays.
WithHints(s, host, headers) ==
    IF s.clientHintsEnabled /\ host \in s.clientHints /\ headers \cap Of({"hint"}) = {}
    THEN headers \cup {<<"hint", host>>} ELSE headers

\* The body of a retried attempt is opened again with GetBody.
Rearm(q) == IF q.attempt > 0 /\ q.body = "replayable" THEN "fresh" ELSE q.reader

\* The head of the retry loop up to transport.Do; GetBody may fail.
Attempt(r) ==
    LET q == request[r]
    IN  /\ q.pc = "attempt"
        /\ \/ SetSession(r, [q EXCEPT !.pc = "wire", !.reader = Rearm(q),
                        !.headers = WithHints(session[q.session], q.url.host,
                                              IF q.stream THEN q.headers ELSE WithCookies(q))])
           \/ q.attempt > 0 /\ q.body = "replayable" /\ Ends(r)
        /\ UNCHANGED <<session, jarHosts, callsMade, changesMade>>

BodyReplayable(q) == q.body # "oneshot"

\* Mutant of MayRetry: the attempt that is over is not counted.
MayRetryOnceMore(q) == ~q.stream /\ BodyReplayable(q) /\ q.attempt <= MaxRetries

MayRetry(q) == ~q.stream /\ BodyReplayable(q) /\ q.attempt < MaxRetries

Drained(q) == IF q.body \in Readers THEN [q EXCEPT !.reader = "drained"] ELSE q

\* transport.Do fails: the request ends, or waits for its next attempt.
AttemptFails(r) ==
    LET q == Drained(request[r])
    IN  /\ q.pc = "wire"
        /\ IF MayRetry(q) THEN SetSession(r, [q EXCEPT !.pc = "backoff"]) ELSE Ends(r)
        /\ UNCHANGED <<session, jarHosts, callsMade, changesMade>>

\* extractCookies: into the jar, which all forks see.
ExtractCookies(q, cookie) == IF cookie THEN jarHosts \cup {q.url.host} ELSE jarHosts

ParseAcceptCH(s, q, acceptCH) ==
    [s EXCEPT !.clientHints = IF acceptCH THEN @ \cup {q.url.host} ELSE @]

StoreCacheHeaders(s, q, etag) ==
    [s EXCEPT !.cacheEntries =
        IF etag /\ s.conditionalCacheEnabled THEN @ \cup {q.url} ELSE @]

\* What an answer teaches: a buffered call stores the validators of the answer
\* that ends its retries.
Learn(q, cookie, acceptCH, etag) ==
    /\ jarHosts' = ExtractCookies(q, cookie)
    /\ session' = [session EXCEPT ![q.session] =
                      StoreCacheHeaders(ParseAcceptCH(@, q, acceptCH), q, etag /\ ~q.stream)]
    /\ UNCHANGED <<callsMade, changesMade>>

\* A status on the retry list, with attempts left.
AnswerRetried(r) ==
    LET q == Drained(request[r])
    IN  /\ q.pc = "wire" /\ MayRetry(q)
        /\ SetSession(r, [q EXCEPT !.pc = "backoff"])
        /\ \E a \in Answers : Learn(q, a.cookie, a.acceptCH, FALSE)

\* The answer is handed to the caller: not a redirect, redirects are off, the
\* cap is reached, there is no Location, or OnRedirect says stop.
AnswerFinal(r) ==
    LET q == Drained(request[r])
    IN  /\ q.pc = "wire"
        /\ Ends(r)
        /\ \E a \in Answers : Learn(q, a.cookie, a.acceptCH, a.etag)

\* The body of the next hop: 307 and 308 keep it, the others drop it.
HopBody(status, q) == IF status = 307 THEN q.body ELSE "none"

\* A reader is opened again with GetBody for a 307 or 308.
HopReader(status, q) == IF status = 307 /\ q.body = "oneshot" THEN q.reader ELSE "fresh"

\* A redirect that is followed.
Redirected(r) ==
    LET q == Drained(request[r])
    IN  /\ q.pc = "wire" /\ ~q.stream
        /\ session[q.session].followRedirects /\ q.hop < MaxRedirects
        /\ \E v \in Urls, status \in {302, 303, 307} :
              LET newMethod == NewMethod(status, q.method)
                  copied == CopiedHeaders(q.headers, q.url, v, q.method, newMethod)
              IN  /\ status = 307 => BodyReplayable(q)
                  /\ SetSession(r, [q EXCEPT !.pc = "gate", !.url = v, !.method = newMethod,
                                !.body = HopBody(status, q), !.reader = HopReader(status, q),
                                !.owed = @ /\ status = 307, !.hop = @ + 1, !.attempt = 0,
                                !.headers = copied \cup Referer(q.url, v)])
        /\ \E a \in Answers : Learn(q, a.cookie, a.acceptCH, a.etag)

\* A redirect with a body that cannot be opened again: ErrBodyNotReplayable, or
\* GetBody failed.
RedirectRefused(r) ==
    LET q == Drained(request[r])
    IN  /\ q.pc = "wire" /\ ~q.stream
        /\ session[q.session].followRedirects /\ q.hop < MaxRedirects /\ q.body \in Readers
        /\ Ends(r)
        /\ \E a \in Answers : Learn(q, a.cookie, a.acceptCH, a.etag)

\* The wait between attempts ends with the timer or with the context.
Backoff(r) ==
    LET q == request[r]
    IN  /\ q.pc = "backoff"
        /\ \/ SetSession(r, [q EXCEPT !.pc = "attempt", !.attempt = @ + 1])
           \/ Ends(r)
        /\ UNCHANGED <<session, jarHosts, callsMade, changesMade>>

-----------------------------------------------------------------------------
(* The session's own operations, each one critical section of s.mu.        *)

Close(s) == [session EXCEPT ![s].life = IF @ \in {"active", "draining"} THEN "closed" ELSE @]
CloseGraceful(s) == [session EXCEPT ![s].life = IF @ = "active" THEN "draining" ELSE @]
Refresh(s) == [session EXCEPT ![s].refreshed = @ \/ session[s].life = "active"]
SetConditionalCacheEnabled(s) == [session EXCEPT ![s].conditionalCacheEnabled = ~@]
ClearCache(s) == [session EXCEPT ![s].cacheEntries = {}]
SetClientHintsEnabled(s) == [session EXCEPT ![s].clientHintsEnabled = ~@]
SetFollowRedirects(s) == [session EXCEPT ![s].followRedirects = ~@]

\* forkOne: everything is copied but the conditional cache's switch and the
\* refreshed flag, which start off.
ForkOne(s) == [session[s] EXCEPT !.conditionalCacheEnabled = FALSE, !.refreshed = FALSE]

Fork(s, f) == IF session[s].life = "active" THEN [session EXCEPT ![f] = ForkOne(s)] ELSE session

Change(s) ==
    /\ session[s].life # "unborn" /\ changesMade < MaxChanges
    /\ changesMade' = changesMade + 1
    /\ \/ "close" \in Changes /\ session' = Close(s)
       \/ "graceful" \in Changes /\ session' = CloseGraceful(s)
       \/ "refresh" \in Changes /\ session' = Refresh(s)
       \/ "cache" \in Changes /\ session' \in {SetConditionalCacheEnabled(s), ClearCache(s)}
       \/ "hints" \in Changes /\ session' = SetClientHintsEnabled(s)
       \/ "follow" \in Changes /\ session' = SetFollowRedirects(s)
       \/ "fork" \in Changes /\ \E f \in Sessions : session[f].life = "unborn" /\ session' = Fork(s, f)
    /\ UNCHANGED <<jarHosts, request, callsMade>>

\* ClearCookies empties the jar of all forks.
ClearCookies ==
    /\ "cookies" \in Changes /\ changesMade < MaxChanges
    /\ changesMade' = changesMade + 1 /\ jarHosts' = {}
    /\ UNCHANGED <<session, request, callsMade>>

SessionNext ==
    \/ \E r \in Requests : \/ BeginCall(r) \/ Gate(r) \/ StreamGate(r) \/ Attempt(r) \/ AttemptFails(r)
                           \/ AnswerRetried(r) \/ AnswerFinal(r) \/ Redirected(r)
                           \/ RedirectRefused(r) \/ Backoff(r)
    \/ \E s \in Sessions : Change(s)
    \/ ClearCookies

SessionSpec == SessionInit /\ [][SessionNext]_sessionVars

-----------------------------------------------------------------------------
(* Properties.                                                             *)

OnWire(r) == request[r].pc = "wire"

\* What a redirect chain may not leak (session.go:574-580, 652-689): over any
\* sequence of hops, retries and session operations the caller's Authorization
\* reaches only the origin it was written for, the caller's Cookie header only
\* the first hop, a jar cookie only the host it belongs to; a Referer names the
\* page only within its origin and is never sent from https to http.
CredentialsConfined ==
    \A r \in Requests : OnWire(r) =>
        LET q == request[r]
        IN  \A h \in q.headers :
              /\ h[1] \in {"auth", "referer"} => SameOrigin(h[2], q.url)
              /\ h[1] = "usercookie" => q.hop = 0 /\ h[2] = q.url
              /\ h[1] = "cookie" => h[2] = q.url.host
              /\ h[1] = "origin" => ~IsSchemeDowngrade(h[2], q.url)

\* A request never goes out with less than the caller's body (session.go:701-719,
\* 436-445): whatever mixture of retries and 307 or 308 hops came before, a
\* reader on the wire has not been read yet and a body is missing only after a
\* redirect that drops it.
BodyIntact ==
    \A r \in Requests : OnWire(r) =>
        /\ request[r].body \in Readers => request[r].reader = "fresh"
        /\ request[r].owed => request[r].body # "none"

\* Over any chain of redirects, retries and session operations, what goes out is
\* what the caller meant for that host: his credentials confined, his body whole
\* (session.go:436-445, 574-580, 652-719).
ChainSound == CredentialsConfined /\ BodyIntact
=============================================================================
