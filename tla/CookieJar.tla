----------------------------- MODULE CookieJar -----------------------------
(***************************************************************************)
(* session/cookie_jar.go with session.extractCookies: the jar a session    *)
(* shares with its forks.  Every method is one critical section of j.mu.   *)
(* A host is the sequence of its labels from the top-level domain down and *)
(* a path the sequence of its segments, so that "is within" is "has as a   *)
(* prefix".  Save writes what Export returns and Load fills a new jar from *)
(* it; the old session is then forgotten, so the two are one step.         *)
(***************************************************************************)
EXTENDS Naturals, FiniteSets, SequencesExt

CONSTANTS
    CookieHosts,    \* hosts that requests go to: sequences of labels
    CookieDomains,  \* Domain attributes: sequences of labels
    CookiePaths,    \* sequences of segments
    CookieNames,
    MaxCookies,     \* bound on the cookies held at a time
    MaxClock        \* bound on the clock

ASSUME CookieConstants == MaxCookies \in Nat /\ MaxClock \in Nat

Never == MaxClock + 1

VARIABLES
    jar,     \* j.cookies: a set of cookies, one for each domain, path and name
    clock

cookieVars == <<jar, clock>>

\* The key of j.cookies: "" for cookies sent everywhere, a bare host, or a
\* domain with a leading dot.
Global == [kind |-> "global", labels |-> <<>>]
HostKey(h) == [kind |-> "host", labels |-> h]
DomainKey(d) == [kind |-> "domain", labels |-> d]
Keys == {Global} \cup {HostKey(h) : h \in CookieHosts \cup CookieDomains}
        \cup {DomainKey(d) : d \in CookieDomains}

\* setBy and https are history: who set the cookie, and over what.
Cookies == [domain : Keys, hostOnly : BOOLEAN, path : CookiePaths, name : CookieNames,
            secure : BOOLEAN, expires : 0..Never, setBy : CookieHosts \cup {<<>>}, https : BOOLEAN]

CookieInit == jar = {} /\ clock = 0

\* The type invariant: a domain, a path and a name identify a cookie.
CookieTypeOK ==
    /\ jar \subseteq Cookies /\ clock \in 0..MaxClock
    /\ \A c, d \in jar : c.domain = d.domain /\ c.path = d.path /\ c.name = d.name => c = d

-----------------------------------------------------------------------------
(* Matching.                                                               *)

Expired(c) == c.expires < clock

\* isDomainMatch: the host is the domain or a subdomain of it.
IsDomainMatch(host, domain) == IsPrefix(domain, host)

\* domainMatchesHost.
DomainMatchesHost(key, host) ==
    \/ key = Global
    \/ key = HostKey(host)
    \/ key.kind = "domain" /\ IsDomainMatch(host, key.labels)

\* isPathMatch: whole segments only.
IsPathMatch(requestPath, cookiePath) == IsPrefix(cookiePath, requestPath)

\* Get: the cookies of a request.
Get(cookies, host, path, https) ==
    {c \in cookies : /\ DomainMatchesHost(c.domain, host)
                     /\ c.hostOnly => c.domain = HostKey(host)
                     /\ IsPathMatch(path, c.path)
                     /\ c.secure => https
                     /\ ~Expired(c)}

\* A cookie takes the place of the one with the same domain, path and name.
Store(cookies, c) ==
    {d \in cookies : ~(d.domain = c.domain /\ d.path = c.path /\ d.name = c.name)} \cup {c}

-----------------------------------------------------------------------------
(* Operations.                                                             *)

Stores(c) ==
    /\ jar' = Store(jar, c) /\ Cardinality(jar') <= MaxCookies
    /\ UNCHANGED clock

\* Mutant of AcceptsDomain: any Domain attribute is taken.
AcceptsAnyDomain(host, domain) == TRUE

AcceptsDomain(host, domain) == IsDomainMatch(host, domain)

\* Set without a Domain attribute.  A Secure cookie over http is refused.
SetHostCookie ==
    \E h \in CookieHosts, p \in CookiePaths, n \in CookieNames, s, https \in BOOLEAN,
       e \in 0..Never :
        /\ s => https
        /\ Stores([domain |-> HostKey(h), hostOnly |-> TRUE, path |-> p, name |-> n, secure |-> s,
                   expires |-> e, setBy |-> h, https |-> https])

\* Set with a Domain attribute: refused unless the host is within the domain.
SetDomainCookie ==
    \E h \in CookieHosts, d \in CookieDomains, p \in CookiePaths, n \in CookieNames,
       s, https \in BOOLEAN, e \in 0..Never :
        /\ AcceptsDomain(h, d)
        /\ s => https
        /\ Stores([domain |-> DomainKey(d), hostOnly |-> FALSE, path |-> p, name |-> n,
                   secure |-> s, expires |-> e, setBy |-> h, https |-> https])

\* SetSimple: the caller's own cookies, for everywhere, a host or a domain.
SetSimple ==
    \E k \in Keys, p \in CookiePaths, n \in CookieNames, s \in BOOLEAN :
        Stores([domain |-> k, hostOnly |-> k.kind = "host", path |-> p, name |-> n, secure |-> s,
                expires |-> Never, setBy |-> <<>>, https |-> TRUE])

\* Delete by name, from all domains or from one.
Delete ==
    /\ \E n \in CookieNames, ks \in {Keys} \cup {{k} : k \in Keys \ {Global}} :
          jar' = {c \in jar : ~(c.name = n /\ c.domain \in ks)}
    /\ UNCHANGED clock

ClearJar == jar' = {} /\ UNCHANGED clock

ClearExpired == jar' = {c \in jar : ~Expired(c)} /\ UNCHANGED clock

\* Export: no expired cookie.
Export(cookies) == {c \in cookies : ~Expired(c)}

\* Import into a new jar.  HostOnly is not in the file: it is read off the
\* domain, which has no leading dot either when the cookie is global.
Import(file) ==
    {[c EXCEPT !.hostOnly = c.domain.kind # "domain"] : c \in {d \in file : ~Expired(d)}}

\* ImportV4 keeps global cookies global.
ImportV4(file) ==
    {[c EXCEPT !.hostOnly = c.domain.kind = "host"] : c \in {d \in file : ~Expired(d)}}

\* Load fills a new session's jar; files of versions 3 and 4 hold a flat list.
UnmarshalSession(file, version) == IF version = 5 THEN Import(file) ELSE ImportV4(file)

\* Save and Load, of a file of this version or of an older one.
SaveAndLoad ==
    /\ \E version \in 3..5 : jar' = UnmarshalSession(Export(jar), version)
    /\ UNCHANGED clock

Tick == clock < MaxClock /\ clock' = clock + 1 /\ UNCHANGED jar

CookieNext ==
    \/ SetHostCookie \/ SetDomainCookie \/ SetSimple \/ Delete \/ ClearJar \/ ClearExpired
    \/ SaveAndLoad \/ Tick

CookieSpec == CookieInit /\ [][CookieNext]_cookieVars

-----------------------------------------------------------------------------
(* Properties.                                                             *)

\* A cookie a server set is sent only where that server could have sent it
\* (cookie_jar.go:66-91, 143-169): to the host itself, or within a domain the
\* host belongs to; Secure cookies were set over https and go out over https.
\* This holds across Save, Load and whatever else the jar went through.
CookieConfined ==
    \A h \in CookieHosts, p \in CookiePaths, https \in BOOLEAN :
        \A c \in Get(jar, h, p, https) : c.setBy # <<>> =>
            /\ h = c.setBy \/ (c.domain.kind = "domain" /\ IsPrefix(c.domain.labels, h)
                                                        /\ IsPrefix(c.domain.labels, c.setBy))
            /\ c.secure => c.https /\ https

\* A saved session sends the same cookies after it is loaded: what HostOnly
\* meant is found again in the domain of every cookie that has one.
LoadSendsSame ==
    \A h \in CookieHosts, p \in CookiePaths, https \in BOOLEAN :
        LET scoped(cookies) == {[c EXCEPT !.hostOnly = FALSE] :
                                c \in {d \in Get(cookies, h, p, https) : d.domain # Global}}
        IN  scoped(Import(Export(jar))) = scoped(jar)

\* The jar sends a cookie only where its server could, and of the cookies that have a
\* domain the same ones before and after a Save and Load; Import loses the domainless
\* ones, which a caller set by hand (cookie_jar.go:143-169, 346-484).
JarSound == CookieConfined /\ LoadSendsSame
=============================================================================
