------------------------------ MODULE DNSCache ------------------------------
(***************************************************************************)
(* dns/cache.go: the address cache of a transport (Resolve) and the        *)
(* process-wide cache of ECH configs (FetchECHConfigs).  Both answer from  *)
(* a fresh entry, else join or start a shared lookup of the name, and each *)
(* caller waits for it on its own context.  The lookup runs detached from  *)
(* the caller that started it.  The cache may be restricted to one address *)
(* family, and the restriction may change at any time.                     *)
(***************************************************************************)
EXTENDS Naturals, FiniteSets

CONSTANTS
    Names,      \* host names
    EchNames,   \* the names looked up through FetchECHConfigs
    Resolvers,  \* callers
    Families,   \* values of c.network: "both", "ip4", "ip6"
    MaxEvents   \* bound on changes of the family, invalidations and steps of time

ASSUME DNSConstants ==
    EchNames \subseteq Names /\ "both" \in Families /\ MaxEvents \in Nat

VARIABLES
    network,    \* c.network
    entry,      \* c.entries and echCache
    flight,     \* singleflight: the lookup of each name that is under way
    resolver,   \* the callers: state, name, and whether the context has ended
    answer,     \* what each caller got
    events

dnsVars == <<network, entry, flight, resolver, answer, events>>

\* kind "ips" (an ECH config list, for an ECH name), or "negative"; network is
\* the stamp of store; age is "fresh", "expired", or "lapsed" once the grace for
\* ECH configs is over.
NoEntry == [kind |-> "none", network |-> "both", age |-> "fresh"]
NoFlight == [pc |-> "none", stale |-> NoEntry, current |-> "both", leader |-> "none"]

DNSInit ==
    /\ network = "both"
    /\ entry = [n \in Names |-> NoEntry]
    /\ flight = [n \in Names |-> NoFlight]
    /\ resolver = [r \in Resolvers |-> [pc |-> "idle", name |-> CHOOSE n \in Names : TRUE,
                                        cancelled |-> FALSE]]
    /\ answer = [r \in Resolvers |-> "none"]
    /\ events = 0

Entries == [kind : {"none", "ips", "negative"}, network : Families,
            age : {"fresh", "expired", "lapsed"}]

\* The type invariant.
DNSTypeOK ==
    /\ network \in Families /\ entry \in [Names -> Entries]
    /\ \A n \in Names : flight[n].pc \in {"none", "check", "lookup"} /\ flight[n].stale \in Entries
    /\ \A r \in Resolvers : resolver[r].pc \in {"idle", "waiting", "done"}
    /\ answer \in [Resolvers -> {"none", "ips", "negative", "failed", "cancelled"}]
    /\ events \in 0..MaxEvents

-----------------------------------------------------------------------------
(* A caller.                                                               *)

IsEch(n) == n \in EchNames

\* An entry that answers at once.
AddressUsable(e) == e.kind # "none" /\ e.network = network /\ e.age = "fresh"
ConfigUsable(e) == e.kind # "none" /\ e.age = "fresh"
EntryUsable(n, e) == IF IsEch(n) THEN ConfigUsable(e) ELSE AddressUsable(e)

\* FetchECHConfigs turns every error into "no config".
Seen(n, ending) == IF IsEch(n) /\ ending = "failed" THEN "negative" ELSE ending

\* DoChan: the caller joins the lookup of the name, or starts it.
DoChan(r, n) ==
    /\ resolver' = [resolver EXCEPT ![r].pc = "waiting", ![r].name = n]
    /\ flight' = IF flight[n].pc # "none" THEN flight
                 ELSE [flight EXCEPT ![n] = [NoFlight EXCEPT !.pc = "check", !.leader = r]]
    /\ UNCHANGED answer

\* Resolve and FetchECHConfigs: the fast path, or the shared lookup.
Resolve(r, n) ==
    /\ resolver[r].pc = "idle"
    /\ IF EntryUsable(n, entry[n])
       THEN /\ resolver' = [resolver EXCEPT ![r].pc = "done", ![r].name = n]
            /\ answer' = [answer EXCEPT ![r] = entry[n].kind]
            /\ UNCHANGED flight
       ELSE DoChan(r, n)
    /\ UNCHANGED <<network, entry, events>>

\* The caller's own context ends while it waits.
CancelLookup(r) ==
    /\ resolver[r].pc = "waiting" /\ ~resolver[r].cancelled
    /\ resolver' = [resolver EXCEPT ![r].cancelled = TRUE]
    /\ UNCHANGED <<network, entry, flight, answer, events>>

\* The caller's select sees ctx.Done.
GiveUpLookup(r) ==
    /\ resolver[r].pc = "waiting" /\ resolver[r].cancelled
    /\ resolver' = [resolver EXCEPT ![r].pc = "done"]
    /\ answer' = [answer EXCEPT ![r] = "cancelled"]
    /\ UNCHANGED <<network, entry, flight, events>>

-----------------------------------------------------------------------------
(* The shared lookup.                                                      *)

\* The callers joined to the lookup of n.
Waiters(n) == {r \in Resolvers : resolver[r].pc = "waiting" /\ resolver[r].name = n}

\* The flight ends: its outcome goes to all that wait for it.
DeliverAnswer(n, ending) ==
    /\ flight' = [flight EXCEPT ![n] = NoFlight]
    /\ resolver' = [r \in Resolvers |->
                      IF r \in Waiters(n) THEN [resolver[r] EXCEPT !.pc = "done"] ELSE resolver[r]]
    /\ answer' = [r \in Resolvers |-> IF r \in Waiters(n) THEN Seen(n, ending) ELSE answer[r]]

\* The second look at the cache, then the question to the resolver.
FlightCheck(n) ==
    /\ flight[n].pc = "check"
    /\ IF EntryUsable(n, entry[n])
       THEN DeliverAnswer(n, entry[n].kind)
       ELSE /\ flight' = [flight EXCEPT ![n].pc = "lookup", ![n].stale = entry[n],
                                          ![n].current = network]
            /\ UNCHANGED <<resolver, answer>>
    /\ UNCHANGED <<network, entry, events>>

\* store stamps the entry with the family of that moment.
Store(n, kind) ==
    entry' = [entry EXCEPT ![n] = [kind |-> kind, network |-> network, age |-> "fresh"]]

\* echStore; a config has no family.
EchStore(n, kind) ==
    entry' = [entry EXCEPT ![n] = [kind |-> kind, network |-> "both", age |-> "fresh"]]

\* lookup and queryECHFromDNS: what they may return.
LookupOutcomes == {"ips", "empty", "notfound", "malformed", "timeout"}
QueryOutcomes == {"ips", "negative"}

\* isTransientDNSErr.
IsTransient(outcome) == outcome = "timeout"

\* The resolver answers, with addresses or with a definite failure.
LookupAnswers(n) ==
    /\ flight[n].pc = "lookup" /\ ~IsEch(n)
    /\ \E outcome \in {o \in LookupOutcomes : ~IsTransient(o)} :
          LET kind == IF outcome = "ips" THEN "ips" ELSE "negative"
          IN  Store(n, kind) /\ DeliverAnswer(n, kind)
    /\ UNCHANGED <<network, events>>

\* A DNS server answers, with or without a config: both are cached.
QueryAnswers(n) ==
    /\ flight[n].pc = "lookup" /\ IsEch(n)
    /\ \E kind \in QueryOutcomes : EchStore(n, kind) /\ DeliverAnswer(n, kind)
    /\ UNCHANGED <<network, events>>

\* A stale entry bridges a transient failure: addresses of the same family
\* without limit, ECH configs within echStaleGrace.
StaleAddress(n) == flight[n].stale.kind = "ips" /\ flight[n].stale.network = flight[n].current
StaleConfig(n) == flight[n].stale.kind # "none" /\ flight[n].stale.age # "lapsed"
StaleServes(n) == IF IsEch(n) THEN StaleConfig(n) ELSE StaleAddress(n)

\* Mutant of LookupCancelled: the lookup runs under the context of its leader.
LookupCancelledWithLeader(n) == resolver[flight[n].leader].cancelled

\* context.WithoutCancel: only the lookup's own timeout ends it.
LookupCancelled(n) == FALSE

\* A timeout, or no server that answers: nothing is cached.
LookupFails(n) ==
    /\ flight[n].pc = "lookup"
    /\ IF LookupCancelled(n) THEN DeliverAnswer(n, "cancelled")
       ELSE DeliverAnswer(n, IF StaleServes(n) THEN flight[n].stale.kind ELSE "failed")
    /\ UNCHANGED <<network, entry, events>>

-----------------------------------------------------------------------------
(* Time, invalidation and the family.                                      *)

Event == events < MaxEvents /\ events' = events + 1 /\ UNCHANGED <<resolver, answer>>

Older(age) == IF age = "fresh" THEN "expired" ELSE "lapsed"

\* A TTL, or the grace after it, runs out.
AgeName(n) ==
    /\ Event /\ entry[n].kind # "none"
    /\ entry' = [entry EXCEPT ![n].age = Older(@)]
    /\ flight' = [flight EXCEPT ![n].stale.age = Older(@)]
    /\ UNCHANGED network

Drop(n) == entry' = [entry EXCEPT ![n] = NoEntry] /\ UNCHANGED <<network, flight>>

\* Invalidate and Clear.
Invalidate(n) == Event /\ entry[n].kind # "none" /\ ~IsEch(n) /\ Drop(n)

InvalidateECHConfig(n) == Event /\ entry[n].kind # "none" /\ IsEch(n) /\ Drop(n)

\* Cleanup, and the sweep in store and echStore when the map is full.
CleanupNames(n) == Event /\ entry[n].kind # "none" /\ entry[n].age # "fresh" /\ Drop(n)

SetNetwork(f) ==
    /\ Event /\ network' = f
    /\ UNCHANGED <<entry, flight>>

DNSNext ==
    \/ \E r \in Resolvers : CancelLookup(r) \/ GiveUpLookup(r) \/ \E n \in Names : Resolve(r, n)
    \/ \E n \in Names : \/ FlightCheck(n) \/ LookupAnswers(n) \/ QueryAnswers(n) \/ LookupFails(n)
                        \/ AgeName(n) \/ Invalidate(n) \/ InvalidateECHConfig(n) \/ CleanupNames(n)
    \/ \E f \in Families : SetNetwork(f)

\* Goroutines are scheduled, resolveLookupTimeout bounds a lookup, and a select
\* with a ready case proceeds.
DNSFairness ==
    /\ \A n \in Names : WF_dnsVars(FlightCheck(n))
                          /\ WF_dnsVars(LookupAnswers(n) \/ QueryAnswers(n) \/ LookupFails(n))
    /\ \A r \in Resolvers : WF_dnsVars(GiveUpLookup(r))

DNSSpec == DNSInit /\ [][DNSNext]_dnsVars /\ DNSFairness

-----------------------------------------------------------------------------
(* Properties.                                                             *)

\* A lookup is shared, its cancellation is not (cache.go:188-210, 246-257): only
\* a caller whose own context ended is told so, whoever started the lookup.
CancelIsOwn ==
    [][\A r \in Resolvers :
          answer'[r] = "cancelled" /\ answer[r] # "cancelled" => resolver[r].cancelled]_dnsVars

\* Nobody is left waiting for a lookup, whether its starter stays or leaves.
ResolveEnds == \A r \in Resolvers : resolver[r].pc = "waiting" ~> resolver[r].pc = "done"

\* A lookup that several callers share ends for each of them, and the
\* cancellation of one of them is never the answer of another (cache.go:188-257, 657-702).
SharedLookup == CancelIsOwn /\ ResolveEnds
=============================================================================
