------------------------------ MODULE TLSCache ------------------------------
(***************************************************************************)
(* transport/tls_cache.go: PersistableSessionCache, the cache of TLS       *)
(* session tickets of a transport, and the backend several caches may      *)
(* share.  Get and Put run under c.mu; Put and the removal of a ticket     *)
(* write the backend in a goroutine of their own, after c.mu is released.  *)
(* The cache may be saved and loaded into that of a new session.           *)
(***************************************************************************)
EXTENDS Naturals, FiniteSets, SequencesExt

CONSTANTS
    Caches,        \* caches that use the same backend, preset and protocol
    TicketKeys,    \* "host:port"
    Identifiers,   \* session identifiers that isolate caches in the backend
    CacheMaxSize,  \* TLSSessionCacheMaxSize
    BackendFails,  \* whether a write to the backend may fail
    MaxTickets,    \* bound on the tickets issued
    MaxMoves       \* bound on Clear, save and load, and changes of the identifier

ASSUME TLSCacheConstants ==
    /\ {CacheMaxSize, MaxTickets, MaxMoves} \subseteq Nat /\ BackendFails \in BOOLEAN
    /\ Identifiers # {}

VARIABLES
    tickets,      \* c.sessions: for each cache and key a ticket, 0 for none
    accessOrder,  \* least recently used first
    identifier,   \* c.sessionId
    backend,      \* the ticket stored for each identifier and key, 0 for none
    writers,      \* goroutines that are yet to write the backend
    issued,       \* tickets issued so far: they are numbered
    aged,         \* tickets older than TLSSessionMaxAge
    moves

tlsVars == <<tickets, accessOrder, identifier, backend, writers, issued, aged, moves>>

Ticket == 1..issued

TLSInit ==
    /\ tickets = [c \in Caches |-> [k \in TicketKeys |-> 0]]
    /\ accessOrder = [c \in Caches |-> <<>>]
    /\ identifier = [c \in Caches |-> CHOOSE i \in Identifiers : TRUE]
    /\ backend = [i \in Identifiers |-> [k \in TicketKeys |-> 0]]
    /\ writers = {} /\ issued = 0 /\ aged = {} /\ moves = 0

\* The type invariant.
TLSTypeOK ==
    /\ tickets \in [Caches -> [TicketKeys -> Ticket \cup {0}]]
    /\ accessOrder \in [Caches -> Seq(TicketKeys)]
    /\ identifier \in [Caches -> Identifiers]
    /\ backend \in [Identifiers -> [TicketKeys -> Ticket \cup {0}]]
    /\ \A w \in writers : w.cache \in Caches /\ w.key \in TicketKeys /\ w.ticket \in Ticket \cup {0}
    /\ aged \subseteq Ticket
    /\ issued \in 0..MaxTickets /\ moves \in 0..MaxMoves

-----------------------------------------------------------------------------
(* The local cache.                                                        *)

Held(local) == {k \in TicketKeys : local[k] # 0}

\* The keys of the n entries used longest ago.
Oldest(order, n) == {order[i] : i \in 1..n}

\* evictIfNeeded goes round until the size is within the limit or no key is left
\* in the order.
Rounds(local, order) ==
    Min({n \in 0..Len(order) : n = Len(order)
                 \/ Cardinality(Held(local) \ Oldest(order, n)) <= CacheMaxSize})

EvictIfNeeded(local, order) ==
    LET n == Rounds(local, order)
    IN  [local |-> [k \in TicketKeys |-> IF k \in Oldest(order, n) THEN 0 ELSE local[k]],
         order |-> SubSeq(order, n + 1, Len(order))]

\* Mutant of MoveToEnd: a key that was used is appended and its old place kept.
AppendToEnd(order, k) == Append(order, k)

\* A key that is not in the order is not put there.
MoveToEnd(order, k) ==
    IF k \in ToSet(order) THEN Append(RemoveFirst(order, k), k) ELSE order

\* A key enters the cache: Put makes room before, which lets the cache hold one
\* more than its limit; a ticket promoted from the backend makes room after.
Inserted(c, k, t, roomFirst) ==
    LET before == IF roomFirst THEN EvictIfNeeded(tickets[c], accessOrder[c])
                  ELSE [local |-> tickets[c], order |-> accessOrder[c]]
        with == [local |-> [before.local EXCEPT ![k] = t], order |-> Append(before.order, k)]
    IN  IF roomFirst THEN with ELSE EvictIfNeeded(with.local, with.order)

SetCache(c, new) ==
    /\ tickets' = [tickets EXCEPT ![c] = new.local]
    /\ accessOrder' = [accessOrder EXCEPT ![c] = new.order]

-----------------------------------------------------------------------------
(* The TLS stack's calls.                                                  *)

Writer(op, c, k, t) == [op |-> op, cache |-> c, key |-> k, ticket |-> t]

\* Put with the ticket a server has just issued.
PutTicket(c, k) ==
    LET t == issued + 1
    IN  /\ t <= MaxTickets
        /\ issued' = t
        /\ IF tickets[c][k] # 0
           THEN SetCache(c, [local |-> [tickets[c] EXCEPT ![k] = t],
                             order |-> MoveToEnd(accessOrder[c], k)])
           ELSE SetCache(c, Inserted(c, k, t, TRUE))
        /\ writers' = writers \cup {Writer("put", c, k, t)}
        /\ UNCHANGED <<identifier, backend, aged, moves>>

\* Put with nil, deleteLocked: the ticket is not usable any more.  The backend is
\* told whether the cache held it or not.
PutNil(c, k) ==
    /\ IF tickets[c][k] # 0
       THEN SetCache(c, [local |-> [tickets[c] EXCEPT ![k] = 0],
                         order |-> RemoveFirst(accessOrder[c], k)])
       ELSE UNCHANGED <<tickets, accessOrder>>
    /\ writers' = writers \cup {Writer("delete", c, k, 0)}
    /\ UNCHANGED <<identifier, backend, issued, aged, moves>>

\* Get finds the key in the cache.
GetLocal(c, k) ==
    /\ tickets[c][k] # 0
    /\ SetCache(c, [local |-> tickets[c], order |-> MoveToEnd(accessOrder[c], k)])
    /\ UNCHANGED <<identifier, backend, writers, issued, aged, moves>>

\* What the backend has under FormatSessionCacheKeyWithID.
Stored(c, k) == backend[identifier[c]][k]

\* getFromBackend: a ticket that is not too old is promoted to the cache.
GetFromBackend(c, k) ==
    /\ tickets[c][k] = 0
    /\ Stored(c, k) \notin aged \cup {0}
    /\ SetCache(c, Inserted(c, k, Stored(c, k), FALSE))
    /\ UNCHANGED <<identifier, backend, writers, issued, aged, moves>>

\* The backend may fail: the error is reported and forgotten.
WriteBackend(c, k, t) ==
    \/ backend' = [backend EXCEPT ![identifier[c]][k] = t]
    \/ BackendFails /\ UNCHANGED backend

\* The goroutines of Put and of deleteLocked: the key of the backend is made
\* with the identifier of that moment.
PutToBackend(w) ==
    /\ w.op = "put" /\ writers' = writers \ {w}
    /\ WriteBackend(w.cache, w.key, w.ticket)
    /\ UNCHANGED <<tickets, accessOrder, identifier, issued, aged, moves>>

DeleteFromBackend(w) ==
    /\ w.op = "delete" /\ writers' = writers \ {w}
    /\ WriteBackend(w.cache, w.key, 0)
    /\ UNCHANGED <<tickets, accessOrder, identifier, issued, aged, moves>>

-----------------------------------------------------------------------------
(* Everything else.                                                        *)

MoveTicket == moves < MaxMoves /\ moves' = moves + 1

SetSessionIdentifier(c, i) ==
    /\ MoveTicket /\ identifier' = [identifier EXCEPT ![c] = i]
    /\ UNCHANGED <<tickets, accessOrder, backend, writers, issued, aged>>

ClearCacheOf(c) ==
    /\ MoveTicket
    /\ SetCache(c, [local |-> [k \in TicketKeys |-> 0], order |-> <<>>])
    /\ UNCHANGED <<identifier, backend, writers, issued, aged>>

\* Export: every ticket held, in no order.
ExportTickets(c) == tickets[c]

\* Import into the cache of a new session: tickets that are too old are skipped
\* and the rest arrives in any order (a map is ranged over).
ImportTickets(file) ==
    LET kept == {k \in Held(file) : file[k] \notin aged}
        local == [k \in TicketKeys |-> IF k \in kept THEN file[k] ELSE 0]
    IN  {EvictIfNeeded(local, order) : order \in SetToSeqs(kept)}

\* exportTLSSessions and importTLSSessions, in Save and Load.
SaveAndLoadTickets(c) ==
    /\ MoveTicket
    /\ \E new \in ImportTickets(ExportTickets(c)) : SetCache(c, new)
    /\ UNCHANGED <<identifier, backend, writers, issued, aged>>

\* TLSSessionMaxAge passes.
Age(t) ==
    /\ t \in Ticket \ aged /\ aged' = aged \cup {t}
    /\ UNCHANGED <<tickets, accessOrder, identifier, backend, writers, issued, moves>>

TLSNext ==
    \/ \E c \in Caches, k \in TicketKeys :
          PutTicket(c, k) \/ PutNil(c, k) \/ GetLocal(c, k) \/ GetFromBackend(c, k)
    \/ \E w \in writers : PutToBackend(w) \/ DeleteFromBackend(w)
    \/ \E c \in Caches : \/ ClearCacheOf(c) \/ SaveAndLoadTickets(c)
                         \/ \E i \in Identifiers : SetSessionIdentifier(c, i)
    \/ \E t \in Ticket : Age(t)

TLSSpec == TLSInit /\ [][TLSNext]_tlsVars

-----------------------------------------------------------------------------
(* Properties.                                                             *)

\* Eviction reads accessOrder and removes from sessions (tls_cache.go:349-355):
\* it finds the least recently used ticket, and the size stays bounded, only
\* while the two hold the same keys once each, over every mix of Put, Get,
\* promotion from the backend, removal and Import.
OrderMatchesCache ==
    \A c \in Caches :
        /\ IsInjective(accessOrder[c]) /\ ToSet(accessOrder[c]) = Held(tickets[c])
        /\ Len(accessOrder[c]) <= CacheMaxSize + 1
=============================================================================
