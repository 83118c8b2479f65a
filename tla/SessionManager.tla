--------------------------- MODULE SessionManager ---------------------------
(***************************************************************************)
(* session/manager.go: the registry of sessions with its idle sweep.       *)
(* Workers look a session up and run requests on it; a request updates     *)
(* LastUsed when it passes the session's gate, at its start and at each    *)
(* redirect hop, and at no other time.                                     *)
(***************************************************************************)
EXTENDS Naturals, FiniteSets

CONSTANTS
    Ids,
    Workers,
    MaxSessions,
    NoId

ASSUME ManagerConstants == MaxSessions \in Nat \ {0} /\ NoId \notin Ids

VARIABLES
    registry,      \* m.sessions
    alive,         \* the sessions that are active
    lapsed,        \* the sessions whose LastUsed is more than sessionTimeout ago
    used,          \* the ids handed out so far
    holds,         \* the session each worker got from GetSession
    busy,          \* the workers with a request past the gate
    shut           \* Shutdown has run: the cleanup loop is gone

managerVars == <<registry, alive, lapsed, used, holds, busy, shut>>

ManagerInit ==
    /\ registry = {} /\ alive = {} /\ lapsed = {} /\ used = {}
    /\ holds = [w \in Workers |-> NoId] /\ busy = {} /\ shut = FALSE

\* The type invariant.
ManagerTypeOK ==
    /\ registry \subseteq used /\ alive \subseteq used /\ used \subseteq Ids
    /\ lapsed \subseteq used
    /\ holds \in [Workers -> used \cup {NoId}]
    /\ busy \subseteq {w \in Workers : holds[w] # NoId} /\ shut \in BOOLEAN

Room == Cardinality(registry) < MaxSessions

CreateSession(i) ==
    /\ i \notin used /\ Room
    /\ registry' = registry \cup {i} /\ alive' = alive \cup {i} /\ used' = used \cup {i}
    /\ UNCHANGED <<lapsed, holds, busy, shut>>

GetSession(w, i) ==
    /\ holds[w] = NoId /\ i \in registry \cap alive
    /\ holds' = [holds EXCEPT ![w] = i]
    /\ UNCHANGED <<registry, alive, lapsed, used, busy, shut>>

\* A request passes the gate, for its first hop or a later one, or is refused.
PassGate(w) ==
    /\ holds[w] # NoId
    /\ IF holds[w] \in alive
       THEN busy' = busy \cup {w} /\ lapsed' = lapsed \ {holds[w]} /\ UNCHANGED holds
       ELSE busy' = busy \ {w} /\ holds' = [holds EXCEPT ![w] = NoId] /\ UNCHANGED lapsed
    /\ UNCHANGED <<registry, alive, used, shut>>

\* The answer and its body are complete; the worker drops its session.
FinishRequest(w) ==
    /\ w \in busy
    /\ busy' = busy \ {w} /\ holds' = [holds EXCEPT ![w] = NoId]
    /\ UNCHANGED <<registry, alive, lapsed, used, shut>>

\* sessionTimeout passes since LastUsed.
Lapse(i) ==
    /\ i \in used \ lapsed
    /\ lapsed' = lapsed \cup {i}
    /\ UNCHANGED <<registry, alive, used, holds, busy, shut>>

\* CloseSession, and Session.Close called by a worker that holds the session.
CloseSession(i) ==
    /\ i \in registry
    /\ alive' = alive \ {i} /\ registry' \in {registry \ {i}, registry}
    /\ UNCHANGED <<lapsed, used, holds, busy, shut>>

\* Mutant of Swept: an expired session is forgotten without being closed.
SweptUnclosed(expired) == alive

Swept(expired) == alive \ expired

\* cleanupExpiredSessions, run by the loop until Shutdown.
CleanupExpiredSessions ==
    LET expired == registry \cap lapsed
    IN  /\ ~shut /\ expired # {}
        /\ registry' = registry \ expired /\ alive' = Swept(expired)
        /\ UNCHANGED <<lapsed, used, holds, busy, shut>>

\* Shutdown: a second call would panic and is not made.
Shutdown ==
    /\ ~shut /\ shut' = TRUE
    /\ alive' = alive \ registry /\ registry' = {}
    /\ UNCHANGED <<lapsed, used, holds, busy>>

ManagerNext ==
    \/ \E i \in Ids : CreateSession(i) \/ Lapse(i) \/ CloseSession(i)
    \/ \E w \in Workers : PassGate(w) \/ FinishRequest(w) \/ \E i \in Ids : GetSession(w, i)
    \/ CleanupExpiredSessions \/ Shutdown

ManagerSpec == ManagerInit /\ [][ManagerNext]_managerVars

-----------------------------------------------------------------------------
(* Properties.                                                             *)

\* A session that left the registry has been closed, whichever of sweep, close
\* and shutdown took it out and in whatever order, and the registry never
\* exceeds maxSessions (manager.go:48, 139-141, 151-155).
NoSessionLeaked == alive \subseteq registry /\ Cardinality(registry) <= MaxSessions
=============================================================================
