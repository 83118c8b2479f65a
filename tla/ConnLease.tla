------------------------------ MODULE ConnLease ------------------------------
(***************************************************************************)
(* What a connection pool promises about a connection it lends out, said   *)
(* without its locks, goroutines and lists.  A connection is lent to any   *)
(* number of response bodies at once.  The pool may condemn it, which ends *)
(* it a little later, only while nobody holds it; an ordered shutdown, and *)
(* a body that made no progress for too long, are the two exceptions.  A   *)
(* retired connection is lent no more and ends with its last body.  A      *)
(* request that was handed the connection before it was condemned may still*)
(* arrive on it.                                                           *)
(***************************************************************************)
EXTENDS Naturals

CONSTANT LeaseConns

VARIABLES
    stage,       \* none, open, retired, condemned or closed
    leases,      \* response bodies that hold the connection
    ordered,     \* the owner ordered the connection closed
    abandoned    \* a body on it has made no progress for the bound

leaseVars == <<stage, leases, ordered, abandoned>>

LeaseInit ==
    /\ stage = [c \in LeaseConns |-> "none"]
    /\ leases = [c \in LeaseConns |-> 0]
    /\ ordered = [c \in LeaseConns |-> FALSE]
    /\ abandoned = [c \in LeaseConns |-> FALSE]

Moves(c, from, to) == stage[c] \in from /\ stage'[c] = to
Holds(c, n) == leases'[c] = n

Open(c) == Moves(c, {"none"}, "open") /\ Holds(c, 0)

Lend(c) == stage[c] \in {"open", "condemned"} /\ stage'[c] = stage[c] /\ Holds(c, leases[c] + 1)

\* The last body of a retired connection condemns or closes it in the same step;
\* that of a condemned one may close it before whoever was going to.
GiveBack(c) ==
    /\ leases[c] > 0 /\ Holds(c, leases[c] - 1)
    /\ IF stage[c] \in {"retired", "condemned"} /\ leases[c] = 1
       THEN stage'[c] \in {"condemned", "closed"}
       ELSE stage'[c] = stage[c]

Retire(c) == Moves(c, {"open"}, "retired") /\ leases[c] > 0 /\ Holds(c, leases[c])

Condemn(c) ==
    /\ Moves(c, {"open", "retired"}, "condemned") /\ Holds(c, leases[c])
    /\ leases[c] = 0 \/ ordered'[c] \/ abandoned[c]

End(c) == Moves(c, {"condemned"}, "closed") /\ Holds(c, leases[c])

LeaseStep(c) ==
    \/ stage'[c] = stage[c] /\ leases'[c] = leases[c]
    \/ Open(c) \/ Lend(c) \/ GiveBack(c) \/ Retire(c) \/ Condemn(c) \/ End(c)

\* The connections move independently of one another.
LeaseNext == \A c \in LeaseConns : LeaseStep(c)

LeaseSpec == LeaseInit /\ [][LeaseNext]_leaseVars
=============================================================================
