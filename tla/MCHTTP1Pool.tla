---------------------------- MODULE MCHTTP1Pool ----------------------------
(* Instances of HTTP1Pool for TLC.                                          *)
EXTENDS HTTP1Pool, TLC

CONSTANTS Handoffs  \* the callers that may be given the connection of a downgrade

MCKeyOf == [r \in Requests |-> CHOOSE k \in Keys : TRUE]

MCModes == [r \in Requests |-> {"pooled"} \cup (IF r \in Handoffs THEN {"handoff"} ELSE {})]

Symmetric == Permutations(Conns)
=============================================================================
