---------------------------- MODULE MCHTTP2Pool ----------------------------
(***************************************************************************)
(* HTTP2Pool for TLC.                                                      *)
(***************************************************************************)
EXTENDS HTTP2Pool, TLC

\* Every caller addresses the same key.
MCOneKey == [r \in Requests |-> CHOOSE k \in Keys : TRUE]

\* Callers of the same kind, and connections, are interchangeable.
Symmetric ==
    Permutations(Probes) \cup Permutations(Requests \ Probes) \cup Permutations(Conns)
=============================================================================
