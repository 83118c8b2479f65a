----------------------------- MODULE MCHostPool -----------------------------
(***************************************************************************)
(* HostPool for TLC.                                                       *)
(***************************************************************************)
EXTENDS HostPool, TLC

\* Every caller addresses the same key.
MCOneKey == [r \in Requests |-> CHOOSE k \in Keys : TRUE]

\* Callers, connections and HostPool objects are interchangeable.
Symmetric == Permutations(Requests) \cup Permutations(Conns) \cup Permutations(Pools)
=============================================================================
