-------------------------- MODULE MCProtocolSelect --------------------------
(***************************************************************************)
(* ProtocolSelect for TLC.                                                 *)
(***************************************************************************)
EXTENDS ProtocolSelect

\* Every request goes to the same host: hosts share no state but the settings.
MCOneHost == [r \in Requests |-> CHOOSE h \in Hosts : TRUE]
=============================================================================
