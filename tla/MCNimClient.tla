----------------------------- MODULE MCNimClient -----------------------------
(***************************************************************************)
(* Small instances of NimClient.                                           *)
(***************************************************************************)
EXTENDS NimClient

Shared == [c \in Calls |-> CHOOSE k \in Clients : TRUE]
==============================================================================
