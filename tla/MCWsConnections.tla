-------------------------- MODULE MCWsConnections --------------------------
(***************************************************************************)
(* WsConnections with two messages in one chat.                            *)
(***************************************************************************)
EXTENDS WsConnections, TLC

CONSTANTS k1, k2, m1, m2

\* Every client spells its chat in lower case.
MCLower == k1 :> k1

\* k1 is k2 with capitals.
MCMixed == (k1 :> k2) @@ (k2 :> k2)

MCOneChat == (m1 :> k1) @@ (m2 :> k1)

=============================================================================
