-------------------------- MODULE MCChatSession --------------------------
(***************************************************************************)
(* ChatSession on three messages, one of which may be a command, and the   *)
(* fewest entries with which the router can replace one.                   *)
(***************************************************************************)
EXTENDS ChatSession, TLC

=============================================================================
