-------------------------- MODULE MCOwnerBind --------------------------
(***************************************************************************)
(* OwnerBind on an entrypoint with a configured owner and one without.     *)
(***************************************************************************)
EXTENDS OwnerBind, TLC

CONSTANTS e1, e2, s1

\* The calls of notify_owner are alike.
CallSymmetry == Permutations(Calls)

MCStaticOwner == (e1 :> s1) @@ (e2 :> Nobody)

=============================================================================
