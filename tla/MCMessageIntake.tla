-------------------------- MODULE MCMessageIntake --------------------------
(***************************************************************************)
(* MessageIntake on a group chat: a message nobody addressed, one for the  *)
(* agent, and a stranger who says /bind, to the agent and to nobody.       *)
(***************************************************************************)
EXTENDS MessageIntake, TLC

CONSTANTS said, asked, bind, stray

MCInbound ==
    [m \in Messages |-> [group |-> TRUE, addressed |-> m \in {asked, bind},
                         allowed |-> m \in {said, asked}, bind |-> m \in {bind, stray}]]

Symmetry == Permutations(Workers)

=============================================================================
