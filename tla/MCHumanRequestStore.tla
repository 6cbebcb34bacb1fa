----------------------- MODULE MCHumanRequestStore -----------------------
(***************************************************************************)
(* HumanRequestStore on two requests.  The answers are chosen so that each *)
(* field the store compares tells two of them apart: two senders, an       *)
(* answer to the delivered message and one to none, an idempotency key     *)
(* shared by two different answers.                                        *)
(***************************************************************************)
EXTENDS HumanRequestStore, TLC

CONSTANTS r1, r2, k1, alice, bob, m1, yes, no, i1

MCAnswers == {[sender |-> alice, msg |-> m1,   content |-> yes, key |-> i1],
              [sender |-> alice, msg |-> None, content |-> no,  key |-> i1],
              [sender |-> bob,   msg |-> None, content |-> no,  key |-> None]}

MCAsks == {[key |-> k1,   sender |-> alice, expires |-> TRUE,  deliver |-> TRUE],
           [key |-> None, sender |-> None,  expires |-> FALSE, deliver |-> FALSE]}

Symmetry == Permutations(Requests)
=============================================================================
