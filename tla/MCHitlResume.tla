--------------------------- MODULE MCHitlResume ---------------------------
(***************************************************************************)
(* HitlResume with two answers: one that lets the run go on and one that   *)
(* refuses.                                                                *)
(***************************************************************************)
EXTENDS HitlResume, TLC

CONSTANTS u1, u2, q1, q2, q3

\* Two runs that ask once each, and a crash.
Crashing == [runs |-> {u1, u2}, requests |-> {q1, q2}, chained |-> FALSE,
             patient |-> TRUE, crashes |-> 1, errors |-> 0]

\* A run whose human may answer while the turn that asks is at work, and a crash.
Hasty == [runs |-> {u1}, requests |-> {q1}, chained |-> FALSE,
          patient |-> FALSE, crashes |-> 1, errors |-> 0]

\* One run whose resumed turns ask again, while models and deliveries fail.
Chaining == [runs |-> {u1}, requests |-> {q1, q2, q3}, chained |-> TRUE,
             patient |-> TRUE, crashes |-> 0, errors |-> 1]

MCSituations == {Crashing, Hasty, Chaining}

=============================================================================
