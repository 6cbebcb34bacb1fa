--------------------------- MODULE MCFlowKernel ---------------------------
(***************************************************************************)
(* FlowKernel on two small definitions.                                    *)
(***************************************************************************)
EXTENDS FlowKernel, TLC

CONSTANTS draft, gate, publish, report, merge, ok, bad

When(of, is, next) == [of |-> of, is |-> is, next |-> next]

Step(executor, options, branches, onSuccess) ==
    [executor |-> executor, options |-> options, branches |-> branches,
     onSuccess |-> onSuccess, onFailure |-> None, maxAttempts |-> 0, onExhausted |-> None]

\* Approval by branches, a retry with a way out, a decision over the output of
\* an earlier step, and a failure route.
GatedFlow ==
    (draft   :> [Step("agent", {}, <<>>, gate) EXCEPT !.maxAttempts = 2,
                                                      !.onExhausted = report])
 @@ (gate    :> Step("human_approval", {"approve", "reject", "cancel"},
                     <<When(gate, "approve", merge), When(gate, "reject", report)>>, None))
 @@ (merge   :> Step("decision", {}, <<When(draft, ok, publish), When(draft, bad, report)>>,
                     None))
 @@ (publish :> [Step("agent", {}, <<>>, None) EXCEPT !.onFailure = report])
 @@ (report  :> Step("decision", {}, <<>>, None))

\* docs/examples/flows/release-review, up to its first gate.
ReviseFlow ==
    (draft   :> Step("agent", {}, <<>>, gate))
 @@ (gate    :> Step("human_approval", {"approve", "revise"},
                     <<When(gate, "approve", publish), When(gate, "revise", draft)>>, None))
 @@ (publish :> Step("agent", {}, <<>>, None))

GatedSteps  == {draft, gate, merge, publish, report}
ReviseSteps == {draft, gate, publish}

=============================================================================
