--------------------------- MODULE MCProgressFeed ---------------------------
EXTENDS ProgressFeed

Offer(kind, status, text) == [kind |-> kind, status |-> status, text |-> text]

\* Progress, a question and the final answer of the run, progress of one child and a
\* failure of another, with texts that coincide.
MCOffers ==
    [p \in Producers |->
        CASE p = 0 -> {Offer("assistant.status", Nothing, "a"), Offer("assistant.final", Nothing, "a"),
                       Offer("run.waiting_human", Nothing, "a")}
          [] p = 1 -> {Offer("tool.started", Nothing, "a")}
          [] OTHER -> {Offer("run.finished", "timeout", "a")}]

=============================================================================
