---------------------------- MODULE MCExecution ----------------------------
(***************************************************************************)
(* Instances of Execution for TLC.                                         *)
(***************************************************************************)
EXTENDS Execution

CONSTANTS k1, k2, standard, billing

\* A provider that fails over to another.
Failover == {<<k1, k2>>}

Error(retryable, failover, circuit, answered, retryAfter, class) ==
    [retryable |-> retryable, failover |-> failover, circuit |-> circuit,
     answered |-> answered, retryAfter |-> retryAfter, class |-> class]

\* A 503: instability, worth a repeat.
Unstable == Error(TRUE, TRUE, TRUE, TRUE, 0, standard)

\* A 429 with a Retry-After.
Limited == Error(TRUE, TRUE, FALSE, TRUE, 1, standard)

\* A 400, and an error from before the request left.
Rejected == Error(FALSE, FALSE, FALSE, TRUE, 0, standard)
Misconfigured == Error(FALSE, TRUE, FALSE, FALSE, 0, standard)

RoutingErrors == {Unstable, Limited, Rejected, Misconfigured}

\* A circuit that opens at the first failure, longer for billing.
Breaking == [threshold |-> 1, window |-> 1, ignore |-> FALSE, grows |-> TRUE,
             open |-> [c \in Class |-> IF c = billing THEN 2 ELSE 1]]

\* A product that breaks no circuits and ignores Retry-After.
Ignoring == [Breaking EXCEPT !.threshold = 0, !.ignore = TRUE]

TwoPolicies == {Breaking, Ignoring}
=============================================================================
