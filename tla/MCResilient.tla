---------------------------- MODULE MCResilient ----------------------------
(***************************************************************************)
(* An instance of Resilient for TLC.                                       *)
(***************************************************************************)
EXTENDS Resilient, TLC

CONSTANTS standard, billing

Error(retryable, failover, circuit, answered, retryAfter, class, status) ==
    [own |-> [retryable |-> retryable, failover |-> failover, circuit |-> circuit,
              answered |-> answered, retryAfter |-> retryAfter, class |-> class],
     status |-> status]

\* A 503, a 429 with a Retry-After, a failed payment, and a connection that
\* was lost before a status.
FewFailures ==
    {Error(TRUE, TRUE, TRUE, TRUE, 0, standard, "transient"),
     Error(TRUE, TRUE, FALSE, TRUE, 1, standard, "transient"),
     Error(FALSE, TRUE, FALSE, TRUE, 0, billing, "refusal"),
     Error(TRUE, TRUE, FALSE, FALSE, 0, billing, "none")}

\* A circuit that opens at the first failure, longer for billing.
Breaking == [threshold |-> 1, window |-> 1, ignore |-> FALSE, grows |-> TRUE,
             open |-> [c \in Class |-> IF c = billing THEN 2 ELSE 1]]

\* A product that breaks no circuits and ignores Retry-After.
Ignoring == [Breaking EXCEPT !.threshold = 0, !.ignore = TRUE]

TwoPolicies == {Breaking, Ignoring}

Symmetric == Permutations(Thread)
============================================================================
