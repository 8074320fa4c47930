------------------------------- MODULE Router -------------------------------
(***************************************************************************)
(* router.Router and its CircuitBreaker: requests resolve a route into the *)
(* targets whose breaker allows them and the policy permits, call the      *)
(* first, and record what came of it, in any order.                        *)
(***************************************************************************)
EXTENDS Naturals, Sequences, FiniteSets

CONSTANTS
    Name,           \* providers
    RouterThread,   \* requests
    Threshold,      \* failures that open a breaker
    Cooldown,       \* how long it stays open after the last of them
    MaxClock,       \* bound on the clock
    MaxResults,     \* bound on the results recorded
    Nobody          \* no target

ASSUME RouterConstants ==
    /\ {Threshold, Cooldown, MaxClock, MaxResults} \subseteq Nat
    /\ Threshold > 0 /\ Nobody \notin Name

VARIABLES
    failures,   \* failures of each provider, deleted by a success
    lastFailure,
    clock,
    calling,    \* the provider each request calls
    results     \* history: every result recorded, in order

routerVars == <<failures, lastFailure, clock, calling, results>>

RouterInit ==
    /\ failures = [p \in Name |-> 0]
    /\ lastFailure = [p \in Name |-> 0]
    /\ clock = 1
    /\ calling = [t \in RouterThread |-> Nobody]
    /\ results = <<>>

\* CircuitBreaker.Allow.
Allow(p) ==
    \/ failures[p] < Threshold
    \/ clock - lastFailure[p] > Cooldown

\* ResolveResolution of a route, then a call of the first target.  Nothing is
\* resolved when every target is broken or denied.
ResolveRoute(t, route, denied) ==
    LET candidates == {i \in DOMAIN route : Allow(route[i]) /\ route[i] \notin denied}
    IN /\ calling[t] = Nobody
       /\ \E first \in candidates :
            /\ \A i \in candidates : first <= i
            /\ calling' = [calling EXCEPT ![t] = route[first]]
       /\ UNCHANGED <<failures, lastFailure, clock, results>>

\* A target named directly asks the policy only, whatever its breaker.
ResolveDirect(t, p, denied) ==
    /\ calling[t] = Nobody /\ p \notin denied
    /\ calling' = [calling EXCEPT ![t] = p]
    /\ UNCHANGED <<failures, lastFailure, clock, results>>

\* Mutant: a success leaves the failures before it.
RecordSuccessKeeps(p) == UNCHANGED <<failures, lastFailure>>

RecordSuccess(p) ==
    /\ failures' = [failures EXCEPT ![p] = 0]
    /\ lastFailure' = [lastFailure EXCEPT ![p] = 0]

RecordFailure(p) ==
    /\ failures' = [failures EXCEPT ![p] = @ + 1]
    /\ lastFailure' = [lastFailure EXCEPT ![p] = clock]

\* RecordResult: late or early, in whatever order the calls end.
RecordResult(t, ok) ==
    LET p == calling[t]
    IN /\ p # Nobody /\ Len(results) < MaxResults
       /\ IF ok THEN RecordSuccess(p) ELSE RecordFailure(p)
       /\ calling' = [calling EXCEPT ![t] = Nobody]
       /\ results' = Append(results, [provider |-> p, ok |-> ok, at |-> clock])
       /\ UNCHANGED clock

ClockTick ==
    /\ clock < MaxClock
    /\ clock' = clock + 1
    /\ UNCHANGED <<failures, lastFailure, calling, results>>

RouterNext ==
    \/ \E t \in RouterThread, denied \in SUBSET Name :
        \/ \E route \in [1..2 -> Name] : ResolveRoute(t, route, denied)
        \/ \E p \in Name : ResolveDirect(t, p, denied)
    \/ \E t \in RouterThread, ok \in BOOLEAN : RecordResult(t, ok)
    \/ ClockTick

RouterSpec == RouterInit /\ [][RouterNext]_routerVars

----------------------------------------------------------------------------
\* The failures any request recorded for a provider since its last success.
Streak(p) ==
    LET own == {i \in 1..Len(results) : results[i].provider = p}
    IN {i \in own : \A j \in own : i <= j => ~results[j].ok}

\* The breaker refuses a provider exactly when the last Threshold results any
\* request recorded for it, in the order they came, are failures and the last
\* is no more than the cooldown ago: late results of calls that began before
\* the breaker opened, and probes let through together, never part it from that.
BreakerExact ==
    \A p \in Name :
        ~Allow(p) <=>
            /\ Cardinality(Streak(p)) >= Threshold
            /\ \A last \in Streak(p) :
                  (\A i \in Streak(p) : i <= last) => clock - results[last].at <= Cooldown
=============================================================================
