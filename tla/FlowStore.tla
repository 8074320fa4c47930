----------------------------- MODULE FlowStore -----------------------------
(***************************************************************************)
(* oauthflow.MemoryFlowStore, the reference FlowStore: flows owned by the  *)
(* caller that started them, consumed at most once, found by their OAuth   *)
(* state, capped per caller, and purged lazily after they expire.          *)
(*                                                                         *)
(* Each operation runs under the store's mutex and is one step here.  An   *)
(* operation that returns an error may still have purged or wiped what     *)
(* expired, as ownedLocked and purgeLocked do.                             *)
(***************************************************************************)
EXTENDS Naturals, FiniteSets

CONSTANTS
    Id,             \* flow ids NewID may return
    Caller,         \* callers
    State,          \* OAuth states a driver may choose
    MaxFlows,       \* MaxFlowsPerCaller, 0 for no cap
    Retention,      \* ExpiredRetention
    MaxTime,        \* bound on the clock
    None            \* no flow, no state

ASSUME StoreConstants ==
    /\ None \notin Id /\ None \notin Caller /\ None \notin State
    /\ IsFiniteSet(Id)
    /\ MaxFlows \in Nat
    /\ Retention \in Nat \ {0}
    /\ MaxTime \in Nat

VARIABLES
    flows,      \* the entry of each id, or None
    states,     \* the state index: the id of each state, or None
    revision,   \* the last revision given
    sequence,   \* the last insertion number given
    now         \* the clock the store and the Service share

store == <<flows, states, revision, sequence>>

----------------------------------------------------------------------------
Methods == {"browser", "device", "manual"}

Outcomes == {"", "complete", "failed", "expired"}

\* A memoryEntry and its Flow.  secret: the flow still holds its Secrets,
\* of which state is the one the store and the Service compare.
Entry == [owner : Caller, method : Methods, created : Nat, expires : Nat,
          sequence : Nat, revision : Nat, consumed : BOOLEAN, secret : BOOLEAN,
          state : State \cup {None}, indexed : BOOLEAN,
          interval : Nat, nextPoll : Nat, outcome : Outcomes]

\* The value that stands for no flow is not a flow.
ASSUME NoneIsNoEntry == None \notin Entry

Stored(f) == flows[f] # None

Expired(e) == now >= e.expires

\* An expired flow past its retention.
Lapsed(e) == now >= e.expires + Retention

Pending(e) == ~e.consumed /\ ~Expired(e)

StoreInit ==
    /\ flows = [f \in Id |-> None]
    /\ states = [s \in State |-> None]
    /\ revision = 0
    /\ sequence = 0
    /\ now = 1

\* deleteLocked of every flow in gone, in the state index.
Unindex(gone) ==
    [s \in State |-> IF states[s] \in gone THEN None ELSE states[s]]

----------------------------------------------------------------------------
(* ownedLocked: what caller c learns of flow f, and what the look changes. *)

\* Mutant: the owner is not compared.
VerdictForAnyone(c, f) ==
    IF ~Stored(f) THEN "not_found"
    ELSE IF ~Expired(flows[f]) THEN "ok"
    ELSE IF Lapsed(flows[f]) THEN "not_found" ELSE "expired"

Verdict(c, f) ==
    IF ~Stored(f) \/ flows[f].owner # c THEN "not_found"
    ELSE IF ~Expired(flows[f]) THEN "ok"
    ELSE IF Lapsed(flows[f]) THEN "not_found" ELSE "expired"

\* Mutant: a lapsed flow is deleted and stays in the state index.
LookForgetsIndex(c, f) ==
    LET mine == Stored(f) /\ flows[f].owner = c
        gone == IF mine /\ Lapsed(flows[f]) THEN {f} ELSE {}
    IN  /\ flows' = [g \in Id |->
               IF g \in gone THEN None
               ELSE IF g = f /\ mine /\ Expired(flows[f]) THEN [flows[g] EXCEPT !.secret = FALSE]
               ELSE flows[g]]
        /\ states' = states

\* A lapsed flow is deleted; an expired one loses its secrets.
Look(c, f) ==
    LET mine == Stored(f) /\ flows[f].owner = c
        gone == IF mine /\ Lapsed(flows[f]) THEN {f} ELSE {}
    IN  /\ flows' = [g \in Id |->
               IF g \in gone THEN None
               ELSE IF g = f /\ mine /\ Expired(flows[f]) THEN [flows[g] EXCEPT !.secret = FALSE]
               ELSE flows[g]]
        /\ states' = Unindex(gone)

\* An operation that ends with an error of ownedLocked.
Refused(c, f) ==
    /\ Verdict(c, f) # "ok"
    /\ Look(c, f)
    /\ UNCHANGED <<revision, sequence>>

----------------------------------------------------------------------------
(* Create.                                                                 *)

PendingOf(c) == {f \in Id : Stored(f) /\ flows[f].owner = c /\ Pending(flows[f])}

\* By CreatedAt and then insertion order.
Older(f, g) ==
    \/ flows[f].created < flows[g].created
    \/ flows[f].created = flows[g].created /\ flows[f].sequence < flows[g].sequence

\* Mutant: eviction stops with the cap still full.
EvictedShort(c) ==
    LET mine == PendingOf(c)
    IN  IF MaxFlows = 0 THEN {}
        ELSE {f \in mine : Cardinality({g \in mine : Older(g, f)}) + MaxFlows + 1
                             <= Cardinality(mine)}

\* evictLocked: the oldest pending flows, until one more fits under the cap.
Evicted(c) ==
    LET mine == PendingOf(c)
    IN  IF MaxFlows = 0 THEN {}
        ELSE {f \in mine : Cardinality({g \in mine : Older(g, f)}) + MaxFlows
                             <= Cardinality(mine)}

\* purgeLocked: the lapsed flows, deleted; the other expired ones, wiped.
LapsedFlows == {f \in Id : Stored(f) /\ Lapsed(flows[f])}

Purged(f) == IF Stored(f) /\ Expired(flows[f]) THEN [flows[f] EXCEPT !.secret = FALSE]
             ELSE flows[f]

\* The id or the state is taken, once the lapsed flows are gone.
Taken(f, s) ==
    \/ Stored(f) /\ f \notin LapsedFlows
    \/ s # None /\ states[s] # None /\ states[s] \notin LapsedFlows

\* Create of entry e as flow f: ErrFlowExists, or the entry after an eviction.
CreateExists(f, e) ==
    /\ Taken(f, e.state)
    /\ flows' = [g \in Id |-> IF g \in LapsedFlows THEN None ELSE Purged(g)]
    /\ states' = Unindex(LapsedFlows)
    /\ UNCHANGED <<revision, sequence>>

Create(f, e) ==
    LET gone == LapsedFlows \cup Evicted(e.owner)
    IN  /\ ~Taken(f, e.state)
        /\ flows' = [g \in Id |->
               IF g = f THEN [e EXCEPT !.sequence = sequence + 1, !.revision = revision + 1]
               ELSE IF g \in gone THEN None ELSE Purged(g)]
        /\ states' = [s \in State |-> IF s = e.state THEN f ELSE Unindex(gone)[s]]
        /\ sequence' = sequence + 1
        /\ revision' = revision + 1

----------------------------------------------------------------------------
(* Consume, Update and ResolveState.                                       *)

\* Mutant: consuming leaves the revision.
SpentQuietly(f) == [flows[f] EXCEPT !.consumed = TRUE, !.indexed = FALSE]

\* The flow Consume returns: with its secrets and a new revision.
Spent(f) == [flows[f] EXCEPT !.consumed = TRUE, !.revision = revision + 1,
                             !.indexed = FALSE]

\* Mutant: a consumed flow is consumed again.
MayConsumeAgain(c, f) == Verdict(c, f) = "ok"

MayConsume(c, f) == Verdict(c, f) = "ok" /\ ~flows[f].consumed

Consume(c, f) ==
    /\ MayConsume(c, f)
    /\ flows' = [flows EXCEPT ![f] = [Spent(f) EXCEPT !.secret = FALSE]]
    /\ states' = IF flows[f].indexed THEN Unindex({f}) ELSE states
    /\ revision' = revision + 1
    /\ UNCHANGED sequence

\* Mutant: the revision an update expects is not compared.
MayUpdateStale(c, f, expected) == Verdict(c, f) = "ok"

MayUpdate(c, f, expected) == Verdict(c, f) = "ok" /\ flows[f].revision = expected

\* The entry after an update of its progress.
Progressed(f, interval, nextPoll, outcome) ==
    [flows[f] EXCEPT !.interval = interval, !.nextPoll = nextPoll,
                     !.outcome = outcome, !.revision = revision + 1]

Update(c, f, expected, interval, nextPoll, outcome) ==
    /\ MayUpdate(c, f, expected)
    /\ flows' = [flows EXCEPT ![f] = Progressed(f, interval, nextPoll, outcome)]
    /\ revision' = revision + 1
    /\ UNCHANGED <<states, sequence>>

\* The flow a state names, or None.
Resolved(s) ==
    IF states[s] # None /\ Stored(states[s]) /\ flows[states[s]].indexed
    THEN states[s] ELSE None

----------------------------------------------------------------------------
(* Properties of the store.                                                *)

\* The state index and the flows agree: a state names the stored, unconsumed
\* flow that carries it, and such a flow is found by its state until it
\* lapses.  A stale entry would let a redirect finish another flow, or block
\* a new one with ErrFlowExists.
IndexExact ==
    /\ \A s \in State : states[s] # None =>
           /\ Stored(states[s])
           /\ flows[states[s]].state = s
           /\ flows[states[s]].indexed
           /\ ~flows[states[s]].consumed
    /\ \A f \in Id : Stored(f) /\ flows[f].state # None /\ ~flows[f].consumed =>
           flows[f].indexed /\ states[flows[f].state] = f

\* A caller never has more pending flows than the cap, however Start requests
\* interleave.
PendingCap == MaxFlows # 0 => \A c \in Caller : Cardinality(PendingOf(c)) <= MaxFlows
============================================================================
