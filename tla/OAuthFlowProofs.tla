-------------------------- MODULE OAuthFlowProofs --------------------------
(***************************************************************************)
(* oauthflow.Service over the MemoryFlowStore, proved for any number of    *)
(* requests, callers, states and flow ids, any lifetimes and intervals,    *)
(* and a store that may fail.                                              *)
(***************************************************************************)
EXTENDS OAuthFlow, FiniteSetTheorems, TLAPS

Entries == [Id -> Entry \cup {None}]
Index == [State -> Id \cup {None}]

----------------------------------------------------------------------------
(* The operations of the store, flow by flow.                              *)

\* The same flow, but perhaps without its secrets.
SameFlow(e, d) ==
    /\ d.owner = e.owner /\ d.method = e.method /\ d.created = e.created
    /\ d.expires = e.expires /\ d.sequence = e.sequence /\ d.revision = e.revision
    /\ (d.consumed <=> e.consumed) /\ d.state = e.state /\ (d.indexed <=> e.indexed)
    /\ d.interval = e.interval /\ d.nextPoll = e.nextPoll /\ d.outcome = e.outcome

\* A step leaves flow g as it is, or leaves it absent.
Kept(g) ==
    \/ flows[g] = None /\ flows'[g] = None
    \/ Stored(g) /\ Stored(g)' /\ SameFlow(flows[g], flows'[g])

\* A step deletes the flows in gone, which have expired or were never consumed,
\* and keeps every other.
Swept(gone) ==
    /\ gone \subseteq Id /\ flows' \in Entries
    /\ \A g \in gone : Stored(g) /\ flows'[g] = None /\ (Expired(flows[g]) \/ ~flows[g].consumed)
    /\ \A g \in Id \ gone : Kept(g)
    /\ states' = Unindex(gone)

\* An entry without its secrets.
LEMMA Wiped ==
    ASSUME NEW e \in Entry
    PROVE  [e EXCEPT !.secret = FALSE] \in Entry /\ SameFlow(e, [e EXCEPT !.secret = FALSE])
BY DEF Entry, SameFlow

\* A flow that was not written is the same flow.
LEMMA SameItself == \A e : SameFlow(e, e)
BY DEF SameFlow

\* None is no entry, and an entry's fields have their types.
LEMMA EntryFields ==
    ASSUME NEW e \in Entry
    PROVE  /\ e.owner \in Caller /\ e.method \in Methods /\ e.created \in Nat /\ e.expires \in Nat
           /\ e.sequence \in Nat /\ e.revision \in Nat /\ e.consumed \in BOOLEAN
           /\ e.state \in State \cup {None} /\ e.indexed \in BOOLEAN
           /\ e.interval \in Nat /\ e.nextPoll \in Nat /\ e.outcome \in Outcomes
BY DEF Entry

\* purgeLocked keeps the flows that have not lapsed.
LEMMA PurgeKeeps ==
    ASSUME flows \in Entries, NEW g \in Id, flows'[g] = Purged(g)
    PROVE  Kept(g) /\ flows'[g] \in Entry \cup {None}
<1>1. CASE Stored(g) /\ Expired(flows[g])
  <2>1. flows[g] \in Entry BY <1>1 DEF Entries, Stored
  <2>2. flows'[g] = [flows[g] EXCEPT !.secret = FALSE] BY <1>1 DEF Purged
  <2>3. flows'[g] \in Entry /\ SameFlow(flows[g], flows'[g]) BY <2>1, <2>2, Wiped
  <2> QED BY <1>1, <2>3, NoneIsNoEntry DEF Kept, Stored
<1>2. CASE ~(Stored(g) /\ Expired(flows[g]))
    BY <1>2, SameItself DEF Purged, Kept, Stored, Entries
<1> QED BY <1>1, <1>2

\* What has lapsed has expired.
LEMMA LapsedExpired ==
    ASSUME flows \in Entries, now \in Nat
    PROVE  \A g \in LapsedFlows : Stored(g) /\ Expired(flows[g])
<1> SUFFICES ASSUME NEW g \in LapsedFlows PROVE Stored(g) /\ Expired(flows[g]) OBVIOUS
<1>1. g \in Id /\ Stored(g) /\ Lapsed(flows[g]) BY DEF LapsedFlows
<1>2. flows[g].expires \in Nat /\ Retention \in Nat
    BY <1>1, StoreConstants, EntryFields DEF Entries, Stored
<1> QED BY <1>1, <1>2 DEF Lapsed, Expired

\* Nothing is swept by a step that leaves the store alone.
LEMMA NoSweep ==
    ASSUME flows \in Entries, states \in Index, UNCHANGED <<flows, states>>
    PROVE  Swept({})
<1>1. \A g \in Id : Kept(g) BY SameItself DEF Kept, Stored
<1>2. Unindex({}) = states BY DEF Unindex, Index
<1> QED BY <1>1, <1>2 DEF Swept, Stored

\* Refused sweeps at most the flow looked at.
LEMMA RefusedSweeps ==
    ASSUME flows \in Entries, states \in Index, now \in Nat, NEW c, NEW f \in Id, Refused(c, f)
    PROVE  \E gone : Swept(gone)
<1> DEFINE mine == Stored(f) /\ flows[f].owner = c
           gone == IF mine /\ Lapsed(flows[f]) THEN {f} ELSE {}
<1>1. /\ flows' = [g \in Id |->
               IF g \in gone THEN None
               ELSE IF g = f /\ mine /\ Expired(flows[f]) THEN [flows[g] EXCEPT !.secret = FALSE]
               ELSE flows[g]]
      /\ states' = Unindex(gone)
    BY DEF Refused, Look
<1>2. gone \subseteq Id /\ \A g \in gone : Stored(g) /\ Expired(flows[g])
  <2>1. mine => flows[f].expires \in Nat /\ Retention \in Nat
      BY StoreConstants, EntryFields DEF Entries, Stored
  <2> QED BY <2>1 DEF Lapsed, Expired
<1>3. \A g \in Id : flows[g] # None => flows[g] \in Entry BY DEF Entries
<1> HIDE DEF gone
<1>4. ASSUME NEW g \in Id
      PROVE  flows'[g] \in Entry \cup {None} /\ (g \in gone => flows'[g] = None)
             /\ (g \notin gone => Kept(g))
  <2>1. CASE g \in gone BY <1>1, <2>1
  <2>2. CASE g \notin gone /\ g = f /\ mine /\ Expired(flows[f])
    <3>1. flows'[g] = [flows[g] EXCEPT !.secret = FALSE] BY <1>1, <2>2
    <3>2. flows[g] \in Entry /\ flows[g] # None BY <1>3, <2>2 DEF Stored
    <3>3. flows'[g] \in Entry /\ SameFlow(flows[g], flows'[g]) BY <3>1, <3>2, Wiped
    <3>4. [flows[g] EXCEPT !.secret = FALSE] # None
        BY <3>1, <3>3, NoneIsNoEntry
    <3> QED BY <2>2, <3>1, <3>2, <3>3, <3>4 DEF Kept, Stored
  <2>3. CASE g \notin gone /\ ~(g = f /\ mine /\ Expired(flows[f]))
    <3>1. flows'[g] = flows[g] BY <1>1, <2>3
    <3> QED BY <2>3, <3>1, SameItself DEF Kept, Stored, Entries
  <2> QED BY <2>1, <2>2, <2>3
<1>5. flows' \in Entries BY <1>1, <1>4 DEF Entries
<1>6. Swept(gone) BY <1>1, <1>2, <1>4, <1>5 DEF Swept
<1> QED BY <1>6

\* So does a Create that finds its id or its state taken.
LEMMA ExistsSweeps ==
    ASSUME flows \in Entries, states \in Index, now \in Nat, NEW f, NEW e, CreateExists(f, e)
    PROVE  \E gone : Swept(gone)
<1>1. /\ flows' = [g \in Id |-> IF g \in LapsedFlows THEN None ELSE Purged(g)]
      /\ states' = Unindex(LapsedFlows)
    BY DEF CreateExists
<1>2. ASSUME NEW g \in Id, g \notin LapsedFlows, flows'[g] = Purged(g)
      PROVE  Kept(g) /\ flows'[g] \in Entry \cup {None}
    BY <1>2, PurgeKeeps
<1>3. \A g \in LapsedFlows : Stored(g) /\ Expired(flows[g]) BY LapsedExpired
<1>4. flows' \in Entries
  <2>1. \A g \in Id : flows'[g] \in Entry \cup {None} BY <1>1, <1>2
  <2> QED BY <1>1, <2>1 DEF Entries
<1>5. Swept(LapsedFlows)
  <2>1. LapsedFlows \subseteq Id BY DEF LapsedFlows
  <2>2. \A g \in LapsedFlows : flows'[g] = None BY <1>1, <2>1
  <2>3. \A g \in Id \ LapsedFlows : Kept(g) BY <1>1, <1>2
  <2> QED BY <1>1, <1>3, <1>4, <2>1, <2>2, <2>3 DEF Swept
<1> QED BY <1>5

----------------------------------------------------------------------------
(* The inductive invariant.                                                *)

\* Where a request has not read a flow, polls a provider, is at the provider, or
\* has consumed a flow and has not returned.
Early == {"view", "resolve", "get"}
Asked == {"ask", "answer", "slow"}
Polling == {"due", "claim"} \cup Asked
Spending == {"exchange", "save", "finish"}
Entered == {"create", "consume"} \cup Polling \cup Spending

Unspent(f) == saved[f] = 0 /\ exchanged[f] = 0

\* The numbers of an entry are old ones, and a device flow's interval is no shorter than
\* the driver's.
Dated(e) ==
    /\ e.revision <= revision /\ e.sequence <= sequence
    /\ e.method = "device" => e.interval >= Interval

\* An entry agrees with the history of its flow.
Honest(f, e) ==
    /\ ~e.consumed => e.outcome = "" /\ Unspent(f)
    /\ e.outcome = "complete" => saved[f] = 1
    /\ e.outcome \in {"failed", "expired"} => saved[f] = 0

FlowFacts(f) ==
    /\ saved[f] <= 1 /\ exchanged[f] <= 1
    /\ f \notin issued => ~Stored(f) /\ Unspent(f)
    /\ Stored(f) => Dated(flows[f]) /\ Honest(f, flows[f])

\* No two stored flows have one insertion number.
Numbered ==
    \A f, g \in Id : f # g /\ Stored(f) /\ Stored(g) => flows[f].sequence # flows[g].sequence

\* A new flow is nobody's business yet.
Creating(t) ==
    LET f == local[t].id
        e == local[t].flow
    IN  /\ ~Stored(f) /\ Unspent(f)
        /\ ~e.consumed /\ (e.indexed <=> e.state # None) /\ e.outcome = ""
        /\ e.method = "device" => e.interval >= Interval

\* A poll read a pending device flow.  If no write has come since, the flow is as
\* it was read.
PollFacts(t) ==
    LET f == local[t].id
        e == local[t].flow
    IN  /\ e.method = "device" /\ e.interval >= Interval /\ e.revision <= revision
        /\ Stored(f) /\ flows[f].revision = e.revision =>
               /\ ~flows[f].consumed /\ flows[f].method = e.method
               /\ flows[f].interval = e.interval
               /\ flows[f].nextPoll = e.nextPoll /\ flows[f].outcome = e.outcome

\* A claim that landed holds back the next one by the interval it was made with.
AskFacts(t) ==
    LET f == local[t].id
    IN  /\ local[t].flow.nextPoll = local[t].clock + local[t].flow.interval
        /\ Stored(f) => flows[f].nextPoll >= local[t].clock + Interval

\* Flow f stays as the request that consumed it left it, in entry e.
Untouched(f, e) ==
    Stored(f) =>
        /\ flows[f].consumed /\ flows[f].revision = e.revision /\ flows[f].outcome = ""
        /\ flows[f].owner = e.owner /\ flows[f].interval = e.interval
        /\ flows[f].nextPoll = e.nextPoll

\* The history of flow f says how far the request that consumed it has come.
Reached(f, label, o) ==
    /\ label = "exchange" => Unspent(f)
    /\ label = "save" => saved[f] = 0
    /\ label = "finish" =>
           \/ o = "complete" /\ saved[f] = 1
           \/ o \in {"failed", "expired"} /\ saved[f] = 0

SpendFacts(t) ==
    /\ Untouched(local[t].id, local[t].flow)
    /\ Reached(local[t].id, pc[t], local[t].outcome)

RequestFacts(t) ==
    /\ pc[t] = "idle" => local[t] = NoLocal
    /\ pc[t] \in Early => local[t].flow = None
    /\ pc[t] = "resolve" => local[t].id = None /\ local[t].state \in State
    /\ pc[t] \in {"view", "get"} => local[t].id \in issued
    /\ pc[t] \in Entered =>
           /\ local[t].id \in issued /\ local[t].flow \in Entry
           /\ local[t].flow.owner = local[t].caller
    /\ pc[t] = "create" => Creating(t)
    /\ pc[t] \in Polling => PollFacts(t)
    /\ pc[t] = "claim" => local[t].clock >= local[t].flow.nextPoll
    /\ pc[t] \in Asked => AskFacts(t)
    /\ pc[t] \in Spending => SpendFacts(t)

\* One request creates a flow, one spends it, and two at the provider claimed their
\* polls an interval apart.
Apart(t, u) ==
    local[t].id = local[u].id =>
        /\ ~(pc[t] = "create" /\ pc[u] \in Entered)
        /\ ~(pc[t] \in Spending /\ pc[u] \in Spending)
        /\ pc[t] \in Asked /\ pc[u] \in Asked =>
               \/ local[u].clock >= local[t].clock + Interval
               \/ local[t].clock >= local[u].clock + Interval

IInv ==
    /\ TypeOK /\ IndexExact /\ PendingCap /\ Numbered
    /\ \A f \in Id : FlowFacts(f)
    /\ \A t \in Thread : RequestFacts(t)
    /\ \A t, u \in Thread : t # u => Apart(t, u)

----------------------------------------------------------------------------
(* What the store keeps true: its index, its numbers and its cap.          *)

\* Sweeping leaves no stale state behind.
LEMMA SweptIndex ==
    ASSUME flows \in Entries, states \in Index, IndexExact, NEW gone, Swept(gone)
    PROVE  IndexExact' /\ states' \in Index
<1>1. states' = [s \in State |-> IF states[s] \in gone THEN None ELSE states[s]]
    BY DEF Swept, Unindex
<1>2. \A g \in Id : Stored(g)' => g \notin gone /\ Stored(g) /\ SameFlow(flows[g], flows'[g])
    BY DEF Swept, Kept, Stored
<1>3. \A g \in Id \ gone : Stored(g) => Stored(g)' /\ SameFlow(flows[g], flows'[g])
    BY DEF Swept, Kept, Stored
<1>4. ASSUME NEW s \in State, states'[s] # None
      PROVE  /\ Stored(states[s])' /\ flows'[states'[s]].state = s
             /\ flows'[states'[s]].indexed /\ ~flows'[states'[s]].consumed
  <2>1. states'[s] = states[s] /\ states[s] \notin gone /\ states[s] \in Id BY <1>1, <1>4 DEF Index
  <2>2. Stored(states[s]) /\ flows[states[s]].state = s
        /\ flows[states[s]].indexed /\ ~flows[states[s]].consumed
      BY <2>1, <1>4 DEF IndexExact
  <2> QED BY <2>1, <2>2, <1>3 DEF SameFlow, Stored
<1>5. ASSUME NEW g \in Id, Stored(g)', flows'[g].state # None, ~flows'[g].consumed
      PROVE  flows'[g].indexed /\ states'[flows'[g].state] = g
  <2>1. g \notin gone /\ Stored(g) /\ SameFlow(flows[g], flows'[g]) BY <1>2, <1>5
  <2>2. flows[g].indexed /\ states[flows[g].state] = g /\ flows[g].state \in State
      BY <2>1, <1>5, EntryFields DEF IndexExact, SameFlow, Entries, Stored
  <2> QED BY <1>1, <2>1, <2>2 DEF SameFlow
<1>6. states' \in Index BY <1>1 DEF Index
<1> QED BY <1>4, <1>5, <1>6 DEF IndexExact, Stored

\* The cap holds while no caller gains a pending flow.
LEMMA CapKept ==
    ASSUME PendingCap, \A c \in Caller : PendingOf(c)' \subseteq PendingOf(c)
    PROVE  PendingCap'
<1>1. ASSUME NEW c \in Caller, MaxFlows # 0
      PROVE  Cardinality(PendingOf(c)') <= MaxFlows
  <2>1. IsFiniteSet(PendingOf(c)) /\ Cardinality(PendingOf(c)) \in Nat
    <3>1. PendingOf(c) \in SUBSET Id BY DEF PendingOf
    <3> QED BY <3>1, FS_Subset, FS_CardinalityType, StoreConstants
  <2>2. Cardinality(PendingOf(c)') <= Cardinality(PendingOf(c)) /\ IsFiniteSet(PendingOf(c)')
      BY <2>1, FS_Subset
  <2>3. Cardinality(PendingOf(c)') \in Nat BY <2>2, FS_CardinalityType
  <2>4. Cardinality(PendingOf(c)) <= MaxFlows BY <1>1 DEF PendingCap
  <2> HIDE DEF PendingOf
  <2> QED BY <2>1, <2>2, <2>3, <2>4, StoreConstants
<1> QED BY <1>1 DEF PendingCap

\* A sweep deletes flows, so it keeps the cap on pending ones.
LEMMA SweptCap ==
    ASSUME PendingCap, NEW gone, Swept(gone), now' = now
    PROVE  PendingCap'
<1>1. ASSUME NEW c \in Caller, NEW g \in PendingOf(c)' PROVE g \in PendingOf(c)
  <2>1. g \in Id /\ Stored(g)' /\ flows'[g].owner = c /\ ~flows'[g].consumed
        /\ ~(now >= flows'[g].expires)
      BY <1>1 DEF PendingOf, Pending, Expired
  <2>2. Stored(g) /\ SameFlow(flows[g], flows'[g]) BY <2>1 DEF Swept, Kept, Stored
  <2> QED BY <2>1, <2>2 DEF PendingOf, Pending, Expired, SameFlow
<1> QED BY <1>1, CapKept

\* A sweep leaves the numbers of the flows that stay.
LEMMA SweptNumbered ==
    ASSUME Numbered, NEW gone, Swept(gone)
    PROVE  Numbered'
<1>1. \A g \in Id : Stored(g)' => Stored(g) /\ flows'[g].sequence = flows[g].sequence
    BY DEF Swept, Kept, Stored, SameFlow
<1> QED BY <1>1 DEF Numbered, Stored

\* Eviction leaves room for one more: flows are ranked by age, no two alike, and only
\* the MaxFlows - 1 youngest ranks survive it.
LEMMA EvictionMakesRoom ==
    ASSUME flows \in Entries, Numbered, NEW c \in Caller, MaxFlows # 0
    PROVE  /\ IsFiniteSet(PendingOf(c) \ Evicted(c))
           /\ Cardinality(PendingOf(c) \ Evicted(c)) + 1 <= MaxFlows
<1> DEFINE mine == PendingOf(c)
           elder(f) == {g \in mine : Older(g, f)}
           rank == [f \in mine |-> Cardinality(elder(f))]
           n == Cardinality(mine)
           left == mine \ Evicted(c)
<1>1. IsFiniteSet(mine) /\ n \in Nat
  <2>1. mine \in SUBSET Id BY DEF PendingOf
  <2> QED BY <2>1, FS_Subset, FS_CardinalityType, StoreConstants
<1>2. \A f \in mine : f \in Id /\ Stored(f) /\ flows[f].created \in Nat /\ flows[f].sequence \in Nat
    BY EntryFields DEF PendingOf, Entries, Stored
<1>3. \A f, g \in mine : f # g => Older(f, g) \/ Older(g, f)
    BY <1>2 DEF Older, Numbered
<1>4. \A f, g, h \in mine : Older(f, g) /\ Older(g, h) => Older(f, h)
    BY <1>2 DEF Older
<1>5. \A f \in mine : ~Older(f, f) BY <1>2 DEF Older
<1>6. Evicted(c) = {f \in mine : rank[f] + MaxFlows <= n} BY DEF Evicted
<1> HIDE DEF mine
<1>7. ASSUME NEW f \in mine PROVE rank[f] \in Nat /\ rank[f] < n /\ IsFiniteSet(elder(f))
  <2>1. elder(f) \in SUBSET mine /\ f \notin elder(f) BY <1>5
  <2>2. IsFiniteSet(elder(f)) /\ Cardinality(elder(f)) <= n /\ Cardinality(elder(f)) # n
      BY <1>1, <1>7, <2>1, FS_Subset
  <2>3. Cardinality(elder(f)) \in Nat BY <2>2, FS_CardinalityType
  <2> QED BY <1>1, <1>7, <2>2, <2>3
<1>8. ASSUME NEW f \in mine, NEW g \in mine, Older(f, g) PROVE rank[f] < rank[g]
  <2>1. elder(f) \subseteq elder(g) BY <1>4, <1>8
  <2>2. f \in elder(g) /\ f \notin elder(f) BY <1>5, <1>8
  <2>3. Cardinality(elder(f)) <= Cardinality(elder(g)) /\ Cardinality(elder(f)) # Cardinality(elder(g))
      BY <1>7, <2>1, <2>2, FS_Subset
  <2> QED BY <1>7, <2>3
<1>9. \A f, g \in mine : f # g => rank[f] # rank[g] BY <1>3, <1>7, <1>8
<1>10. CASE n < MaxFlows
  <2>1. left \in SUBSET mine OBVIOUS
  <2>2. IsFiniteSet(left) /\ Cardinality(left) <= n BY <1>1, <2>1, FS_Subset
  <2>3. Cardinality(left) \in Nat BY <2>2, FS_CardinalityType
  <2> QED BY <1>1, <1>10, <2>2, <2>3, StoreConstants DEF mine
<1>11. CASE MaxFlows <= n
  <2> DEFINE young == (n - MaxFlows + 1)..(n - 1)
             place == [f \in left |-> rank[f]]
  <2>1. \A f \in left : f \in mine /\ rank[f] \in young
      BY <1>1, <1>6, <1>7, <1>11, StoreConstants
  <2>2. place \in Injection(left, young)
    <3> HIDE DEF rank, young, left
    <3>1. place \in [left -> young] BY <2>1
    <3>2. \A f, g \in left : place[f] = place[g] => f = g BY <1>9, <2>1
    <3> QED BY <3>1, <3>2 DEF Injection, IsInjective
  <2>3. IsFiniteSet(young) /\ Cardinality(young) = MaxFlows - 1
    <3>1. n \in Int /\ MaxFlows \in Nat /\ n - MaxFlows + 1 \in Int /\ n - 1 \in Int
        BY <1>1, StoreConstants
    <3> DEFINE a == n - MaxFlows + 1
               b == n - 1
    <3>2. (IF a > b THEN 0 ELSE b - a + 1) = MaxFlows - 1 BY <3>1
    <3>3. young = a..b /\ a \in Int /\ b \in Int BY <3>1
    <3> HIDE DEF a, b, young
    <3> QED BY <3>2, <3>3, FS_Interval
  <2>4. IsFiniteSet(left) /\ Cardinality(left) <= MaxFlows - 1
    <3> HIDE DEF young, left, place
    <3> QED BY <2>2, <2>3, FS_Injection
  <2>5. Cardinality(left) \in Nat BY <2>4, FS_CardinalityType
  <2> QED BY <2>4, <2>5, StoreConstants DEF mine
<1> QED BY <1>1, <1>10, <1>11, StoreConstants

\* A step stores flow f as entry e, deletes the flows in gone and keeps every other.
Created(f, e, gone) ==
    /\ gone \subseteq Id \ {f} /\ flows' \in Entries /\ ~Stored(f) /\ flows'[f] # None
    /\ \A g \in gone : Stored(g) /\ flows'[g] = None /\ (Expired(flows[g]) \/ ~flows[g].consumed)
    /\ \A g \in Id \ (gone \cup {f}) : Kept(g)
    /\ flows'[f] = [e EXCEPT !.sequence = sequence + 1, !.revision = revision + 1]
    /\ sequence' = sequence + 1 /\ revision' = revision + 1

\* What Create does to the store: it sweeps, evicts, and stores one flow under new numbers.
LEMMA CreateCreates ==
    ASSUME flows \in Entries, now \in Nat, sequence \in Nat, revision \in Nat,
           NEW f \in Id, NEW e \in Entry, ~Stored(f), Create(f, e)
    PROVE  Created(f, e, LapsedFlows \cup Evicted(e.owner))
<1> DEFINE gone == LapsedFlows \cup Evicted(e.owner)
           new == [e EXCEPT !.sequence = sequence + 1, !.revision = revision + 1]
<1>1. /\ flows' = [g \in Id |-> IF g = f THEN new ELSE IF g \in gone THEN None ELSE Purged(g)]
      /\ sequence' = sequence + 1 /\ revision' = revision + 1
    BY DEF Create
<1>2. new \in Entry
  <2>1. sequence + 1 \in Nat /\ revision + 1 \in Nat OBVIOUS
  <2> QED BY <2>1 DEF Entry
<1>3. \A g \in gone : g \in Id /\ Stored(g) /\ (Expired(flows[g]) \/ ~flows[g].consumed)
  <2>1. \A g \in Evicted(e.owner) : g \in PendingOf(e.owner) BY DEF Evicted
  <2>2. \A g \in PendingOf(e.owner) : g \in Id /\ Stored(g) /\ ~flows[g].consumed
      BY DEF PendingOf, Pending
  <2>3. \A g \in LapsedFlows : g \in Id BY DEF LapsedFlows
  <2> QED BY <2>1, <2>2, <2>3, LapsedExpired
<1> HIDE DEF gone, new
<1>4. ASSUME NEW g \in Id PROVE flows'[g] \in Entry \cup {None}
                                /\ (g # f /\ g \notin gone => Kept(g))
    BY <1>1, <1>2, PurgeKeeps
<1>5. flows' \in Entries BY <1>1, <1>4 DEF Entries
<1>6. Stored(f)' BY <1>1, <1>2, NoneIsNoEntry DEF Stored
<1>7. \A g \in gone : g # f /\ flows'[g] = None BY <1>1, <1>3
<1> QED BY <1>1, <1>3, <1>4, <1>5, <1>6, <1>7 DEF Created, Stored, gone, new

\* The fields of the new flow, and what a step that creates it does to any other.
LEMMA CreatedFields ==
    ASSUME NEW f \in Id, NEW e \in Entry, NEW gone, Created(f, e, gone),
           sequence \in Nat, revision \in Nat
    PROVE  /\ flows'[f].sequence = sequence + 1 /\ flows'[f].revision = revision + 1
           /\ flows'[f].owner = e.owner /\ flows'[f].method = e.method
           /\ flows'[f].state = e.state /\ (flows'[f].indexed <=> e.indexed)
           /\ (flows'[f].consumed <=> e.consumed) /\ flows'[f].outcome = e.outcome
           /\ flows'[f].interval = e.interval /\ flows'[f].nextPoll = e.nextPoll
           /\ \A g \in Id \ {f} : Stored(g)' => g \notin gone /\ Stored(g)
                                                /\ SameFlow(flows[g], flows'[g])
<1>1. flows'[f] = [e EXCEPT !.sequence = sequence + 1, !.revision = revision + 1] BY DEF Created
<1>2. \A g \in Id \ {f} : Stored(g)' => g \notin gone /\ Stored(g)
                                         /\ SameFlow(flows[g], flows'[g])
    BY DEF Created, Kept, Stored
<1> QED BY <1>1, <1>2 DEF Entry

\* Creating keeps the index exact.
LEMMA CreatedIndex ==
    ASSUME flows \in Entries, states \in Index, IndexExact, now \in Nat,
           sequence \in Nat, revision \in Nat,
           NEW f \in Id, NEW e \in Entry, ~Stored(f), Create(f, e),
           ~e.consumed, e.indexed <=> e.state # None
    PROVE  IndexExact' /\ states' \in Index
<1> DEFINE gone == LapsedFlows \cup Evicted(e.owner)
<1>1. Created(f, e, gone) BY CreateCreates
<1>2. states' = [s \in State |-> IF s = e.state THEN f
                                 ELSE IF states[s] \in gone THEN None ELSE states[s]]
  <2>1. states' = [s \in State |-> IF s = e.state THEN f ELSE Unindex(gone)[s]] BY DEF Create
  <2>2. \A s \in State : Unindex(gone)[s] = IF states[s] \in gone THEN None ELSE states[s]
      BY DEF Unindex
  <2> HIDE DEF gone
  <2> QED BY <2>1, <2>2
<1>3. ~Taken(f, e.state) BY DEF Create
<1>4. LapsedFlows \subseteq gone OBVIOUS
<1> HIDE DEF gone
<1>5. ASSUME NEW s \in State, states'[s] # None
      PROVE  /\ Stored(states[s])' /\ flows'[states'[s]].state = s
             /\ flows'[states'[s]].indexed /\ ~flows'[states'[s]].consumed
  <2>1. CASE s = e.state
    <3>1. states'[s] = f /\ e.state # None BY <1>2, <2>1, StoreConstants
    <3>2. flows'[f].state = s /\ flows'[f].indexed /\ ~flows'[f].consumed
      <4>1. /\ flows'[f].state = e.state /\ (flows'[f].indexed <=> e.indexed)
            /\ (flows'[f].consumed <=> e.consumed)
          BY <1>1, CreatedFields
      <4> QED BY <4>1, <3>1, <2>1
    <3>3. flows'[f] # None BY <1>1 DEF Created, Stored
    <3> QED BY <3>1, <3>2, <3>3 DEF Stored
  <2>2. CASE s # e.state
    <3>1. states'[s] = states[s] /\ states[s] \notin gone /\ states[s] \in Id
        BY <1>2, <1>5, <2>2 DEF Index
    <3>2. Stored(states[s]) /\ flows[states[s]].state = s
          /\ flows[states[s]].indexed /\ ~flows[states[s]].consumed
        BY <3>1, <1>5 DEF IndexExact
    <3>3. states[s] # f BY <3>2
    <3>4. Kept(states[s]) BY <1>1, <3>1, <3>3 DEF Created
    <3> QED BY <3>1, <3>2, <3>4 DEF Kept, SameFlow, Stored
  <2> QED BY <2>1, <2>2
<1>6. ASSUME NEW g \in Id, Stored(g)', flows'[g].state # None, ~flows'[g].consumed
      PROVE  flows'[g].indexed /\ states'[flows'[g].state] = g
  <2>1. CASE g = f
    <3>1. e.state \in State /\ flows'[g].state = e.state /\ flows'[g].indexed
      <4>1. flows'[f].state = e.state /\ (flows'[f].indexed <=> e.indexed) BY <1>1, CreatedFields
      <4>2. e.state # None BY <4>1, <2>1, <1>6
      <4>3. e.state \in State BY <4>2, EntryFields
      <4> QED BY <4>1, <4>2, <4>3, <2>1
    <3> QED BY <1>2, <2>1, <3>1
  <2>2. CASE g # f
    <3>1. g \notin gone /\ Stored(g) /\ SameFlow(flows[g], flows'[g])
        BY <1>1, <1>6, <2>2, CreatedFields
    <3>2. flows[g].indexed /\ states[flows[g].state] = g /\ flows[g].state \in State
        BY <3>1, <1>6, EntryFields DEF IndexExact, SameFlow, Entries, Stored
    <3>3. flows[g].state # e.state
        BY <1>3, <1>4, <3>1, <3>2, StoreConstants DEF Taken
    <3> QED BY <1>2, <3>1, <3>2, <3>3 DEF SameFlow
  <2> QED BY <2>1, <2>2
<1>7. states' \in Index BY <1>2 DEF Index
<1> QED BY <1>5, <1>6, <1>7 DEF IndexExact, Stored

\* Creating keeps the cap: what eviction leaves, and the new flow.
LEMMA CreatedCap ==
    ASSUME flows \in Entries, now \in Nat, sequence \in Nat, revision \in Nat, now' = now,
           PendingCap, Numbered,
           NEW f \in Id, NEW e \in Entry, ~Stored(f), Create(f, e)
    PROVE  PendingCap'
<1> DEFINE gone == LapsedFlows \cup Evicted(e.owner)
<1>1. Created(f, e, gone) BY CreateCreates
<1>2. ASSUME NEW c \in Caller, NEW g \in PendingOf(c)', g # f
      PROVE  g \in PendingOf(c) /\ g \notin gone
  <2>1. g \in Id /\ Stored(g)' /\ flows'[g].owner = c /\ ~flows'[g].consumed
        /\ ~(now >= flows'[g].expires)
      BY <1>2 DEF PendingOf, Pending, Expired
  <2>2. g \notin gone /\ Stored(g) /\ SameFlow(flows[g], flows'[g])
      BY <1>1, <1>2, <2>1, CreatedFields
  <2> QED BY <2>1, <2>2 DEF PendingOf, Pending, Expired, SameFlow
<1>3. flows'[f].owner = e.owner /\ e.owner \in Caller BY <1>1, CreatedFields, EntryFields
<1>4. \A c \in Caller : f \in PendingOf(c)' => c = e.owner BY <1>3 DEF PendingOf
<1>5. ASSUME NEW c \in Caller, MaxFlows # 0 PROVE Cardinality(PendingOf(c)') <= MaxFlows
  <2>1. CASE c # e.owner
    <3>1. PendingOf(c)' \subseteq PendingOf(c) BY <1>2, <1>4, <2>1
    <3>2. IsFiniteSet(PendingOf(c)) /\ Cardinality(PendingOf(c)) \in Nat
      <4>1. PendingOf(c) \in SUBSET Id BY DEF PendingOf
      <4> QED BY <4>1, FS_Subset, FS_CardinalityType, StoreConstants
    <3>3. Cardinality(PendingOf(c)') <= Cardinality(PendingOf(c)) /\ IsFiniteSet(PendingOf(c)')
        BY <3>1, <3>2, FS_Subset
    <3>4. Cardinality(PendingOf(c)') \in Nat BY <3>3, FS_CardinalityType
    <3>5. Cardinality(PendingOf(c)) <= MaxFlows BY <1>5 DEF PendingCap
    <3> QED BY <3>2, <3>3, <3>4, <3>5, StoreConstants
  <2>2. CASE c = e.owner
    <3> DEFINE left == PendingOf(c) \ Evicted(c)
    <3>1. IsFiniteSet(left) /\ Cardinality(left) + 1 <= MaxFlows BY <1>5, EvictionMakesRoom
    <3>2. PendingOf(c)' \subseteq left \cup {f} BY <1>2, <2>2
    <3> HIDE DEF left
    <3>3. Cardinality(left) \in Nat BY <3>1, FS_CardinalityType
    <3>4. /\ IsFiniteSet(left \cup {f})
          /\ Cardinality(left \cup {f}) = IF f \in left THEN Cardinality(left)
                                          ELSE Cardinality(left) + 1
        BY <3>1, FS_AddElement
    <3>5. Cardinality(left \cup {f}) <= MaxFlows /\ Cardinality(left \cup {f}) \in Nat
        BY <3>1, <3>3, <3>4, StoreConstants
    <3>6. Cardinality(PendingOf(c)') <= Cardinality(left \cup {f}) /\ IsFiniteSet(PendingOf(c)')
        BY <3>2, <3>4, FS_Subset
    <3>7. Cardinality(PendingOf(c)') \in Nat BY <3>6, FS_CardinalityType
    <3> QED BY <3>5, <3>6, <3>7, StoreConstants
  <2> QED BY <2>1, <2>2
<1> QED BY <1>5 DEF PendingCap

\* The new flow's number is a new one.
LEMMA CreatedNumbered ==
    ASSUME Numbered, flows \in Entries, sequence \in Nat, revision \in Nat,
           \A g \in Id : Stored(g) => flows[g].sequence <= sequence,
           NEW f \in Id, NEW e \in Entry, NEW gone, Created(f, e, gone)
    PROVE  Numbered'
<1>1. \A g \in Id \ {f} : Stored(g)' => Stored(g) /\ flows'[g].sequence = flows[g].sequence
    BY CreatedFields DEF SameFlow
<1>2. flows'[f].sequence = sequence + 1 BY CreatedFields
<1>3. \A g \in Id : Stored(g) => flows[g].sequence \in Nat BY EntryFields DEF Entries, Stored
<1>4. \A g \in Id \ {f} : Stored(g)' => flows'[g].sequence # flows'[f].sequence
    BY <1>1, <1>2, <1>3
<1> QED BY <1>1, <1>4 DEF Numbered, Stored

\* A step writes entry d over flow f, with a new revision; nothing that orders, names
\* or owns the flow changes, and its polls are held back no less than before.
Written(f, d) ==
    /\ Stored(f) /\ d \in Entry /\ flows' = [flows EXCEPT ![f] = d]
    /\ d.owner = flows[f].owner /\ d.method = flows[f].method /\ d.created = flows[f].created
    /\ d.expires = flows[f].expires /\ d.sequence = flows[f].sequence
    /\ d.state = flows[f].state
    /\ d.interval >= flows[f].interval /\ d.nextPoll >= flows[f].nextPoll
    /\ flows[f].consumed => d.consumed
    /\ d.revision = revision + 1 /\ revision' = revision + 1 /\ sequence' = sequence

\* A write of one flow keeps what the store promises of the others.
LEMMA WrittenStore ==
    ASSUME flows \in Entries, PendingCap, Numbered, now' = now,
           NEW f \in Id, NEW d, Written(f, d)
    PROVE  /\ flows' \in Entries /\ PendingCap' /\ Numbered'
           /\ flows'[f] = d /\ Stored(f)'
           /\ \A g \in Id \ {f} : flows'[g] = flows[g]
<1>1. /\ flows' \in Entries /\ flows'[f] = d /\ \A g \in Id \ {f} : flows'[g] = flows[g]
      /\ Stored(f)'
    BY NoneIsNoEntry DEF Written, Entries, Stored
<1>2. ASSUME NEW c \in Caller, NEW g \in PendingOf(c)' PROVE g \in PendingOf(c)
  <2>1. g \in Id /\ Stored(g)' /\ flows'[g].owner = c /\ ~flows'[g].consumed
        /\ ~(now >= flows'[g].expires)
      BY <1>2 DEF PendingOf, Pending, Expired
  <2> QED BY <1>1, <2>1 DEF PendingOf, Pending, Expired, Written, Stored
<1>3. PendingCap' BY <1>2, CapKept
<1>4. \A g \in Id : Stored(g)' => Stored(g) /\ flows'[g].sequence = flows[g].sequence
    BY <1>1 DEF Written, Stored
<1>5. Numbered' BY <1>4 DEF Numbered, Stored
<1> QED BY <1>1, <1>3, <1>5

\* What a caller may read, consume or update is stored, the caller's and not expired.
LEMMA VerdictOk ==
    ASSUME NEW c, NEW f, Verdict(c, f) = "ok"
    PROVE  Stored(f) /\ flows[f].owner = c /\ ~Expired(flows[f])
BY DEF Verdict

\* Update writes the flow, whose consumption and place in the index it leaves alone.
LEMMA UpdateWrites ==
    ASSUME flows \in Entries, states \in Index, IndexExact, revision \in Nat,
           NEW c, NEW f \in Id, NEW expected, NEW i \in Nat, NEW n \in Nat, NEW o \in Outcomes,
           Update(c, f, expected, i, n, o), i >= flows[f].interval, n >= flows[f].nextPoll
    PROVE  LET d == Progressed(f, i, n, o)
           IN  /\ Written(f, d) /\ IndexExact' /\ states' \in Index
               /\ d.interval = i /\ d.nextPoll = n /\ d.outcome = o
               /\ (d.consumed <=> flows[f].consumed) /\ (d.indexed <=> flows[f].indexed)
<1> DEFINE d == [flows[f] EXCEPT !.interval = i, !.nextPoll = n, !.outcome = o,
                                 !.revision = revision + 1]
<1>1. Stored(f) /\ flows[f] \in Entry BY VerdictOk DEF Update, MayUpdate, Entries, Stored
<1>2. /\ flows' = [flows EXCEPT ![f] = d] /\ revision' = revision + 1 /\ sequence' = sequence
      /\ states' = states /\ d = Progressed(f, i, n, o)
    BY DEF Update, Progressed
<1>3. /\ d \in Entry /\ d.owner = flows[f].owner /\ d.method = flows[f].method
      /\ d.created = flows[f].created /\ d.expires = flows[f].expires
      /\ d.sequence = flows[f].sequence /\ d.state = flows[f].state
      /\ (d.consumed <=> flows[f].consumed) /\ (d.indexed <=> flows[f].indexed)
      /\ d.interval = i /\ d.nextPoll = n /\ d.outcome = o /\ d.revision = revision + 1
  <2>1. revision + 1 \in Nat OBVIOUS
  <2> QED BY <1>1, <2>1 DEF Entry
<1> HIDE DEF d
<1>4. Written(f, d) BY <1>1, <1>2, <1>3 DEF Written
<1>5. \A g \in Id : flows'[g] = IF g = f THEN d ELSE flows[g] BY <1>2 DEF Entries
<1>6. \A g \in Id : /\ Stored(g)' <=> Stored(g)
                    /\ flows'[g].state = flows[g].state
                    /\ flows'[g].indexed <=> flows[g].indexed
                    /\ flows'[g].consumed <=> flows[g].consumed
    BY <1>1, <1>3, <1>5, NoneIsNoEntry DEF Stored
<1>7. IndexExact' BY <1>2, <1>6 DEF IndexExact, Stored, Index
<1> QED BY <1>2, <1>3, <1>4, <1>7

\* Consume writes a pending flow, which leaves the index.
LEMMA ConsumeWrites ==
    ASSUME flows \in Entries, states \in Index, IndexExact, revision \in Nat,
           NEW c, NEW f \in Id, Consume(c, f)
    PROVE  LET d == [Spent(f) EXCEPT !.secret = FALSE]
           IN  /\ Written(f, d) /\ IndexExact' /\ states' \in Index
               /\ d.consumed /\ d.outcome = flows[f].outcome
               /\ d.interval = flows[f].interval /\ d.nextPoll = flows[f].nextPoll
               /\ ~flows[f].consumed /\ flows[f].owner = c /\ ~Expired(flows[f])
               /\ Spent(f) \in Entry /\ Spent(f).owner = c /\ Spent(f).revision = revision + 1
               /\ Spent(f).interval = flows[f].interval /\ Spent(f).nextPoll = flows[f].nextPoll
<1> DEFINE d == [Spent(f) EXCEPT !.secret = FALSE]
           s == Spent(f)
<1>1. /\ Stored(f) /\ flows[f] \in Entry /\ ~flows[f].consumed /\ flows[f].owner = c
      /\ ~Expired(flows[f])
    BY VerdictOk DEF Consume, MayConsume, Entries, Stored
<1>2. /\ flows' = [flows EXCEPT ![f] = d] /\ revision' = revision + 1 /\ sequence' = sequence
      /\ states' = IF flows[f].indexed THEN Unindex({f}) ELSE states
    BY DEF Consume
<1>3. /\ s \in Entry /\ s.owner = flows[f].owner /\ s.method = flows[f].method
      /\ s.created = flows[f].created /\ s.expires = flows[f].expires
      /\ s.sequence = flows[f].sequence /\ s.state = flows[f].state
      /\ s.consumed /\ ~s.indexed /\ s.interval = flows[f].interval
      /\ s.nextPoll = flows[f].nextPoll /\ s.outcome = flows[f].outcome
      /\ s.revision = revision + 1
  <2>1. revision + 1 \in Nat OBVIOUS
  <2> QED BY <1>1, <2>1 DEF Entry, Spent
<1> HIDE DEF s
<1>4. d \in Entry /\ SameFlow(s, d) BY <1>3, Wiped DEF s
<1>5. flows[f].interval \in Nat /\ flows[f].nextPoll \in Nat BY <1>1, EntryFields
<1> HIDE DEF d
<1>6. Written(f, d) BY <1>1, <1>2, <1>3, <1>4, <1>5 DEF Written, SameFlow
<1>7. \A g \in Id : flows'[g] = IF g = f THEN d ELSE flows[g] BY <1>2 DEF Entries
<1>8. states' = [x \in State |-> IF states[x] = f THEN None ELSE states[x]]
  <2>1. CASE flows[f].indexed BY <1>2, <2>1 DEF Unindex
  <2>2. CASE ~flows[f].indexed
    <3>1. \A x \in State : states[x] # f BY <2>2, StoreConstants DEF IndexExact
    <3> QED BY <1>2, <2>2, <3>1 DEF Index
  <2> QED BY <2>1, <2>2
<1>9. IndexExact'
  <2>1. \A x \in State : states'[x] # None => states'[x] = states[x] /\ states'[x] \in Id \ {f}
      BY <1>8 DEF Index
  <2>2. ASSUME NEW g \in Id, Stored(g)', flows'[g].state # None, ~flows'[g].consumed
        PROVE  flows'[g].indexed /\ states'[flows'[g].state] = g
    <3>1. g # f /\ flows'[g] = flows[g] BY <1>3, <1>4, <1>7, <2>2 DEF SameFlow
    <3>2. flows[g].indexed /\ states[flows[g].state] = g /\ flows[g].state \in State
        BY <3>1, <2>2, EntryFields DEF IndexExact, Entries, Stored
    <3> QED BY <1>8, <3>1, <3>2
  <2>3. ASSUME NEW x \in State, states'[x] # None
        PROVE  /\ flows'[states'[x]] # None /\ flows'[states'[x]].state = x
               /\ flows'[states'[x]].indexed /\ ~flows'[states'[x]].consumed
      BY <2>1, <2>3, <1>7 DEF IndexExact, Stored
  <2> QED BY <2>2, <2>3 DEF IndexExact, Stored
<1>10. states' \in Index BY <1>8 DEF Index
<1> QED BY <1>1, <1>3, <1>4, <1>6, <1>9, <1>10 DEF SameFlow, d, s

----------------------------------------------------------------------------
(* What a step of one request leaves to the others.                        *)

\* A step leaves request u alone, and does to its flow nothing that u could not bear:
\* a flow being created stays absent, a flow being spent stays as it is, and a write
\* over a flow being polled is a newer one.
Undisturbed(u) ==
    LET f == local[u].id
    IN  /\ pc'[u] = pc[u] /\ local'[u] = local[u]
        /\ revision <= revision' /\ issued \subseteq issued'
        /\ pc[u] \in {"create"} \cup Spending =>
               saved'[f] = saved[f] /\ exchanged'[f] = exchanged[f]
        /\ pc[u] = "create" => flows'[f] = None
        /\ pc[u] \in Spending /\ flows'[f] # None => Stored(f) /\ SameFlow(flows[f], flows'[f])
        /\ pc[u] \in Polling /\ flows'[f] # None =>
               /\ Stored(f)
               /\ \/ SameFlow(flows[f], flows'[f])
                  \/ /\ flows'[f].revision = revision + 1
                     /\ flows'[f].nextPoll >= flows[f].nextPoll

\* The fields of a request's locals.
LEMMA LocalFields ==
    ASSUME local \in [Thread -> Local], NEW t \in Thread
    PROVE  /\ local[t] \in Local /\ local[t].caller \in Caller \cup {None}
           /\ local[t].id \in Id \cup {None} /\ local[t].state \in State \cup {None}
           /\ local[t].input \in Inputs \cup Answers \cup {None}
           /\ local[t].flow \in Entry \cup {None}
           /\ local[t].clock \in Nat /\ local[t].outcome \in Outcomes
BY DEF Local

\* What a request knows survives every step that leaves it undisturbed.
LEMMA OtherFacts ==
    ASSUME TypeOK, TypeOK', NEW u \in Thread, RequestFacts(u), Undisturbed(u)
    PROVE  RequestFacts(u)'
<1> DEFINE f == local[u].id
           e == local[u].flow
<1>1. /\ pc'[u] = pc[u] /\ local'[u] = local[u] /\ revision <= revision' /\ issued \subseteq issued'
      /\ revision \in Nat /\ revision' \in Nat /\ issued \subseteq Id
    BY DEF Undisturbed, TypeOK
<1>2. pc[u] \in Entered => f \in Id /\ e \in Entry BY <1>1 DEF RequestFacts
<1>3. \A g \in Id : /\ flows[g] # None => flows[g] \in Entry
                    /\ flows'[g] # None => flows'[g] \in Entry
    BY DEF TypeOK
<1>4. Early \cap Entered = {} /\ Polling \subseteq Entered /\ Asked \subseteq Polling
      /\ Spending \subseteq Entered
    BY DEF Early, Polling, Asked, Spending, Entered
<1>5. ASSUME pc[u] = "create" PROVE Creating(u)'
  <2>1. Creating(u) BY <1>5 DEF RequestFacts
  <2>2. flows'[f] = None /\ saved'[f] = saved[f] /\ exchanged'[f] = exchanged[f]
      BY <1>5 DEF Undisturbed
  <2> QED BY <1>1, <2>1, <2>2 DEF Creating, Unspent, Stored
<1>6. ASSUME pc[u] \in Polling PROVE PollFacts(u)'
  <2>1. PollFacts(u) BY <1>6 DEF RequestFacts
  <2>2. e.revision \in Nat /\ e.revision <= revision BY <1>2, <1>4, <1>6, <2>1, EntryFields DEF PollFacts
  <2>3. CASE flows'[f] = None BY <1>1, <2>1, <2>2, <2>3 DEF PollFacts, Stored
  <2>4. CASE flows'[f] # None /\ SameFlow(flows[f], flows'[f])
    <3>1. Stored(f) BY <1>6, <2>4 DEF Undisturbed
    <3> QED BY <1>1, <2>1, <2>2, <2>4, <3>1 DEF PollFacts, Stored, SameFlow
  <2>5. CASE flows'[f].revision = revision + 1
    <3>1. flows'[f].revision # e.revision BY <1>1, <2>2, <2>5
    <3> QED BY <1>1, <2>1, <2>2, <3>1 DEF PollFacts
  <2> QED BY <1>6, <2>3, <2>4, <2>5 DEF Undisturbed
<1>7. ASSUME pc[u] \in Asked PROVE AskFacts(u)'
  <2>1. AskFacts(u) BY <1>7 DEF RequestFacts
  <2>2. CASE flows'[f] = None BY <1>1, <2>1, <2>2 DEF AskFacts, Stored
  <2>3. CASE flows'[f] # None
    <3>1. Stored(f) /\ (SameFlow(flows[f], flows'[f]) \/ flows'[f].nextPoll >= flows[f].nextPoll)
        BY <1>4, <1>7, <2>3 DEF Undisturbed
    <3>2. flows[f].nextPoll \in Nat /\ flows'[f].nextPoll \in Nat
        BY <1>2, <1>3, <1>4, <1>7, <2>3, <3>1, EntryFields DEF Stored
    <3>3. flows[f].nextPoll >= local[u].clock + Interval BY <2>1, <3>1 DEF AskFacts
    <3>4. flows'[f].nextPoll >= local[u].clock + Interval
        BY <3>1, <3>2, <3>3, LocalFields, ServiceConstants DEF SameFlow, TypeOK
    <3> QED BY <1>1, <2>1, <3>4 DEF AskFacts
  <2> QED BY <2>2, <2>3
<1>8. ASSUME pc[u] \in Spending PROVE SpendFacts(u)'
  <2>1. SpendFacts(u) BY <1>8 DEF RequestFacts
  <2>2. saved'[f] = saved[f] /\ exchanged'[f] = exchanged[f] BY <1>8 DEF Undisturbed
  <2>3. flows'[f] # None => Stored(f) /\ SameFlow(flows[f], flows'[f]) BY <1>8 DEF Undisturbed
  <2> QED BY ZenonT(30), <1>1, <2>1, <2>2, <2>3 DEF SpendFacts, Untouched, Reached, Stored, SameFlow, Unspent
<1> QED BY <1>1, <1>5, <1>6, <1>7, <1>8 DEF RequestFacts

\* Only request t moves, to a label and locals of the right types.
Moved(t) ==
    /\ pc' \in [Thread -> Labels] /\ local' \in [Thread -> Local]
    /\ \A u \in Thread \ {t} : pc'[u] = pc[u] /\ local'[u] = local[u]

\* What request t has become, and where it stands to the others.
Fits(t) ==
    /\ RequestFacts(t)'
    /\ \A u \in Thread \ {t} : Apart(t, u)' /\ Apart(u, t)'

\* A step that keeps the store's facts, suits the request that took it and disturbs no
\* other keeps the invariant.
LEMMA StepKeeps ==
    ASSUME IInv, NEW t \in Thread, Moved(t), TypeOK', IndexExact', PendingCap', Numbered',
           \A f \in Id : FlowFacts(f)', Fits(t),
           \A u \in Thread \ {t} : Undisturbed(u)
    PROVE  IInv'
<1>1. ASSUME NEW u \in Thread PROVE RequestFacts(u)'
    BY OtherFacts DEF IInv, Fits
<1>2. ASSUME NEW u \in Thread, NEW v \in Thread, u # v PROVE Apart(u, v)'
  <2>1. CASE u # t /\ v # t
    <3>1. Apart(u, v) BY <1>2 DEF IInv
    <3> QED BY <2>1, <3>1 DEF Moved, Apart
  <2>2. CASE u = t \/ v = t BY <1>2, <2>2 DEF Fits
  <2> QED BY <2>1, <2>2
<1> QED BY <1>1, <1>2 DEF IInv

\* A request that returns fits anywhere.
LEMMA ReturnFits ==
    ASSUME NEW t \in Thread, pc \in [Thread -> Labels], local \in [Thread -> Local], Return(t)
    PROVE  Moved(t) /\ Fits(t)
<1>1. pc'[t] = "idle" /\ local'[t] = NoLocal BY DEF Return, Goto
<1>2. NoLocal \in Local BY DEF NoLocal, Local, Outcomes
<1>3. Moved(t) BY <1>2 DEF Moved, Return, Goto, Labels
<1>4. RequestFacts(t)'
    BY <1>1 DEF RequestFacts, Early, Asked, Polling, Spending, Entered
<1>5. \A u \in Thread \ {t} : Apart(t, u)' /\ Apart(u, t)'
    BY <1>1 DEF Apart, Asked, Polling, Spending, Entered
<1> QED BY <1>3, <1>4, <1>5 DEF Fits

\* A request that goes on with the same flow, within what it was doing, stays apart from
\* the others.
LEMMA MoveApart ==
    ASSUME IInv, NEW t \in Thread, Moved(t), local'[t].id = local[t].id,
           pc'[t] = "create" => pc[t] = "create", pc'[t] \in Entered => pc[t] \in Entered,
           pc'[t] \in Spending => pc[t] \in Spending,
           pc'[t] \in Asked => pc[t] \in Asked /\ local'[t].clock = local[t].clock
    PROVE  \A u \in Thread \ {t} : Apart(t, u)' /\ Apart(u, t)'
<1> SUFFICES ASSUME NEW u \in Thread \ {t} PROVE Apart(t, u)' /\ Apart(u, t)'
    OBVIOUS
<1>1. Apart(t, u) /\ Apart(u, t) BY DEF IInv
<1>2. pc'[u] = pc[u] /\ local'[u] = local[u] BY DEF Moved
<1> QED BY <1>1, <1>2 DEF Apart

\* A flow that is absent or the same keeps the facts about it.
LEMMA SameFlowFacts ==
    ASSUME IInv, NEW f \in Id, Stored(f)' => Stored(f) /\ SameFlow(flows[f], flows'[f]),
           revision' \in Nat, sequence' \in Nat, revision <= revision', sequence <= sequence',
           saved'[f] = saved[f], exchanged'[f] = exchanged[f], issued \subseteq issued'
    PROVE  FlowFacts(f)'
<1>1. FlowFacts(f) /\ revision \in Nat /\ sequence \in Nat BY DEF IInv, TypeOK
<1>2. Unspent(f)' <=> Unspent(f) BY DEF Unspent
<1>3. ASSUME Stored(f)' PROVE Dated(flows[f])' /\ Honest(f, flows[f])'
  <2>1. Stored(f) /\ SameFlow(flows[f], flows'[f]) /\ Dated(flows[f]) /\ Honest(f, flows[f])
      BY <1>1, <1>3 DEF FlowFacts
  <2>2. flows[f].revision \in Nat /\ flows[f].sequence \in Nat
      BY <2>1, EntryFields DEF IInv, TypeOK, Stored
  <2>3. flows'[f].revision <= revision' /\ flows'[f].sequence <= sequence'
      BY <1>1, <2>1, <2>2 DEF Dated, SameFlow
  <2>4. Dated(flows[f])' BY <2>1, <2>3 DEF Dated, SameFlow
  <2>5. Honest(f, flows[f])' BY <1>2, <2>1 DEF Honest, SameFlow
  <2> QED BY <2>4, <2>5
<1> QED BY <1>1, <1>2, <1>3 DEF FlowFacts

\* A step that sweeps the store keeps the facts about every flow, and disturbs nobody.
LEMMA SweptFlows ==
    ASSUME IInv, NEW gone, Swept(gone), UNCHANGED <<revision, sequence, saved, exchanged>>,
           issued \subseteq issued'
    PROVE  \A f \in Id : FlowFacts(f)'
<1> SUFFICES ASSUME NEW f \in Id PROVE FlowFacts(f)' OBVIOUS
<1>1. FlowFacts(f) BY DEF IInv
<1>2. Stored(f)' => Stored(f) /\ SameFlow(flows[f], flows'[f]) BY DEF Swept, Kept, Stored
<1>3. revision' \in Nat /\ sequence' \in Nat /\ revision <= revision' /\ sequence <= sequence'
    BY DEF IInv, TypeOK
<1>4. saved' = saved /\ exchanged' = exchanged OBVIOUS
<1> QED BY <1>2, <1>3, <1>4, SameFlowFacts

\* A sweep keeps what the requests at work know.
LEMMA SweptOthers ==
    ASSUME IInv, NEW gone, Swept(gone), UNCHANGED <<revision, sequence, saved, exchanged>>,
           issued \subseteq issued', NEW t \in Thread, Moved(t)
    PROVE  \A u \in Thread \ {t} : Undisturbed(u)
<1> SUFFICES ASSUME NEW u \in Thread \ {t} PROVE Undisturbed(u) OBVIOUS
<1>1. RequestFacts(u) /\ issued \subseteq Id /\ revision \in Nat BY DEF IInv, TypeOK
<1>2. pc[u] \in Entered => local[u].id \in Id BY <1>1 DEF RequestFacts
<1>3. \A f \in Id : flows'[f] # None => Stored(f) /\ SameFlow(flows[f], flows'[f])
    BY DEF Swept, Kept, Stored
<1>4. pc[u] = "create" => ~Stored(local[u].id) BY <1>1 DEF RequestFacts, Creating
<1>5. {"create"} \cup Polling \cup Spending \subseteq Entered BY DEF Entered
<1> QED BY <1>1, <1>2, <1>3, <1>4, <1>5 DEF Undisturbed, Moved

----------------------------------------------------------------------------
(* What a step does to each flow, in the terms of Grant.                   *)

\* Flow g takes a step of Grant, or none.
GrantStep(g) ==
    \/ Promise!Start(g) \/ Promise!Spend(g) \/ Promise!Save(g) \/ Promise!GiveUp(g)
    \/ Promise!Settle(g) \/ Promise!Forget(g)
    \/ Promise!Moves(g, grantStatus[g], grantHeld[g], grantSaved[g])

\* The refinement mapping at one flow.
LEMMA GrantState ==
    ASSUME NEW g \in Id
    PROVE  /\ grantStatus[g] = Status(g) /\ grantStatus'[g] = Status(g)'
           /\ grantHeld[g] \in BOOLEAN /\ grantHeld'[g] \in BOOLEAN
           /\ (grantHeld[g] <=> Held(g)) /\ (grantHeld'[g] <=> Held(g)')
           /\ grantSaved[g] \in BOOLEAN /\ grantSaved'[g] \in BOOLEAN
           /\ (grantSaved[g] <=> saved[g] > 0) /\ (grantSaved'[g] <=> saved'[g] > 0)
<1>1. grantStatus[g] = Status(g) BY DEF grantStatus
<1>2. grantStatus'[g] = Status(g)' BY DEF grantStatus
<1>3. grantHeld[g] = Held(g) BY Zenon DEF grantHeld
<1>4. grantHeld'[g] = Held(g)' BY Zenon DEF grantHeld
<1>5. grantSaved[g] = (saved[g] > 0) BY Zenon DEF grantSaved
<1>6. grantSaved'[g] = (saved'[g] > 0) BY Zenon DEF grantSaved
<1>7. Held(g) \in BOOLEAN /\ Held(g)' \in BOOLEAN BY DEF Held
<1>8. (saved[g] > 0) \in BOOLEAN /\ (saved'[g] > 0) \in BOOLEAN OBVIOUS
<1>9. grantHeld[g] \in BOOLEAN /\ (grantHeld[g] <=> Held(g)) BY <1>3, <1>7, Zenon
<1>10. grantHeld'[g] \in BOOLEAN /\ (grantHeld'[g] <=> Held(g)') BY <1>4, <1>7, Zenon
<1>11. grantSaved[g] \in BOOLEAN /\ (grantSaved[g] <=> saved[g] > 0) BY <1>5, <1>8, Zenon
<1>12. grantSaved'[g] \in BOOLEAN /\ (grantSaved'[g] <=> saved'[g] > 0) BY <1>6, <1>8, Zenon
<1> QED BY <1>1, <1>2, <1>9, <1>10, <1>11, <1>12

\* What a step of Grant needs, read off the flow that moved.
LEMMA GrantMoves ==
    ASSUME NEW g \in Id, NEW s, NEW h \in BOOLEAN, NEW c \in BOOLEAN,
           Status(g)' = s, Held(g)' <=> h, saved'[g] > 0 <=> c
    PROVE  Promise!Moves(g, s, h, c)
<1>1. grantStatus'[g] = s BY GrantState
<1>2. grantHeld'[g] \in BOOLEAN /\ (grantHeld'[g] <=> Held(g)') BY GrantState
<1>3. grantHeld'[g] = h BY <1>2
<1>4. grantSaved'[g] \in BOOLEAN /\ (grantSaved'[g] <=> saved'[g] > 0) BY GrantState
<1>5. grantSaved'[g] = c BY <1>4
<1> QED BY <1>1, <1>3, <1>5 DEF Promise!Moves

\* A flow whose right and credential stay as they are may keep its status or be forgotten.
LEMMA GrantStays ==
    ASSUME NEW g \in Id, Status(g)' = Status(g) \/ Status(g)' = "absent",
           Held(g)' <=> Held(g), saved'[g] = saved[g]
    PROVE  GrantStep(g)
<1>1. PICK h \in BOOLEAN : h = grantHeld[g] BY GrantState
<1>2. PICK c \in BOOLEAN : c = grantSaved[g] BY GrantState
<1>3. PICK s : s = Status(g)' OBVIOUS
<1>4. (Held(g)' <=> h) /\ (saved'[g] > 0 <=> c) BY <1>1, <1>2, GrantState
<1>5. Promise!Moves(g, s, h, c) BY <1>3, <1>4, GrantMoves
<1>6. CASE s = Status(g)
  <2>1. s = grantStatus[g] BY <1>6, GrantState
  <2> QED BY <1>1, <1>2, <1>5, <2>1 DEF GrantStep
<1>7. CASE s = "absent" /\ Status(g) # "absent"
  <2>1. grantStatus[g] # "absent" BY <1>7, GrantState
  <2> QED BY <1>1, <1>2, <1>5, <1>7, <2>1 DEF GrantStep, Promise!Forget
<1> QED BY <1>3, <1>6, <1>7

\* While a flow is stored its entry only advances.
FlowAdvances(g) == Stored(g) /\ Stored(g)' => Advances(flows[g], flows'[g])

\* What every step comes to.
Progress == IInv' /\ \A g \in Id : GrantStep(g) /\ FlowAdvances(g)

Holding == {"exchange", "save"}

\* Requests that hold no right take none from anybody.
LEMMA HeldKept ==
    ASSUME NEW t \in Thread, Moved(t), pc[t] \notin Holding, pc'[t] \notin Holding
    PROVE  \A g : Held(g)' <=> Held(g)
BY DEF Held, Holding, Moved

\* A flow that stays the same has advanced.
LEMMA SameAdvances ==
    ASSUME NEW g \in Id, flows \in Entries,
           Stored(g)' => Stored(g) /\ SameFlow(flows[g], flows'[g])
    PROVE  FlowAdvances(g)
<1> SUFFICES ASSUME Stored(g), Stored(g)' PROVE Advances(flows[g], flows'[g]) BY DEF FlowAdvances
<1>1. flows[g].interval \in Nat /\ flows[g].nextPoll \in Nat BY EntryFields DEF Entries, Stored
<1>2. flows'[g].interval >= flows[g].interval /\ flows'[g].nextPoll >= flows[g].nextPoll
    BY <1>1 DEF SameFlow
<1> QED BY <1>2 DEF Advances, SameFlow

\* A flow that a step keeps or deletes, while nobody gains or gives up a right.
LEMMA KeptProgress ==
    ASSUME NEW g \in Id, flows \in Entries,
           Stored(g)' => Stored(g) /\ SameFlow(flows[g], flows'[g]),
           Held(g)' <=> Held(g), saved'[g] = saved[g]
    PROVE  GrantStep(g) /\ FlowAdvances(g)
<1>1. Status(g)' = Status(g) \/ Status(g)' = "absent"
  <2>1. CASE ~Stored(g)' BY <2>1 DEF Status
  <2>2. CASE Stored(g)' BY <2>2 DEF Status, SameFlow
  <2> QED BY <2>1, <2>2
<1> QED BY <1>1, GrantStays, SameAdvances

\* A sweep is progress in the sense of FlowsAdvance and of Grant.
LEMMA SweptProgress ==
    ASSUME IInv, NEW t \in Thread, NEW gone, Swept(gone), UNCHANGED saved, Moved(t),
           pc[t] \notin Holding, pc'[t] \notin Holding
    PROVE  \A g \in Id : GrantStep(g) /\ FlowAdvances(g)
<1> SUFFICES ASSUME NEW g \in Id PROVE GrantStep(g) /\ FlowAdvances(g) OBVIOUS
<1>1. Stored(g)' => Stored(g) /\ SameFlow(flows[g], flows'[g]) BY DEF Swept, Kept, Stored
<1>2. flows \in Entries BY DEF IInv, TypeOK, Entries
<1>3. Held(g)' <=> Held(g) BY HeldKept
<1> QED BY <1>1, <1>2, <1>3, KeptProgress


----------------------------------------------------------------------------
(* The steps of the store that write nothing.                              *)

\* A step that drops or wipes flows, and moves one request.
LEMMA SweepStep ==
    ASSUME IInv, NEW t \in Thread, NEW gone, Swept(gone), Moved(t), Fits(t),
           UNCHANGED <<revision, sequence, now, saved, exchanged>>,
           issued \subseteq issued', issued' \subseteq Id, begun' \in Nat,
           pc[t] \notin Holding, pc'[t] \notin Holding
    PROVE  Progress
<1>1. flows \in Entries /\ states \in Index /\ TypeOK BY DEF IInv, TypeOK, Entries, Index
<1>2. IndexExact' /\ states' \in Index BY <1>1, SweptIndex DEF IInv
<1>3. PendingCap' BY SweptCap DEF IInv
<1>4. Numbered' BY SweptNumbered DEF IInv
<1>5. TypeOK' BY <1>1, <1>2 DEF TypeOK, Swept, Moved, Entries, Index
<1>6. IInv' BY <1>2, <1>3, <1>4, <1>5, SweptFlows, SweptOthers, StepKeeps
<1> QED BY <1>6, SweptProgress DEF Progress

\* The special cases of it: a request returns, or goes on and leaves the store alone.
LEMMA ReturnStep ==
    ASSUME IInv, NEW t \in Thread, Return(t), Keep, pc[t] \notin Holding,
           \/ UNCHANGED store
           \/ \E c : \E f \in Id : Refused(c, f)
           \/ \E f, e : CreateExists(f, e)
    PROVE  Progress
<1>1. /\ flows \in Entries /\ states \in Index /\ now \in Nat /\ pc \in [Thread -> Labels]
      /\ local \in [Thread -> Local] /\ issued \subseteq Id /\ begun \in Nat
    BY DEF IInv, TypeOK, Entries, Index
<1>2. Moved(t) /\ Fits(t) BY <1>1, ReturnFits
<1>3. \E gone : Swept(gone) /\ UNCHANGED <<revision, sequence>>
  <2>1. CASE UNCHANGED store BY <1>1, <2>1, NoSweep DEF store
  <2>2. ASSUME NEW c, NEW f \in Id, Refused(c, f) PROVE \E gone : Swept(gone)
      BY <1>1, <2>2, RefusedSweeps
  <2>3. ASSUME NEW f, NEW e, CreateExists(f, e) PROVE \E gone : Swept(gone)
      BY <1>1, <2>3, ExistsSweeps
  <2> QED BY <2>1, <2>2, <2>3 DEF Refused, CreateExists
<1>4. PICK gone : Swept(gone) /\ UNCHANGED <<revision, sequence>> BY <1>3
<1>5. pc'[t] \notin Holding BY <1>1 DEF Return, Goto, Holding
<1> QED BY <1>1, <1>2, <1>4, <1>5, SweepStep DEF Keep

\* A step that touches neither the store nor what was exchanged and saved.
LEMMA QuietStep ==
    ASSUME IInv, NEW t \in Thread, Moved(t), Fits(t), UNCHANGED store, Keep,
           pc[t] \notin Holding, pc'[t] \notin Holding
    PROVE  Progress
<1>1. flows \in Entries /\ states \in Index /\ issued \subseteq Id /\ begun \in Nat
    BY DEF IInv, TypeOK, Entries, Index
<1>2. Swept({}) /\ UNCHANGED <<revision, sequence>> BY <1>1, NoSweep DEF store
<1> QED BY <1>1, <1>2, SweepStep DEF Keep

----------------------------------------------------------------------------
(* Each step keeps the invariant.                                          *)

\* The empty store, with no request at work.
LEMMA InitIInv == Init => IInv
<1> SUFFICES ASSUME Init PROVE IInv OBVIOUS
<1> USE DEF Init, StoreInit
<1>1. TypeOK
  <2>1. NoLocal \in Local BY DEF NoLocal, Local, Outcomes
  <2> QED BY <2>1 DEF TypeOK, Labels
<1>2. IndexExact BY DEF IndexExact, Stored
<1>3. PendingCap
  <2>1. \A c : PendingOf(c) = {} BY DEF PendingOf, Stored
  <2> QED BY <2>1, FS_EmptySet, StoreConstants DEF PendingCap
<1>4. Numbered BY DEF Numbered, Stored
<1>5. \A f \in Id : FlowFacts(f) BY DEF FlowFacts, Unspent, Stored
<1>6. \A t \in Thread : RequestFacts(t)
    BY DEF RequestFacts, Early, Asked, Polling, Spending, Entered
<1>7. \A t, u \in Thread : t # u => Apart(t, u)
    BY DEF Apart, Asked, Polling, Spending, Entered
<1> QED BY <1>1, <1>2, <1>3, <1>4, <1>5, <1>6, <1>7 DEF IInv

\* Time may pass: pending flows expire, and nothing else changes.
LEMMA IdleStep ==
    ASSUME IInv, UNCHANGED <<store, pc, local, begun, issued, exchanged, saved>>,
           now' \in Nat, now' >= now
    PROVE  Progress
<1> USE DEF store
<1>1. TypeOK' BY DEF IInv, TypeOK
<1>2. IndexExact' /\ Numbered' BY DEF IInv, IndexExact, Numbered, Stored
<1>3. PendingCap'
  <2>1. \A f \in Id : Stored(f) => flows[f].expires \in Nat
      BY EntryFields DEF IInv, TypeOK, Stored
  <2>2. ASSUME NEW c \in Caller PROVE PendingOf(c)' \subseteq PendingOf(c)
      BY <2>1 DEF PendingOf, Pending, Expired, Stored, IInv, TypeOK
  <2> QED BY <2>2, CapKept DEF IInv
<1>4. \A f \in Id : FlowFacts(f)' BY DEF IInv, FlowFacts, Unspent, Stored, Dated, Honest
<1>5. ASSUME NEW t \in Thread PROVE RequestFacts(t)'
  <2>1. revision \in Nat /\ RequestFacts(t) /\ TypeOK BY DEF IInv, TypeOK
  <2>2. pc[t] = "create" => flows[local[t].id] = None BY <2>1 DEF RequestFacts, Creating, Stored
  <2>3. Undisturbed(t) BY <2>1, <2>2, SameItself DEF Undisturbed, Stored
  <2> QED BY <1>1, <2>1, <2>3, OtherFacts
<1>6. \A t, u \in Thread : t # u => Apart(t, u)' BY DEF IInv, Apart
<1>7. ASSUME NEW g \in Id PROVE GrantStep(g) /\ FlowAdvances(g)
  <2>1. Stored(g)' => Stored(g) /\ SameFlow(flows[g], flows'[g]) BY SameItself DEF Stored
  <2>2. (Held(g)' <=> Held(g)) /\ flows \in Entries BY DEF Held, IInv, TypeOK, Entries
  <2> QED BY <2>1, <2>2, KeptProgress
<1> QED BY <1>1, <1>2, <1>3, <1>4, <1>5, <1>6, <1>7 DEF IInv, Progress

\* A request begins with locals l at a label: it fits if its facts hold.
LEMMA BeginStep ==
    ASSUME IInv, NEW t \in Thread, NEW label \in Labels \ Holding, NEW l \in Local,
           Begin(t, label, l),
           issued \subseteq issued', issued' \subseteq Id, Fits(t)
    PROVE  Progress
<1>1. /\ flows \in Entries /\ states \in Index /\ begun \in Nat
      /\ pc \in [Thread -> Labels] /\ local \in [Thread -> Local]
    BY DEF IInv, TypeOK, Entries, Index
<1>2. Moved(t) BY <1>1 DEF Moved, Begin, Goto
<1>3. Swept({}) /\ UNCHANGED <<revision, sequence, now, saved, exchanged>>
    BY <1>1, NoSweep DEF Begin, store
<1>4. begun' \in Nat BY <1>1 DEF Begin
<1>5. pc[t] \notin Holding /\ pc'[t] \notin Holding BY <1>1 DEF Begin, Goto, Holding
<1> QED BY <1>2, <1>3, <1>4, <1>5, SweepStep

\* Every request but Start begins with no flow in hand.
LEMMA EarlyStep ==
    ASSUME IInv, NEW t \in Thread, NEW label \in Early, NEW l \in Local, Begin(t, label, l),
           issued' = issued, l.flow = None,
           label = "resolve" => l.id = None /\ l.state \in State,
           label # "resolve" => l.id \in issued
    PROVE  Progress
<1>1. pc'[t] = label /\ local'[t] = l BY DEF Begin, Goto, IInv, TypeOK
<1>2. label \in Labels \ Holding /\ label \notin Entered /\ label \notin {"idle", "create"}
    BY DEF Early, Labels, Holding, Entered, Polling, Asked, Spending
<1>3. Polling \subseteq Entered /\ Asked \subseteq Entered /\ Spending \subseteq Entered
      /\ "claim" \in Entered
    BY DEF Entered, Polling
<1>4. RequestFacts(t)' BY <1>1, <1>2, <1>3 DEF RequestFacts
<1>5. \A u \in Thread \ {t} : Apart(t, u)' /\ Apart(u, t)' BY <1>1, <1>2, <1>3 DEF Apart
<1>6. Fits(t) BY <1>4, <1>5 DEF Fits
<1>7. issued \subseteq Id BY DEF IInv, TypeOK
<1> QED BY <1>2, <1>6, <1>7, BeginStep

\* Start: the id is new, so no other request works on it.
LEMMA StartStep ==
    ASSUME IInv, NEW t \in Thread, NEW c \in Caller, NEW m \in Method, NEW f \in Id,
           NEW s \in State \cup {None}, StartFlow(t, c, m, f, s)
    PROVE  Progress
<1> DEFINE i == IF m = "device" THEN Interval ELSE 0
           n == IF m = "device" THEN now + Interval ELSE 0
           e == [owner |-> c, method |-> m, created |-> now, expires |-> now + TTL,
                 sequence |-> 0, revision |-> 0, consumed |-> FALSE, secret |-> TRUE,
                 state |-> s, indexed |-> s # None, interval |-> i, nextPoll |-> n,
                 outcome |-> ""]
           l == [NoLocal EXCEPT !.op = "start", !.caller = c, !.id = f, !.clock = now, !.flow = e]
<1>1. f \notin issued /\ issued' = issued \cup {f} /\ Begin(t, "create", l) BY DEF StartFlow
<1>2. now \in Nat /\ issued \subseteq Id BY DEF IInv, TypeOK
<1>3. e \in Entry
  <2>1. i \in Nat /\ n \in Nat /\ now + TTL \in Nat /\ m \in Methods BY <1>2, ServiceConstants
  <2>2. (s # None) \in BOOLEAN OBVIOUS
  <2> HIDE DEF i, n
  <2> QED BY <1>2, <2>1, <2>2 DEF Entry, Outcomes
<1>4. /\ e.owner = c /\ ~e.consumed /\ (e.indexed <=> e.state # None) /\ e.outcome = ""
      /\ (e.method = "device" => e.interval >= Interval)
  <2>1. /\ e.owner = c /\ ~e.consumed /\ (e.indexed <=> s # None) /\ e.state = s
        /\ e.outcome = "" /\ e.method = m /\ e.interval = i
      OBVIOUS
  <2>2. m = "device" => i >= Interval BY ServiceConstants
  <2> HIDE DEF e, i
  <2> QED BY <2>1, <2>2
<1> HIDE DEF e
<1>5. l \in Local /\ l.id = f /\ l.flow = e /\ l.caller = c
    BY <1>2, <1>3 DEF NoLocal, Local, Outcomes
<1>6. pc'[t] = "create" /\ local'[t] = l BY <1>1 DEF Begin, Goto, IInv, TypeOK
<1>7. ~Stored(f) /\ Unspent(f) /\ UNCHANGED <<flows, saved, exchanged>>
    BY <1>1 DEF IInv, FlowFacts, Begin, store
<1>8. RequestFacts(t)'
  <2>1. Creating(t)' BY <1>4, <1>5, <1>6, <1>7 DEF Creating, Unspent, Stored
  <2>2. "create" \notin {"idle", "view", "resolve", "get", "claim"} \cup Early \cup Polling
                         \cup Asked \cup Spending
      BY DEF Early, Polling, Asked, Spending
  <2> QED BY <1>1, <1>3, <1>4, <1>5, <1>6, <2>1, <2>2 DEF RequestFacts
<1>9. ASSUME NEW u \in Thread \ {t} PROVE Apart(t, u)' /\ Apart(u, t)'
  <2>1. pc'[u] = pc[u] /\ local'[u] = local[u] BY <1>1 DEF Begin, Goto, IInv, TypeOK
  <2>2. pc[u] \in Entered => local[u].id \in issued BY DEF IInv, RequestFacts
  <2>3. Asked \subseteq Entered /\ Spending \subseteq Entered /\ "create" \in Entered
        /\ "create" \notin Asked /\ "create" \notin Spending
      BY DEF Entered, Polling, Asked, Spending
  <2> QED BY <1>1, <1>5, <1>6, <2>1, <2>2, <2>3 DEF Apart
<1>10. Fits(t) BY <1>8, <1>9 DEF Fits
<1>11. issued \subseteq issued' /\ issued' \subseteq Id BY <1>1, <1>2
<1> QED BY <1>1, <1>5, <1>10, <1>11, BeginStep DEF Labels, Holding

\* A request arrives.
LEMMA EnterStep ==
    ASSUME IInv, NEW t \in Thread, Enter(t)
    PROVE  Progress
<1> USE DEF NoLocal, Local, Outcomes, Early, Inputs
<1>1. ASSUME NEW c \in Caller, NEW m \in Method, NEW f \in Id, NEW s \in State \cup {None},
             StartFlow(t, c, m, f, s)
      PROVE  Progress
    BY <1>1, StartStep
<1>2. ASSUME NEW c \in Caller, NEW f \in issued, UNCHANGED issued,
             Begin(t, "view", [NoLocal EXCEPT !.op = "get", !.caller = c, !.id = f])
      PROVE  Progress
  <2> DEFINE l == [NoLocal EXCEPT !.op = "get", !.caller = c, !.id = f]
  <2>1. f \in Id BY DEF IInv, TypeOK
  <2>2. l \in Local /\ l.flow = None /\ l.id = f BY <2>1
  <2> HIDE DEF l
  <2> QED BY <1>2, <2>2, EarlyStep DEF l
<1>3. ASSUME NEW c \in Caller, NEW f \in issued, UNCHANGED issued,
             Begin(t, "get", [NoLocal EXCEPT !.op = "poll", !.caller = c, !.id = f])
      PROVE  Progress
  <2> DEFINE l == [NoLocal EXCEPT !.op = "poll", !.caller = c, !.id = f]
  <2>1. f \in Id BY DEF IInv, TypeOK
  <2>2. l \in Local /\ l.flow = None /\ l.id = f BY <2>1
  <2> HIDE DEF l
  <2> QED BY <1>3, <2>2, EarlyStep DEF l
<1>4. ASSUME NEW c \in Caller, NEW f \in issued, UNCHANGED issued,
             NEW s \in State \cup {None}, NEW i \in {"code", "error"},
             Begin(t, "get", [NoLocal EXCEPT !.op = "complete", !.caller = c, !.id = f,
                                             !.state = s, !.input = i])
      PROVE  Progress
  <2> DEFINE l == [NoLocal EXCEPT !.op = "complete", !.caller = c, !.id = f,
                                  !.state = s, !.input = i]
  <2>1. f \in Id BY DEF IInv, TypeOK
  <2>2. l \in Local /\ l.flow = None /\ l.id = f BY <2>1
  <2> HIDE DEF l
  <2> QED BY <1>4, <2>2, EarlyStep DEF l
<1>5. ASSUME UNCHANGED issued, NEW s \in State, NEW i \in Inputs,
             Begin(t, "resolve", [NoLocal EXCEPT !.op = "callback", !.state = s, !.input = i])
      PROVE  Progress
  <2> DEFINE l == [NoLocal EXCEPT !.op = "callback", !.state = s, !.input = i]
  <2>2. l \in Local /\ l.flow = None /\ l.id = None /\ l.state = s OBVIOUS
  <2> HIDE DEF l
  <2> QED BY <1>5, <2>2, EarlyStep DEF l
<1> QED BY <1>1, <1>2, <1>3, <1>4, <1>5 DEF Enter

\* A write that is honest about its flow keeps the invariant, if no other request is
\* spending the flow.
LEMMA WriteStep ==
    ASSUME IInv, NEW t \in Thread, NEW f \in Id, NEW d \in Entry, Written(f, d), Honest(f, d),
           Moved(t), Fits(t), Keep, IndexExact', states' \in Index,
           \A u \in Thread \ {t} : pc[u] \in Spending => local[u].id # f
    PROVE  IInv'
<1>1. /\ flows \in Entries /\ TypeOK /\ PendingCap /\ Numbered /\ revision \in Nat
      /\ sequence \in Nat /\ revision' = revision + 1 /\ sequence' = sequence
      /\ UNCHANGED <<now, begun, issued, exchanged, saved>> /\ d \in Entry
    BY DEF IInv, TypeOK, Entries, Written, Keep
<1>2. /\ flows' \in Entries /\ PendingCap' /\ Numbered' /\ flows'[f] = d /\ Stored(f)'
      /\ \A g \in Id \ {f} : flows'[g] = flows[g]
    BY <1>1, WrittenStore
<1>3. TypeOK'
  <2>1. /\ revision' \in Nat /\ sequence' \in Nat /\ now' \in Nat /\ begun' \in Nat
        /\ issued' \subseteq Id /\ exchanged' \in [Id -> Nat] /\ saved' \in [Id -> Nat]
      BY <1>1 DEF TypeOK
  <2> QED BY <1>2, <2>1 DEF TypeOK, Entries, Index, Moved
<1>4. ASSUME NEW g \in Id PROVE FlowFacts(g)'
  <2>1. FlowFacts(g) BY DEF IInv
  <2>2. CASE g # f
    <3>1. Stored(g)' => Stored(g) /\ SameFlow(flows[g], flows'[g])
        BY <1>2, <2>2, SameItself DEF Stored
    <3>2. revision' \in Nat /\ revision <= revision' /\ sequence' \in Nat /\ sequence <= sequence'
        BY <1>1
    <3>3. saved' = saved /\ exchanged' = exchanged /\ issued' = issued BY <1>1
    <3> QED BY <3>1, <3>2, <3>3, SameFlowFacts
  <2>3. CASE g = f
    <3>1. /\ Stored(f) /\ d.revision = revision + 1 /\ d.sequence = flows[f].sequence
          /\ d.method = flows[f].method /\ d.interval >= flows[f].interval
          /\ (flows[f].consumed => d.consumed)
        BY DEF Written
    <3>2. flows[f].interval \in Nat /\ d.interval \in Nat
        BY <1>1, <3>1, EntryFields DEF Entries, Stored
    <3>3. Dated(flows[f]) /\ f \in issued BY <2>1, <2>3, <3>1 DEF FlowFacts
    <3>4. Dated(d)'
      <4>1. /\ flows[f].sequence <= sequence
            /\ flows[f].method = "device" => flows[f].interval >= Interval
          BY <3>3 DEF Dated
      <4>2. d.revision <= revision' /\ d.sequence <= sequence' BY <1>1, <3>1, <4>1
      <4>3. d.method = "device" => d.interval >= Interval
          BY <3>1, <3>2, <4>1, ServiceConstants
      <4> QED BY <4>2, <4>3 DEF Dated
    <3>5. saved' = saved /\ exchanged' = exchanged /\ issued' = issued BY <1>1
    <3>6. Honest(f, d)' BY <3>5 DEF Honest, Unspent
    <3> QED BY <1>2, <2>1, <2>3, <3>3, <3>4, <3>5, <3>6 DEF FlowFacts, Unspent
  <2> QED BY <2>2, <2>3
<1>5. ASSUME NEW u \in Thread \ {t} PROVE Undisturbed(u)
  <2>1. RequestFacts(u) /\ issued \subseteq Id BY DEF IInv, TypeOK
  <2>2. pc[u] \in Entered => local[u].id \in Id BY <2>1 DEF RequestFacts
  <2>3. Stored(f) /\ d.revision = revision + 1 /\ d.nextPoll >= flows[f].nextPoll BY DEF Written
  <2>4. pc[u] = "create" => ~Stored(local[u].id) BY <2>1 DEF RequestFacts, Creating
  <2>5. {"create"} \cup Polling \cup Spending \subseteq Entered BY DEF Entered
  <2>6. \A g \in Id : flows'[g] # None =>
            /\ Stored(g)
            /\ \/ SameFlow(flows[g], flows'[g])
               \/ /\ g = f /\ flows'[g].revision = revision + 1
                  /\ flows'[g].nextPoll >= flows[g].nextPoll
    <3>1. \A g \in Id \ {f} : flows'[g] # None => Stored(g) /\ SameFlow(flows[g], flows'[g])
        BY <1>2, SameItself DEF Stored
    <3>2. flows'[f].revision = revision + 1 /\ flows'[f].nextPoll >= flows[f].nextPoll
        BY <1>2, <2>3
    <3> QED BY <2>3, <3>1, <3>2, Zenon
  <2>7. pc[u] = "create" => flows'[local[u].id] = None
      BY <1>2, <2>2, <2>3, <2>4, <2>5 DEF Stored
  <2>8. pc'[u] = pc[u] /\ local'[u] = local[u] BY DEF Moved
  <2>9. pc[u] \in Spending => local[u].id # f OBVIOUS
  <2> QED BY <1>1, <2>2, <2>5, <2>6, <2>7, <2>8, <2>9 DEF Undisturbed
<1> QED BY <1>2, <1>3, <1>4, <1>5, StepKeeps

\* A write advances the flow it is over, and leaves every other.
LEMMA WrittenAdvances ==
    ASSUME IInv, NEW f \in Id, NEW d \in Entry, Written(f, d), now' = now,
           flows[f].outcome # "" => d.outcome = flows[f].outcome,
           (d.consumed <=> flows[f].consumed) \/ ~Expired(flows[f])
    PROVE  /\ FlowAdvances(f) /\ flows'[f] = d /\ Stored(f) /\ Stored(f)'
           /\ \A g \in Id \ {f} : flows'[g] = flows[g]
<1>1. /\ flows'[f] = d /\ Stored(f) /\ Stored(f)' /\ \A g \in Id \ {f} : flows'[g] = flows[g]
    BY NoneIsNoEntry DEF IInv, TypeOK, Written, Stored
<1>2. /\ (flows[f].consumed => d.consumed)
      /\ d.interval >= flows[f].interval /\ d.nextPoll >= flows[f].nextPoll
    BY DEF Written
<1>3. Advances(flows[f], d) BY <1>2 DEF Advances
<1> QED BY <1>1, <1>3 DEF FlowAdvances

\* A write that neither consumes nor settles its flow is no step of Grant.
LEMMA UpdateProgress ==
    ASSUME IInv, NEW t \in Thread, NEW f \in Id, NEW d \in Entry, Written(f, d), Keep, Moved(t),
           pc[t] \notin Holding, pc'[t] \notin Holding,
           d.consumed <=> flows[f].consumed, d.outcome = flows[f].outcome
    PROVE  \A g \in Id : GrantStep(g) /\ FlowAdvances(g)
<1>1. now' = now /\ saved' = saved /\ flows \in Entries BY DEF Keep, IInv, TypeOK, Entries
<1>2. /\ FlowAdvances(f) /\ flows'[f] = d /\ Stored(f) /\ Stored(f)'
      /\ \A g \in Id \ {f} : flows'[g] = flows[g]
    BY <1>1, WrittenAdvances
<1>3. \A g : Held(g)' <=> Held(g) BY HeldKept
<1>4. Status(f)' = Status(f) BY <1>2 DEF Status
<1>5. GrantStep(f) BY <1>1, <1>3, <1>4, GrantStays
<1>6. ASSUME NEW g \in Id \ {f} PROVE GrantStep(g) /\ FlowAdvances(g)
  <2>1. Stored(g)' => Stored(g) /\ SameFlow(flows[g], flows'[g]) BY <1>2, SameItself DEF Stored
  <2> QED BY <1>1, <1>3, <2>1, KeptProgress
<1> QED BY <1>2, <1>5, <1>6

\* Entry d is flow f consumed, or its outcome o recorded.
Spends(f, d) ==
    /\ ~flows[f].consumed /\ d.consumed /\ ~Expired(flows[f])
    /\ flows[f].outcome = "" /\ d.outcome = ""

Settles(f, d, o) ==
    /\ flows[f].consumed /\ d.consumed
    /\ flows[f].outcome = "" /\ d.outcome = o

\* Consuming a flow spends it.
LEMMA ConsumeProgress ==
    ASSUME IInv, NEW t \in Thread, NEW f \in Id, NEW d \in Entry, Written(f, d), Keep, Moved(t),
           pc[t] \notin Holding, local'[t].id = f, Spends(f, d), saved[f] = 0
    PROVE  \A g \in Id : GrantStep(g) /\ FlowAdvances(g)
<1>1. now' = now /\ saved' = saved /\ flows \in Entries BY DEF Keep, IInv, TypeOK, Entries
<1>2. /\ FlowAdvances(f) /\ flows'[f] = d /\ Stored(f) /\ Stored(f)'
      /\ \A g \in Id \ {f} : flows'[g] = flows[g]
    BY <1>1, WrittenAdvances DEF Spends
<1>3. \A g \in Id \ {f} : Held(g)' <=> Held(g) BY DEF Held, Holding, Moved
<1>4. Status(f) = "pending" /\ Status(f)' = "spent" BY <1>2 DEF Status, Spends
<1>5. GrantStep(f)
  <2>1. PICK h \in BOOLEAN : h = grantHeld'[f] BY GrantState
  <2>2. Held(f)' <=> h BY <2>1, GrantState, Zenon
  <2>5. saved'[f] > 0 <=> FALSE BY <1>1
  <2>3. Promise!Moves(f, "spent", h, FALSE) BY <1>4, <2>2, <2>5, GrantMoves
  <2>4. grantStatus[f] = "pending" BY <1>4, GrantState
  <2> QED BY <2>3, <2>4 DEF GrantStep, Promise!Spend
<1>6. ASSUME NEW g \in Id \ {f} PROVE GrantStep(g) /\ FlowAdvances(g)
  <2>1. Stored(g)' => Stored(g) /\ SameFlow(flows[g], flows'[g]) BY <1>2, SameItself DEF Stored
  <2> QED BY <1>1, <1>3, <2>1, KeptProgress
<1> QED BY <1>2, <1>5, <1>6

\* Recording the outcome settles it.
LEMMA FinishProgress ==
    ASSUME IInv, NEW t \in Thread, NEW f \in Id, NEW d \in Entry, Written(f, d), Keep, Moved(t),
           pc[t] \notin Holding, pc'[t] \notin Holding, ~Held(f),
           NEW o, Settles(f, d, o), Reached(f, "finish", o)
    PROVE  \A g \in Id : GrantStep(g) /\ FlowAdvances(g)
<1>1. now' = now /\ saved' = saved /\ flows \in Entries BY DEF Keep, IInv, TypeOK, Entries
<1>2. /\ FlowAdvances(f) /\ flows'[f] = d /\ Stored(f) /\ Stored(f)'
      /\ \A g \in Id \ {f} : flows'[g] = flows[g]
    BY <1>1, WrittenAdvances DEF Settles
<1>3. \A g : Held(g)' <=> Held(g) BY HeldKept
<1>4. o # "" /\ Status(f) = "spent" /\ Status(f)' = o BY <1>2 DEF Status, Reached, Settles
<1>5. GrantStep(f)
  <2>1. PICK c \in BOOLEAN : c = grantSaved[f] BY GrantState
  <2>2. (Held(f)' <=> FALSE) /\ (saved'[f] > 0 <=> c) BY <1>1, <1>3, <2>1, GrantState
  <2>3. Promise!Moves(f, o, FALSE, c) BY <1>4, <2>2, GrantMoves
  <2>4. grantStatus[f] = "spent" /\ ~grantHeld[f] BY <1>4, GrantState
  <2>5. o \in IF grantSaved[f] THEN {"complete"} ELSE {"failed", "expired"}
    <3>1. CASE o = "complete" /\ saved[f] = 1
      <4>1. saved[f] > 0 BY <3>1
      <4>2. grantSaved[f] BY <4>1, GrantState, Zenon
      <4> QED BY <3>1, <4>2
    <3>2. CASE o \in {"failed", "expired"} /\ saved[f] = 0
      <4>1. ~(saved[f] > 0) BY <3>2
      <4>2. ~grantSaved[f] BY <4>1, GrantState, Zenon
      <4> QED BY <3>2, <4>2
    <3> QED BY <3>1, <3>2 DEF Reached
  <2> QED BY <2>1, <2>3, <2>4, <2>5 DEF GrantStep, Promise!Settle
<1>6. ASSUME NEW g \in Id \ {f} PROVE GrantStep(g) /\ FlowAdvances(g)
  <2>1. Stored(g)' => Stored(g) /\ SameFlow(flows[g], flows'[g]) BY <1>2, SameItself DEF Stored
  <2> QED BY <1>1, <1>3, <2>1, KeptProgress
<1> QED BY <1>2, <1>5, <1>6

\* Start stores its flow.
LEMMA CreateStep ==
    ASSUME IInv, NEW t \in Thread, CreateFlow(t)
    PROVE  Progress
<1> DEFINE f == local[t].id
           e == local[t].flow
<1>1. pc[t] = "create" /\ Return(t) /\ Keep BY DEF CreateFlow
<1>2. /\ f \in Id /\ f \in issued /\ e \in Entry /\ Creating(t)
  <2>1. RequestFacts(t) /\ issued \subseteq Id BY DEF IInv, TypeOK
  <2> QED BY <1>1, <2>1 DEF RequestFacts, Entered
<1>3. /\ ~Stored(f) /\ Unspent(f) /\ ~e.consumed /\ (e.indexed <=> e.state # None)
      /\ e.outcome = "" /\ (e.method = "device" => e.interval >= Interval)
    BY <1>2 DEF Creating
<1>4. ASSUME NEW u \in Thread \ {t}, pc[u] \in Entered PROVE local[u].id # f
    BY <1>1, <1>4 DEF IInv, Apart
<1> HIDE DEF f, e
<1>5. CASE CreateExists(f, e) BY <1>1, <1>5, ReturnStep DEF Holding
<1>6. CASE Create(f, e)
  <2>1. /\ flows \in Entries /\ states \in Index /\ TypeOK /\ PendingCap /\ Numbered
        /\ IndexExact /\ revision \in Nat /\ sequence \in Nat /\ now \in Nat
        /\ UNCHANGED <<now, begun, issued, exchanged, saved>>
        /\ \A g \in Id : FlowFacts(g)
      BY <1>1 DEF IInv, TypeOK, Entries, Index, Keep
  <2>2. Moved(t) /\ Fits(t) BY <1>1, <2>1, ReturnFits DEF TypeOK
  <2>3. PICK gone : Created(f, e, gone) BY <1>2, <1>3, <1>6, <2>1, CreateCreates
  <2>4. IndexExact' /\ states' \in Index BY <1>2, <1>3, <1>6, <2>1, CreatedIndex
  <2>5. PendingCap' BY <1>2, <1>3, <1>6, <2>1, CreatedCap
  <2>6. \A g \in Id : Stored(g) => /\ flows[g].sequence <= sequence /\ flows[g].revision <= revision
                                   /\ flows[g].sequence \in Nat /\ flows[g].revision \in Nat
      BY <2>1, EntryFields DEF FlowFacts, Dated, Entries, Stored
  <2>7. Numbered' BY <1>2, <2>1, <2>3, <2>6, CreatedNumbered
  <2>8. revision' = revision + 1 /\ sequence' = sequence + 1 /\ flows' \in Entries
      BY <2>3 DEF Created
  <2>9. TypeOK' BY <2>1, <2>2, <2>4, <2>8 DEF TypeOK, Entries, Index, Moved
  <2>10. ASSUME NEW g \in Id PROVE FlowFacts(g)'
    <3>1. FlowFacts(g) BY <2>1
    <3>2. CASE g # f
      <4>1. Stored(g)' => Stored(g) /\ SameFlow(flows[g], flows'[g])
          BY <1>2, <2>1, <2>3, <3>2, CreatedFields
      <4>2. revision' \in Nat /\ revision <= revision' /\ sequence' \in Nat /\ sequence <= sequence'
          BY <2>1, <2>8
      <4> QED BY <2>1, <4>1, <4>2, SameFlowFacts
    <3>3. CASE g = f
      <4>1. /\ flows'[f].sequence = sequence + 1 /\ flows'[f].revision = revision + 1
            /\ flows'[f].method = e.method /\ (flows'[f].consumed <=> e.consumed)
            /\ flows'[f].outcome = e.outcome /\ flows'[f].interval = e.interval
          BY <1>2, <2>1, <2>3, CreatedFields
      <4>2. saved'[f] = 0 /\ exchanged'[f] = 0 /\ f \in issued' BY <1>2, <1>3, <2>1 DEF Unspent
      <4>3. flows'[f].revision <= revision' /\ flows'[f].sequence <= sequence'
          BY <2>1, <2>8, <4>1
      <4>4. Dated(flows[g])' BY <1>3, <3>3, <4>1, <4>3 DEF Dated
      <4>5. Honest(g, flows[g])' BY <1>3, <3>3, <4>1, <4>2 DEF Honest, Unspent
      <4> QED BY <3>3, <4>2, <4>4, <4>5 DEF FlowFacts
    <3> QED BY <3>2, <3>3
  <2>11. ASSUME NEW u \in Thread \ {t} PROVE Undisturbed(u)
    <3>1. RequestFacts(u) /\ issued \subseteq Id BY <2>1 DEF IInv, TypeOK
    <3>2. pc[u] \in Entered => local[u].id \in Id \ {f} BY <1>4, <3>1 DEF RequestFacts
    <3>3. \A g \in Id \ {f} : flows'[g] # None => Stored(g) /\ SameFlow(flows[g], flows'[g])
      <4>1. \A g \in Id \ {f} : Stored(g)' => Stored(g) /\ SameFlow(flows[g], flows'[g])
          BY <1>2, <2>1, <2>3, CreatedFields
      <4> QED BY <4>1 DEF Stored
    <3>4. pc[u] = "create" => ~Stored(local[u].id) BY <3>1 DEF RequestFacts, Creating
    <3>5. {"create"} \cup Polling \cup Spending \subseteq Entered BY DEF Entered
    <3>6. revision <= revision' BY <2>1, <2>8
    <3> QED BY <2>1, <2>2, <3>2, <3>3, <3>4, <3>5, <3>6 DEF Undisturbed, Moved
  <2>12. IInv' BY <2>2, <2>4, <2>5, <2>7, <2>9, <2>10, <2>11, StepKeeps
  <2>13. ASSUME NEW g \in Id PROVE GrantStep(g) /\ FlowAdvances(g)
    <3>1. \A x : Held(x)' <=> Held(x)
      <4>1. pc[t] \notin Holding /\ pc'[t] \notin Holding
          BY <1>1, <2>1 DEF Holding, Return, Goto, TypeOK
      <4> QED BY <2>2, <4>1, HeldKept
    <3>2. CASE g # f
      <4>1. Stored(g)' => Stored(g) /\ SameFlow(flows[g], flows'[g])
          BY <1>2, <2>1, <2>3, <3>2, CreatedFields
      <4> QED BY <2>1, <3>1, <4>1, KeptProgress
    <3>3. CASE g = f
      <4>1. flows'[f].consumed <=> e.consumed BY <1>2, <2>1, <2>3, CreatedFields
      <4>2. Status(g) = "absent" /\ Status(g)' = "pending"
        <5>1. ~Stored(g) /\ Stored(g)' /\ ~flows'[g].consumed
          <6>1. flows'[f] # None BY <2>3 DEF Created, Stored
          <6>2. ~flows'[f].consumed BY <1>3, <4>1
          <6> QED BY <1>3, <3>3, <6>1, <6>2 DEF Stored
        <5> QED BY <5>1 DEF Status
      <4>3. ~Held(g) BY <1>1, <1>4, <3>3 DEF Held, Entered, Spending
      <4>4. saved[g] = 0 /\ saved'[g] = 0 BY <1>3, <2>1, <3>3 DEF Unspent
      <4>5. (Held(g)' <=> FALSE) /\ (saved'[g] > 0 <=> FALSE) BY <3>1, <4>3, <4>4
      <4>6. Promise!Moves(g, "pending", FALSE, FALSE) BY <4>2, <4>5, GrantMoves
      <4>7. grantStatus[g] = "absent" /\ ~grantHeld[g] /\ ~grantSaved[g]
        <5>1. ~(saved[g] > 0) BY <4>4
        <5> QED BY <4>2, <4>3, <5>1, GrantState
      <4>8. GrantStep(g) BY <4>6, <4>7 DEF GrantStep, Promise!Start
      <4>9. FlowAdvances(g) BY <1>3, <3>3 DEF FlowAdvances
      <4> QED BY <4>8, <4>9
    <3> QED BY <3>2, <3>3
  <2> QED BY <2>12, <2>13 DEF Progress
<1> QED BY <1>5, <1>6 DEF CreateFlow, f, e

\* Get reads a flow of its caller.
LEMMA GetFlowStep ==
    ASSUME IInv, NEW t \in Thread, GetFlow(t)
    PROVE  Progress
<1>1. pc[t] = "view" /\ Return(t) /\ Keep BY DEF GetFlow
<1>2. local[t].id \in Id BY <1>1 DEF IInv, TypeOK, RequestFacts
<1>3. UNCHANGED store \/ \E c : \E f \in Id : Refused(c, f) BY <1>2 DEF GetFlow
<1> QED BY <1>1, <1>3, ReturnStep DEF Holding

\* A store call fails and the request ends.
LEMMA FailsStep ==
    ASSUME IInv, NEW t \in Thread, NEW label \in Labels \ Holding, Fails(t, label)
    PROVE  Progress
BY ReturnStep DEF Fails

\* A redirect's state names a flow that was issued, and its owner.
LEMMA ResolveStep ==
    ASSUME IInv, NEW t \in Thread, ResolveState(t)
    PROVE  Progress
<1>1. /\ pc[t] = "resolve" /\ Keep /\ local[t].state \in State /\ local[t].flow = None
      /\ flows \in Entries /\ states \in Index /\ local \in [Thread -> Local]
      /\ pc \in [Thread -> Labels]
    BY DEF ResolveState, IInv, TypeOK, RequestFacts, Early, Entries, Index
<1> DEFINE f == Resolved(local[t].state)
<1>2. f # None => f \in Id /\ Stored(f) BY <1>1 DEF Resolved, Index
<1>3. CASE /\ f # None /\ Verdict(flows[f].owner, f) = "ok"
           /\ local' = [local EXCEPT ![t] = [@ EXCEPT !.caller = flows[f].owner, !.id = f]]
           /\ Goto(t, "get") /\ UNCHANGED store
  <2> DEFINE l == [local[t] EXCEPT !.caller = flows[f].owner, !.id = f]
  <2>1. flows[f].owner \in Caller /\ f \in issued
      BY <1>1, <1>2, <1>3, EntryFields DEF IInv, FlowFacts, Entries, Stored
  <2>2. l \in Local /\ l.id = f /\ l.flow = None
    <3>1. local[t] \in Local BY <1>1
    <3> HIDE DEF f
    <3> QED BY <1>1, <1>2, <1>3, <2>1, <3>1 DEF Local
  <2>3. local' = [local EXCEPT ![t] = l] /\ pc' = [pc EXCEPT ![t] = "get"] BY <1>3 DEF Goto
  <2> HIDE DEF f, l
  <2>4. Moved(t) /\ local'[t] = l /\ pc'[t] = "get" BY <1>1, <2>2, <2>3 DEF Moved, Labels
  <2>5. issued' = issued BY <1>1 DEF Keep
  <2>6. "get" \notin {"idle", "resolve", "create", "claim"} \cup Entered \cup Polling
                      \cup Asked \cup Spending
      BY DEF Entered, Polling, Asked, Spending
  <2>7. RequestFacts(t)' BY <2>1, <2>2, <2>4, <2>5, <2>6 DEF RequestFacts
  <2>8. \A u \in Thread \ {t} : Apart(t, u)' /\ Apart(u, t)' BY <2>4, <2>6 DEF Apart
  <2> QED BY <1>1, <1>3, <2>4, <2>7, <2>8, QuietStep DEF Fits, Holding
<1>4. CASE f # None /\ Refused(flows[f].owner, f) /\ Return(t) BY <1>1, <1>2, <1>4, ReturnStep DEF Holding
<1>5. CASE Return(t) /\ UNCHANGED store BY <1>1, <1>5, ReturnStep DEF Holding
<1> QED BY <1>3, <1>4, <1>5 DEF ResolveState

\* Poll and Complete go on with a flow they read, which nobody is creating.
LEMMA GetStep ==
    ASSUME IInv, NEW t \in Thread, Get(t)
    PROVE  Progress
<1> DEFINE f == local[t].id
           e == flows[f]
<1>1. /\ pc[t] = "get" /\ Keep /\ f \in issued /\ f \in Id
      /\ flows \in Entries /\ local \in [Thread -> Local] /\ pc \in [Thread -> Labels]
      /\ revision \in Nat
    BY DEF Get, IInv, TypeOK, RequestFacts, Entries
<1>2. ASSUME NEW label \in {"due", "consume"}, Read(t, label), UNCHANGED store,
             Verdict(local[t].caller, f) = "ok",
             label = "due" => MayPoll(t)
      PROVE  Progress
  <2>1. Stored(f) /\ e \in Entry /\ e.owner = local[t].caller
      BY <1>1, <1>2, VerdictOk DEF Entries, Stored
  <2>2. Dated(e) /\ Honest(f, e) BY <1>1, <2>1 DEF IInv, FlowFacts
  <2>3. label = "due" => e.method = "device" /\ ~e.consumed BY <1>2 DEF MayPoll
  <2>4. e.revision <= revision /\ (e.method = "device" => e.interval >= Interval)
      BY <2>2 DEF Dated
  <2> DEFINE l == [local[t] EXCEPT !.flow = e]
  <2>5. l \in Local /\ l.id = f /\ l.flow = e /\ l.caller = local[t].caller
    <3>1. local[t] \in Local BY <1>1
    <3> HIDE DEF f, e
    <3> QED BY <2>1, <3>1 DEF Local, f, e
  <2>6. local' = [local EXCEPT ![t] = l] /\ pc' = [pc EXCEPT ![t] = label] BY <1>2 DEF Read, Goto
  <2>7. /\ Moved(t) /\ local'[t] = l /\ pc'[t] = label
    <3> HIDE DEF l
    <3> QED BY <1>1, <1>2, <2>5, <2>6 DEF Moved, Labels
  <2>8. flows' = flows /\ revision' = revision /\ issued' = issued
      BY <1>1, <1>2 DEF store, Keep
  <2>9. /\ label \in Entered /\ label \notin {"idle", "create", "view", "resolve", "get", "claim"}
        /\ label \notin Early \cup Asked \cup Spending /\ (label \in Polling => label = "due")
      BY <1>2 DEF Entered, Early, Polling, Asked, Spending
  <2>10. local'[t].id = f /\ local'[t].flow = e /\ local'[t].caller = local[t].caller
      BY <2>5, <2>7
  <2>11. ASSUME label = "due" PROVE PollFacts(t)'
      BY <2>3, <2>4, <2>8, <2>10, <2>11 DEF PollFacts
  <2>12. RequestFacts(t)' BY <1>1, <2>1, <2>7, <2>8, <2>9, <2>10, <2>11 DEF RequestFacts
  <2>13. ASSUME NEW u \in Thread \ {t} PROVE Apart(t, u)' /\ Apart(u, t)'
    <3>1. pc'[u] = pc[u] /\ local'[u] = local[u] BY <2>7 DEF Moved
    <3>2. pc[u] = "create" => ~Stored(local[u].id) BY DEF IInv, RequestFacts, Creating
    <3> QED BY <2>1, <2>7, <2>9, <2>10, <3>1, <3>2 DEF Apart
  <2> QED BY <1>1, <1>2, <2>7, <2>12, <2>13, QuietStep DEF Fits, Holding
<1>3. CASE UNCHANGED store /\ Return(t) BY <1>1, <1>3, ReturnStep DEF Holding
<1>4. CASE Refused(local[t].caller, f) /\ Return(t) BY <1>1, <1>4, ReturnStep DEF Holding
<1> QED BY <1>2, <1>3, <1>4 DEF Get

\* A poll goes on within one flow: its clock and its answer are all that change.
LEMMA PollOn ==
    ASSUME IInv, NEW t \in Thread, pc[t] \in Polling, NEW label \in {"claim", "answer", "slow", "consume"},
           NEW l \in Local, local' = [local EXCEPT ![t] = l], Goto(t, label), UNCHANGED store, Keep,
           l.id = local[t].id, l.flow = local[t].flow, l.caller = local[t].caller,
           label = "claim" => l.clock >= l.flow.nextPoll,
           label \in Asked => pc[t] \in Asked /\ l.clock = local[t].clock
    PROVE  Progress
<1>1. /\ local \in [Thread -> Local] /\ pc \in [Thread -> Labels] /\ RequestFacts(t)
    BY DEF IInv, TypeOK
<1>2. Moved(t) /\ local'[t] = l /\ pc'[t] = label BY <1>1 DEF Moved, Goto, Labels
<1>3. flows' = flows /\ revision' = revision /\ issued' = issued BY DEF store, Keep
<1>4. /\ label \in Entered /\ label \notin {"idle", "create", "view", "resolve", "get"}
      /\ label \notin Early \cup Spending
      /\ Polling \subseteq Entered
    BY DEF Entered, Early, Polling, Asked, Spending
<1>5. PollFacts(t) /\ (pc[t] \in Asked => AskFacts(t)) BY <1>1 DEF RequestFacts
<1>6. PollFacts(t)' BY <1>2, <1>3, <1>5 DEF PollFacts, Stored
<1>7. label \in Asked => AskFacts(t)' BY <1>2, <1>3, <1>5 DEF AskFacts, Stored
<1>8. local[t].id \in issued /\ local[t].flow \in Entry /\ local[t].flow.owner = local[t].caller
    BY <1>1, <1>4 DEF RequestFacts
<1>9. RequestFacts(t)' BY <1>2, <1>3, <1>4, <1>6, <1>7, <1>8 DEF RequestFacts
<1>10. \A u \in Thread \ {t} : Apart(t, u)' /\ Apart(u, t)' BY <1>2, <1>4, MoveApart
<1>11. pc[t] \notin Holding /\ pc'[t] \notin Holding BY <1>2 DEF Holding, Polling, Asked
<1> QED BY <1>2, <1>9, <1>10, <1>11, QuietStep DEF Fits

\* Poll claims its turn.
LEMMA PollDueStep ==
    ASSUME IInv, NEW t \in Thread, PollDue(t)
    PROVE  Progress
<1>1. /\ pc[t] = "due" /\ UNCHANGED store /\ Keep /\ now \in Nat /\ local \in [Thread -> Local]
    BY DEF PollDue, IInv, TypeOK
<1>2. CASE Return(t) BY <1>1, <1>2, ReturnStep DEF Holding
<1>3. CASE now >= local[t].flow.nextPoll /\ local' = [local EXCEPT ![t].clock = now] /\ Goto(t, "claim")
  <2> DEFINE l == [local[t] EXCEPT !.clock = now]
  <2>1. /\ l \in Local /\ l.id = local[t].id /\ l.flow = local[t].flow /\ l.clock = now
        /\ l.caller = local[t].caller
      BY <1>1 DEF Local
  <2>2. local' = [local EXCEPT ![t] = l] BY <1>3
  <2> HIDE DEF l
  <2>3. "due" \in Polling /\ "claim" \notin Asked BY DEF Polling, Asked
  <2> QED BY <1>1, <1>3, <2>1, <2>2, <2>3, PollOn
<1> QED BY <1>2, <1>3 DEF PollDue

\* Poll asks the provider.
LEMMA AskStep ==
    ASSUME IInv, NEW t \in Thread, Ask(t)
    PROVE  Progress
<1>1. /\ pc[t] = "ask" /\ UNCHANGED store /\ Keep /\ local \in [Thread -> Local] /\ local' = local
      /\ Goto(t, "answer")
    BY DEF Ask, IInv, TypeOK
<1>2. local[t] \in Local /\ local' = [local EXCEPT ![t] = local[t]] BY <1>1
<1>3. "ask" \in Polling /\ "ask" \in Asked BY DEF Polling, Asked
<1> QED BY <1>1, <1>2, <1>3, PollOn

\* The provider answers a poll.
LEMMA AnswerStep ==
    ASSUME IInv, NEW t \in Thread, NEW answer \in Answers \cup {"error"}, Answer(t, answer)
    PROVE  Progress
<1>1. pc[t] = "answer" /\ UNCHANGED store /\ Keep /\ local \in [Thread -> Local]
    BY DEF Answer, IInv, TypeOK
<1>2. CASE Return(t) BY <1>1, <1>2, ReturnStep DEF Holding
<1>3. ASSUME NEW label \in {"slow", "consume"}, answer \in Answers, Goto(t, label),
             local' = [local EXCEPT ![t].input = answer]
      PROVE  Progress
  <2> DEFINE l == [local[t] EXCEPT !.input = answer]
  <2>1. /\ l \in Local /\ l.id = local[t].id /\ l.flow = local[t].flow
        /\ l.clock = local[t].clock /\ l.caller = local[t].caller
      BY <1>1, <1>3 DEF Local
  <2>2. local' = [local EXCEPT ![t] = l] BY <1>3
  <2> HIDE DEF l
  <2>3. "answer" \in Polling /\ "answer" \in Asked BY DEF Polling, Asked
  <2> QED BY <1>1, <1>3, <2>1, <2>2, <2>3, PollOn
<1> QED BY <1>2, <1>3 DEF Answer, Answers

\* A claim that lands is of the flow as it was read: no other write came between, so the
\* clock has passed every earlier claim by its interval.
LEMMA ClaimStep ==
    ASSUME IInv, NEW t \in Thread, Claim(t)
    PROVE  Progress
<1> DEFINE c == local[t].caller
           f == local[t].id
           e == local[t].flow
           k == local[t].clock
           next == k + e.interval
           d == Progressed(f, e.interval, next, e.outcome)
<1>1. pc[t] = "claim" /\ Keep BY DEF Claim
<1>2. /\ flows \in Entries /\ states \in Index /\ IndexExact /\ revision \in Nat
      /\ local \in [Thread -> Local] /\ pc \in [Thread -> Labels] /\ RequestFacts(t)
      /\ issued \subseteq Id
    BY DEF IInv, TypeOK, Entries, Index
<1>3. /\ f \in Id /\ f \in issued /\ e \in Entry /\ e.owner = c /\ PollFacts(t)
      /\ k >= e.nextPoll
    BY <1>1, <1>2 DEF RequestFacts, Entered, Polling
<1>4. /\ k \in Nat /\ e.interval \in Nat /\ e.nextPoll \in Nat /\ e.outcome \in Outcomes
      /\ next \in Nat /\ e.interval >= Interval /\ e.method = "device"
    BY <1>2, <1>3, LocalFields, EntryFields DEF PollFacts
<1>5. CASE Return(t) /\ UNCHANGED store BY <1>1, <1>5, ReturnStep DEF Holding
<1>6. CASE Refused(c, f) /\ Return(t) BY <1>1, <1>3, <1>6, ReturnStep DEF Holding
<1>7. CASE /\ Update(c, f, e.revision, e.interval, next, e.outcome)
           /\ local' = [local EXCEPT ![t].flow = d] /\ Goto(t, "ask")
  <2>1. Stored(f) /\ flows[f].revision = e.revision BY <1>7, VerdictOk DEF Update, MayUpdate
  <2>2. /\ ~flows[f].consumed /\ flows[f].interval = e.interval /\ flows[f].nextPoll = e.nextPoll
        /\ flows[f].outcome = e.outcome /\ flows[f].method = "device"
      BY <1>3, <1>4, <2>1 DEF PollFacts
  <2>3. Honest(f, flows[f]) BY <1>3, <2>1 DEF IInv, FlowFacts
  <2>4. e.interval >= flows[f].interval /\ next >= flows[f].nextPoll BY <1>3, <1>4, <2>2
  <2>5. /\ Written(f, d) /\ IndexExact' /\ states' \in Index
        /\ d.interval = e.interval /\ d.nextPoll = next /\ d.outcome = e.outcome
        /\ (d.consumed <=> flows[f].consumed)
    <3> HIDE DEF c, f, e, k, next
    <3> QED BY <1>2, <1>3, <1>4, <1>7, <2>4, UpdateWrites
  <2>6. /\ d \in Entry /\ d.owner = flows[f].owner /\ d.method = flows[f].method
        /\ d.revision = revision + 1 /\ revision' = revision + 1
        /\ flows' = [flows EXCEPT ![f] = d]
      BY <2>5 DEF Written
  <2>7. flows[f].owner = c BY <1>7, VerdictOk DEF Update, MayUpdate
  <2> DEFINE l == [local[t] EXCEPT !.flow = d]
  <2> HIDE DEF d
  <2>8. l \in Local /\ l.id = f /\ l.flow = d /\ l.caller = c /\ l.clock = k
      BY <1>2, <2>6 DEF Local
  <2>9. local' = [local EXCEPT ![t] = l] BY <1>7
  <2> HIDE DEF l
  <2>10. Moved(t) /\ local'[t] = l /\ pc'[t] = "ask"
      BY <1>2, <1>7, <2>8, <2>9 DEF Moved, Goto, Labels
  <2>11. flows'[f] = d /\ issued' = issued BY <1>1, <1>2, <1>3, <2>6 DEF Keep, Entries
  <2>12. /\ local'[t].id = f /\ local'[t].flow = d /\ local'[t].caller = c
         /\ local'[t].clock = k
      BY <2>8, <2>10
  <2> HIDE DEF c, f, e, k
  <2>13. PollFacts(t)'
    <3>1. d.method = "device" /\ d.interval >= Interval /\ d.revision <= revision' /\ ~d.consumed
        BY <1>2, <1>4, <2>2, <2>5, <2>6
    <3> QED BY <2>11, <2>12, <3>1 DEF PollFacts
  <2>14. AskFacts(t)'
    <3>1. d.nextPoll = k + d.interval /\ d.nextPoll >= k + Interval
        BY <1>4, <2>5, ServiceConstants
    <3> QED BY <2>11, <2>12, <3>1 DEF AskFacts
  <2>15. "ask" \notin {"idle", "view", "resolve", "get", "create", "claim"} \cup Early \cup Spending
         /\ "ask" \in Asked /\ "ask" \in Entered /\ "claim" \in Entered
      BY DEF Early, Spending, Asked, Entered, Polling
  <2>16. RequestFacts(t)'
    <3>1. d.owner = c /\ f \in issued' BY <1>3, <2>6, <2>7, <2>11
    <3> QED BY <2>6, <2>10, <2>12, <2>13, <2>14, <2>15, <3>1 DEF RequestFacts
  <2>17. ASSUME NEW u \in Thread \ {t} PROVE Apart(t, u)' /\ Apart(u, t)'
    <3>1. pc'[u] = pc[u] /\ local'[u] = local[u] /\ RequestFacts(u) BY <2>10 DEF Moved, IInv
    <3>2. Apart(u, t) BY DEF IInv
    <3>3. local[u].id = f => ~(pc[u] = "create") BY <1>1, <2>15, <3>2 DEF Apart, f
    <3>4. ASSUME local[u].id = f, pc[u] \in Asked PROVE k >= local[u].clock + Interval
      <4>1. flows[f].nextPoll >= local[u].clock + Interval
          BY <2>1, <3>1, <3>4 DEF RequestFacts, AskFacts
      <4>2. local[u].clock \in Nat BY <1>2, LocalFields
      <4> QED BY <1>3, <1>4, <2>2, <4>1, <4>2, ServiceConstants
    <3> QED BY <2>10, <2>12, <2>15, <3>1, <3>3, <3>4 DEF Apart
  <2>18. ASSUME NEW u \in Thread \ {t}, pc[u] \in Spending PROVE local[u].id # f
    <3>1. SpendFacts(u) BY <2>18 DEF IInv, RequestFacts
    <3> QED BY <2>1, <2>2, <3>1 DEF SpendFacts, Untouched
  <2>19. Honest(f, d) BY <2>2, <2>3, <2>5 DEF Honest
  <2>20. Fits(t) BY <2>16, <2>17 DEF Fits
  <2>21. IInv' BY <1>1, <1>3, <2>5, <2>6, <2>10, <2>18, <2>19, <2>20, WriteStep
  <2>22. \A g \in Id : GrantStep(g) /\ FlowAdvances(g)
    <3>1. pc[t] \notin Holding /\ pc'[t] \notin Holding BY <1>1, <2>10 DEF Holding
    <3> QED BY <1>1, <1>3, <2>2, <2>5, <2>6, <2>10, <3>1, UpdateProgress
  <2> QED BY <2>21, <2>22 DEF Progress
<1> QED BY <1>5, <1>6, <1>7 DEF Claim

\* slow_down lengthens the interval of the flow as the poll's own claim left it.
LEMMA SlowerStep ==
    ASSUME IInv, NEW t \in Thread, SlowDown(t)
    PROVE  Progress
<1> DEFINE c == local[t].caller
           f == local[t].id
           e == local[t].flow
           k == local[t].clock
           slower == e.interval + SlowDownStep
           next == k + slower
           d == Progressed(f, slower, next, e.outcome)
<1>1. pc[t] = "slow" /\ Keep /\ Return(t) BY DEF SlowDown
<1>2. /\ flows \in Entries /\ states \in Index /\ IndexExact /\ revision \in Nat
      /\ local \in [Thread -> Local] /\ pc \in [Thread -> Labels] /\ RequestFacts(t)
      /\ issued \subseteq Id
    BY DEF IInv, TypeOK, Entries, Index
<1>3. f \in Id /\ e \in Entry /\ PollFacts(t) /\ AskFacts(t)
    BY <1>1, <1>2 DEF RequestFacts, Entered, Polling, Asked
<1>4. /\ k \in Nat /\ e.interval \in Nat /\ e.nextPoll \in Nat /\ e.outcome \in Outcomes
      /\ slower \in Nat /\ next \in Nat /\ e.nextPoll = k + e.interval
    BY <1>2, <1>3, LocalFields, EntryFields, ServiceConstants DEF AskFacts
<1>5. Moved(t) /\ Fits(t) BY <1>1, <1>2, ReturnFits
<1>6. CASE UNCHANGED store BY <1>1, <1>6, ReturnStep DEF Holding
<1>7. CASE Refused(c, f) BY <1>1, <1>3, <1>7, ReturnStep DEF Holding
<1>8. CASE Update(c, f, e.revision, slower, next, e.outcome)
  <2>1. Stored(f) /\ flows[f].revision = e.revision BY <1>8, VerdictOk DEF Update, MayUpdate
  <2>2. /\ ~flows[f].consumed /\ flows[f].interval = e.interval /\ flows[f].nextPoll = e.nextPoll
        /\ flows[f].outcome = e.outcome
      BY <1>3, <2>1 DEF PollFacts
  <2>3. Honest(f, flows[f]) BY <1>3, <2>1 DEF IInv, FlowFacts
  <2>4. slower >= flows[f].interval /\ next >= flows[f].nextPoll
      BY <1>4, <2>2, ServiceConstants
  <2>5. /\ Written(f, d) /\ IndexExact' /\ states' \in Index
        /\ d.outcome = e.outcome /\ (d.consumed <=> flows[f].consumed)
    <3> HIDE DEF c, f, e, k, slower, next
    <3> QED BY <1>2, <1>3, <1>4, <1>8, <2>4, UpdateWrites
  <2>6. d \in Entry BY <2>5 DEF Written
  <2> HIDE DEF d, c, f, e, k
  <2>7. ASSUME NEW u \in Thread \ {t}, pc[u] \in Spending PROVE local[u].id # f
    <3>1. SpendFacts(u) BY <2>7 DEF IInv, RequestFacts
    <3> QED BY <2>1, <2>2, <3>1 DEF SpendFacts, Untouched
  <2>8. Honest(f, d) BY <2>2, <2>3, <2>5 DEF Honest
  <2>9. IInv' BY <1>1, <1>3, <1>5, <2>5, <2>6, <2>7, <2>8, WriteStep
  <2>10. \A g \in Id : GrantStep(g) /\ FlowAdvances(g)
    <3>1. pc[t] \notin Holding /\ pc'[t] \notin Holding BY <1>1, <1>2 DEF Holding, Return, Goto
    <3> QED BY <1>1, <1>3, <1>5, <2>2, <2>5, <2>6, <3>1, UpdateProgress
  <2> QED BY <2>9, <2>10 DEF Progress
<1> QED BY <1>6, <1>7, <1>8 DEF SlowDown

\* The request that consumes the flow becomes the one that spends it.
LEMMA ConsumeStep ==
    ASSUME IInv, NEW t \in Thread, ConsumeFlow(t)
    PROVE  Progress
<1> DEFINE c == local[t].caller
           f == local[t].id
           input == local[t].input
           s == Spent(f)
           d == [Spent(f) EXCEPT !.secret = FALSE]
<1>1. pc[t] = "consume" /\ Keep BY DEF ConsumeFlow
<1>2. /\ flows \in Entries /\ states \in Index /\ IndexExact /\ revision \in Nat
      /\ local \in [Thread -> Local] /\ pc \in [Thread -> Labels] /\ RequestFacts(t)
      /\ issued \subseteq Id
    BY DEF IInv, TypeOK, Entries, Index
<1>3. f \in Id /\ f \in issued
    BY <1>1, <1>2 DEF RequestFacts, Entered
<1>4. CASE Return(t) /\ UNCHANGED store BY <1>1, <1>4, ReturnStep DEF Holding
<1>5. CASE Refused(c, f) /\ Return(t) BY <1>1, <1>3, <1>5, ReturnStep DEF Holding
<1>6. ASSUME NEW label \in Spending, NEW o \in Outcomes, Consume(c, f), Goto(t, label),
             local' = [local EXCEPT ![t] = [@ EXCEPT !.flow = Spent(f), !.outcome = o]],
             label = "finish" => o \in {"failed", "expired"}
      PROVE  Progress
  <2>1. /\ Written(f, d) /\ IndexExact' /\ states' \in Index
        /\ d.consumed /\ d.outcome = flows[f].outcome
        /\ d.interval = flows[f].interval /\ d.nextPoll = flows[f].nextPoll
        /\ ~flows[f].consumed /\ flows[f].owner = c /\ ~Expired(flows[f])
        /\ s \in Entry /\ s.owner = c /\ s.revision = revision + 1
        /\ s.interval = flows[f].interval /\ s.nextPoll = flows[f].nextPoll
    <3> HIDE DEF c, f
    <3> QED BY <1>2, <1>3, <1>6, ConsumeWrites
  <2>2. /\ d \in Entry /\ d.owner = flows[f].owner /\ d.revision = revision + 1
        /\ flows' = [flows EXCEPT ![f] = d] /\ Stored(f)
      BY <2>1 DEF Written
  <2>3. Honest(f, flows[f]) BY <1>3, <2>2 DEF IInv, FlowFacts
  <2>4. flows[f].outcome = "" /\ Unspent(f) BY <2>1, <2>3 DEF Honest
  <2> DEFINE l == [local[t] EXCEPT !.flow = s, !.outcome = o]
  <2> HIDE DEF d, s
  <2>5. l \in Local /\ l.id = f /\ l.flow = s /\ l.caller = c /\ l.outcome = o
      BY ZenonT(30), <1>2, <2>1 DEF Local
  <2>6. local' = [local EXCEPT ![t] = l] BY <1>6 DEF s
  <2> HIDE DEF l
  <2>7. Moved(t) /\ local'[t] = l /\ pc'[t] = label
      BY <1>2, <1>6, <2>5, <2>6 DEF Moved, Goto, Labels, Spending
  <2>8. /\ flows'[f] = d /\ issued' = issued /\ saved'[f] = 0 /\ exchanged'[f] = 0
      BY <1>1, <1>2, <1>3, <2>2, <2>4 DEF Keep, Entries, Unspent
  <2>9. /\ local'[t].id = f /\ local'[t].flow = s /\ local'[t].caller = c
        /\ local'[t].outcome = o
      BY <2>5, <2>7
  <2> HIDE DEF c, f
  <2>10. SpendFacts(t)'
    <3>1. Untouched(local[t].id, local[t].flow)'
        BY <2>1, <2>2, <2>4, <2>8, <2>9 DEF Untouched
    <3>2. Reached(local[t].id, pc[t], local[t].outcome)'
        BY <1>6, <2>7, <2>8, <2>9 DEF Reached, Unspent
    <3> QED BY <3>1, <3>2 DEF SpendFacts
  <2>11. /\ label \notin {"idle", "view", "resolve", "get", "create", "claim"} \cup Early
                         \cup Polling \cup Asked
         /\ label \in Entered /\ "consume" \in Entered
      BY <1>6 DEF Early, Spending, Asked, Entered, Polling
  <2>12. RequestFacts(t)' BY <1>3, <2>1, <2>7, <2>8, <2>9, <2>10, <2>11 DEF RequestFacts
  <2>13. ASSUME NEW u \in Thread \ {t}, pc[u] \in Spending PROVE local[u].id # f
    <3>1. SpendFacts(u) BY <2>13 DEF IInv, RequestFacts
    <3> QED BY <2>1, <2>2, <3>1 DEF SpendFacts, Untouched
  <2>14. ASSUME NEW u \in Thread \ {t} PROVE Apart(t, u)' /\ Apart(u, t)'
    <3>1. pc'[u] = pc[u] /\ local'[u] = local[u] BY <2>7 DEF Moved
    <3>2. Apart(u, t) BY DEF IInv
    <3>3. local[u].id = f => ~(pc[u] = "create") BY <1>1, <2>11, <3>2 DEF Apart, f
    <3> QED BY <2>7, <2>9, <2>11, <2>13, <3>1, <3>3 DEF Apart
  <2>15. Honest(f, d) BY <2>1, <2>4 DEF Honest
  <2>16. Fits(t) BY <2>12, <2>14 DEF Fits
  <2>17. IInv' BY <1>1, <1>3, <2>1, <2>2, <2>7, <2>13, <2>15, <2>16, WriteStep
  <2>18. \A g \in Id : GrantStep(g) /\ FlowAdvances(g)
    <3>1. pc[t] \notin Holding /\ saved[f] = 0 /\ d.outcome = ""
        BY <1>1, <2>1, <2>4 DEF Holding, Unspent
    <3>2. Spends(f, d) BY <2>1, <2>4, <3>1 DEF Spends
    <3> QED BY <1>1, <1>3, <2>1, <2>2, <2>7, <2>9, <3>1, <3>2, ConsumeProgress
  <2> QED BY <2>17, <2>18 DEF Progress
<1>7. CASE /\ Consume(c, f) /\ input \in {"code", "approved"}
           /\ local' = [local EXCEPT ![t].flow = Spent(f)]
           /\ Goto(t, IF input = "code" THEN "exchange" ELSE "save")
  <2> DEFINE label == IF input = "code" THEN "exchange" ELSE "save"
             o == local[t].outcome
  <2>1. local[t].outcome \in Outcomes /\ local[t] \in Local BY <1>2, LocalFields
  <2>2. [local[t] EXCEPT !.flow = Spent(f), !.outcome = o] = [local[t] EXCEPT !.flow = Spent(f)]
      BY <2>1 DEF Local
  <2>3. local' = [local EXCEPT ![t] = [local[t] EXCEPT !.flow = Spent(f), !.outcome = o]]
      BY <1>7, <2>2
  <2>4. label \in Spending /\ label # "finish" BY DEF Spending
  <2>5. Goto(t, label) BY <1>7
  <2> HIDE DEF label, o
  <2> QED BY <1>6, <1>7, <2>1, <2>3, <2>4, <2>5 DEF o
<1>8. CASE /\ Consume(c, f)
           /\ local' = [local EXCEPT ![t] = [@ EXCEPT !.flow = Spent(f), !.outcome = EndedAs(input)]]
           /\ Goto(t, "finish")
  <2>1. EndedAs(input) \in {"failed", "expired"} BY DEF EndedAs
  <2>2. EndedAs(input) \in Outcomes BY <2>1 DEF Outcomes
  <2>3. "finish" \in Spending BY DEF Spending
  <2> QED BY <1>6, <1>8, <2>1, <2>2, <2>3
<1> QED BY <1>4, <1>5, <1>7, <1>8 DEF ConsumeFlow

\* The request that spends a flow writes its history, which no other request has a stake in.
LEMMA SpendOn ==
    ASSUME IInv, NEW t \in Thread, NEW f, f = local[t].id, pc[t] \in Holding,
           NEW label \in Spending, NEW l \in Local, NEW o, l.outcome = o,
           Goto(t, label), local' = [local EXCEPT ![t] = l],
           l.id = local[t].id, l.flow = local[t].flow, l.caller = local[t].caller,
           UNCHANGED <<store, now, begun, issued>>,
           saved' \in [Id -> Nat], exchanged' \in [Id -> Nat],
           saved'[f] <= 1, exchanged'[f] <= 1,
           \A g \in Id \ {f} : saved'[g] = saved[g] /\ exchanged'[g] = exchanged[g],
           Reached(f, label, o)'
    PROVE  Progress
<1>1. /\ local \in [Thread -> Local] /\ pc \in [Thread -> Labels] /\ RequestFacts(t)
      /\ issued \subseteq Id /\ revision \in Nat /\ flows \in Entries /\ pc[t] \in Spending
    BY DEF IInv, TypeOK, Entries, Holding, Spending
<1>2. Moved(t) /\ local'[t] = l /\ pc'[t] = label BY <1>1 DEF Moved, Goto, Labels, Spending
<1>3. flows' = flows /\ states' = states /\ revision' = revision /\ sequence' = sequence
      /\ issued' = issued /\ now' = now /\ begun' = begun
    BY DEF store
<1>4. /\ label \notin {"idle", "view", "resolve", "get", "create", "claim"} \cup Early
                      \cup Polling \cup Asked
      /\ Spending \subseteq Entered /\ {"create"} \cup Polling \subseteq Entered
    BY DEF Early, Spending, Asked, Entered, Polling
<1>5. SpendFacts(t) /\ f \in issued /\ l.flow \in Entry /\ l.flow.owner = l.caller
    BY <1>1, <1>4 DEF RequestFacts
<1>6. f \in Id /\ (Stored(f) => flows[f].consumed /\ flows[f].outcome = "")
    BY <1>1, <1>5 DEF SpendFacts, Untouched
<1>7. SpendFacts(t)'
  <2>1. local'[t].id = f /\ local'[t].flow = local[t].flow /\ local'[t].outcome = l.outcome
      BY <1>2
  <2>2. Untouched(local[t].id, local[t].flow)' BY <1>3, <1>5, <2>1 DEF SpendFacts, Untouched, Stored
  <2>3. Reached(local[t].id, pc[t], local[t].outcome)' BY <1>2, <2>1
  <2> QED BY <2>2, <2>3 DEF SpendFacts
<1>8. RequestFacts(t)' BY <1>2, <1>3, <1>4, <1>5, <1>7 DEF RequestFacts
<1>9. \A u \in Thread \ {t} : Apart(t, u)' /\ Apart(u, t)' BY <1>1, <1>2, <1>4, MoveApart
<1>10. ASSUME NEW g \in Id PROVE FlowFacts(g)'
  <2>1. FlowFacts(g) BY DEF IInv
  <2>2. CASE g # f
    <3>1. Stored(g)' => Stored(g) /\ SameFlow(flows[g], flows'[g])
        BY <1>3, SameItself DEF Stored
    <3>2. revision' \in Nat /\ revision <= revision' /\ sequence' \in Nat /\ sequence <= sequence'
        BY <1>3 DEF IInv, TypeOK
    <3> QED BY <1>3, <2>2, <3>1, <3>2, SameFlowFacts
  <2>3. CASE g = f
    <3>1. Stored(f) => Dated(flows[f]) BY <2>1, <2>3 DEF FlowFacts
    <3>2. Stored(f)' => Dated(flows[f])' BY <1>3, <3>1 DEF Dated, Stored
    <3>3. Stored(f)' => Honest(f, flows[f])' BY <1>3, <1>6 DEF Honest, Stored
    <3> QED BY <1>3, <1>5, <2>3, <3>2, <3>3 DEF FlowFacts
  <2> QED BY <2>2, <2>3
<1>11. ASSUME NEW u \in Thread \ {t} PROVE Undisturbed(u)
  <2>1. RequestFacts(u) /\ Apart(t, u) /\ Apart(u, t) BY DEF IInv
  <2>2. pc[u] \in {"create"} \cup Spending => local[u].id \in Id \ {f}
      BY <1>1, <1>4, <2>1 DEF RequestFacts, Apart
  <2>3. pc[u] = "create" => ~Stored(local[u].id) BY <2>1 DEF RequestFacts, Creating
  <2> QED BY <1>1, <1>2, <1>3, <2>2, <2>3, SameItself DEF Undisturbed, Stored, Moved
<1>12. TypeOK' BY <1>2, <1>3 DEF IInv, TypeOK, Moved
<1>13. IndexExact' /\ Numbered' BY <1>3 DEF IInv, IndexExact, Numbered, Stored
<1>14. PendingCap'
  <2>1. \A c \in Caller : PendingOf(c)' = PendingOf(c)
      BY <1>3 DEF PendingOf, Pending, Expired, Stored
  <2> QED BY <2>1, CapKept DEF IInv
<1>15. IInv' BY <1>2, <1>8, <1>9, <1>10, <1>11, <1>12, <1>13, <1>14, StepKeeps DEF Fits
<1>16. ASSUME NEW g \in Id \ {f} PROVE GrantStep(g) /\ FlowAdvances(g)
  <2>1. Stored(g)' => Stored(g) /\ SameFlow(flows[g], flows'[g]) BY <1>3, SameItself DEF Stored
  <2>2. Held(g)' <=> Held(g) BY <1>2 DEF Held, Moved
  <2> QED BY <1>1, <2>1, <2>2, KeptProgress
<1>17. FlowAdvances(f)
  <2>1. Stored(f)' => Stored(f) /\ SameFlow(flows[f], flows'[f]) BY <1>3, SameItself DEF Stored
  <2> QED BY <1>1, <1>6, <2>1, SameAdvances
<1>18. GrantStep(f)
  <2>1. Held(f) /\ Status(f)' = Status(f) /\ saved[f] = 0
    <3>1. Held(f) BY DEF Held, Holding
    <3>2. Status(f)' = Status(f) BY <1>3 DEF Status, Stored
    <3>3. saved[f] = 0 BY <1>5 DEF SpendFacts, Reached, Unspent, Holding
    <3> QED BY <3>1, <3>2, <3>3
  <2>2. CASE label # "finish"
    <3>1. Held(f)' BY <1>2, <2>2 DEF Held, Spending
    <3>2. saved'[f] = 0 BY <2>2 DEF Reached, Unspent, Spending
    <3> QED BY <1>6, <2>1, <3>1, <3>2, GrantStays
  <2>3. CASE label = "finish"
    <3>1. ~Held(f)'
      <4>1. \A u \in Thread \ {t} : pc[u] \in Holding => local[u].id # f
          BY <1>1 DEF IInv, Apart, Holding, Spending
      <4> QED BY <1>2, <2>3, <4>1 DEF Held, Moved, Holding
    <3>2. PICK c \in BOOLEAN : c = grantSaved'[f] BY <1>6, GrantState
    <3>3. (Held(f)' <=> FALSE) /\ (saved'[f] > 0 <=> c) BY <1>6, <3>1, <3>2, GrantState
    <3>4. PICK s : s = Status(f)' OBVIOUS
    <3>5. Promise!Moves(f, s, FALSE, c) BY <1>6, <3>3, <3>4, GrantMoves
    <3>6. s = grantStatus[f] /\ grantHeld[f] /\ ~grantSaved[f]
      <4>1. ~(saved[f] > 0) BY <2>1
      <4> QED BY <1>6, <2>1, <3>4, <4>1, GrantState
    <3>7. CASE c = TRUE BY <3>5, <3>6, <3>7 DEF GrantStep, Promise!Save
    <3>8. CASE c = FALSE
      <4>1. c = grantSaved[f] BY <1>6, <3>6, <3>8, GrantState
      <4> QED BY <3>5, <3>6, <4>1 DEF GrantStep, Promise!GiveUp
    <3> QED BY <3>7, <3>8
  <2> QED BY <2>2, <2>3
<1> QED BY <1>15, <1>16, <1>17, <1>18 DEF Progress

\* Complete or Callback exchanges the code.
LEMMA ExchangeStep ==
    ASSUME IInv, NEW t \in Thread, Exchange(t)
    PROVE  Progress
<1>1. PICK f : f = local[t].id OBVIOUS
<1>2. /\ pc[t] = "exchange" /\ exchanged' = [exchanged EXCEPT ![f] = @ + 1] /\ saved' = saved
      /\ UNCHANGED <<store, now, begun, issued>> /\ local \in [Thread -> Local]
      /\ exchanged \in [Id -> Nat] /\ saved \in [Id -> Nat] /\ RequestFacts(t)
    BY <1>1 DEF Exchange, IInv, TypeOK
<1>3. f \in Id /\ saved[f] = 0 /\ exchanged[f] = 0
    BY <1>1, <1>2 DEF IInv, TypeOK, RequestFacts, SpendFacts, Reached, Unspent, Spending, Entered
<1>4. /\ exchanged' \in [Id -> Nat] /\ exchanged'[f] <= 1 /\ saved'[f] = 0
      /\ \A g \in Id \ {f} : saved'[g] = saved[g] /\ exchanged'[g] = exchanged[g]
    BY <1>2, <1>3
<1>5. "exchange" \in Holding /\ "save" \in Spending /\ "finish" \in Spending
    BY DEF Holding, Spending
<1>6. CASE Goto(t, "save") /\ UNCHANGED local
  <2>1. local[t] \in Local /\ local' = [local EXCEPT ![t] = local[t]] BY <1>2, <1>6
  <2>2. PICK o : o = local[t].outcome OBVIOUS
  <2>4. Reached(f, "save", o)' BY <1>4 DEF Reached
  <2>3. saved'[f] <= 1 BY <1>4
  <2> QED BY ZenonT(30), <1>1, <1>2, <1>4, <1>5, <1>6, <2>1, <2>2, <2>3, <2>4, SpendOn
<1>7. CASE local' = [local EXCEPT ![t].outcome = "failed"] /\ Goto(t, "finish")
  <2> DEFINE l == [local[t] EXCEPT !.outcome = "failed"]
  <2>1. /\ l \in Local /\ l.id = local[t].id /\ l.flow = local[t].flow
        /\ l.caller = local[t].caller /\ l.outcome = "failed"
      BY <1>2 DEF Local, Outcomes
  <2>2. local' = [local EXCEPT ![t] = l] BY <1>7
  <2> HIDE DEF l
  <2>3. Reached(f, "finish", "failed")' BY <1>4 DEF Reached
  <2>4. saved'[f] <= 1 BY <1>4
  <2> QED BY ZenonT(30), <1>1, <1>2, <1>4, <1>5, <1>7, <2>1, <2>2, <2>3, <2>4, SpendOn
<1> QED BY <1>6, <1>7 DEF Exchange

\* The credential is saved, or cannot be.
LEMMA SaveStep ==
    ASSUME IInv, NEW t \in Thread, Save(t)
    PROVE  Progress
<1>1. PICK f : f = local[t].id OBVIOUS
<1>2. /\ pc[t] = "save" /\ exchanged' = exchanged /\ Goto(t, "finish")
      /\ UNCHANGED <<store, now, begun, issued>> /\ local \in [Thread -> Local]
      /\ exchanged \in [Id -> Nat] /\ saved \in [Id -> Nat] /\ RequestFacts(t)
    BY DEF Save, IInv, TypeOK
<1>3. f \in Id /\ saved[f] = 0 /\ exchanged[f] <= 1
    BY <1>1, <1>2 DEF IInv, TypeOK, RequestFacts, SpendFacts, Reached, Spending, Entered, FlowFacts
<1>4. "save" \in Holding /\ "finish" \in Spending BY DEF Holding, Spending
<1>5. ASSUME NEW o \in {"complete", "failed"}, local' = [local EXCEPT ![t].outcome = o],
             saved' \in [Id -> Nat], \A g \in Id \ {f} : saved'[g] = saved[g],
             saved'[f] = IF o = "complete" THEN 1 ELSE 0
      PROVE  Progress
  <2> DEFINE l == [local[t] EXCEPT !.outcome = o]
  <2>1. /\ l \in Local /\ l.id = local[t].id /\ l.flow = local[t].flow
        /\ l.caller = local[t].caller /\ l.outcome = o
      BY <1>2 DEF Local, Outcomes
  <2>2. local' = [local EXCEPT ![t] = l] BY <1>5
  <2> HIDE DEF l
  <2>3. saved'[f] <= 1 BY <1>5
  <2>4. Reached(f, "finish", o)' BY <1>5 DEF Reached
  <2> QED BY ZenonT(30), <1>1, <1>2, <1>3, <1>4, <1>5, <2>1, <2>2, <2>3, <2>4, SpendOn
<1>6. CASE saved' = [saved EXCEPT ![f] = @ + 1] /\ local' = [local EXCEPT ![t].outcome = "complete"]
    BY <1>2, <1>3, <1>5, <1>6
<1>7. CASE saved' = saved /\ local' = [local EXCEPT ![t].outcome = "failed"]
    BY <1>2, <1>3, <1>5, <1>7
<1> QED BY <1>1, <1>6, <1>7 DEF Save

\* finish records what the history says, over the flow as it was left.
LEMMA FinishStep ==
    ASSUME IInv, NEW t \in Thread, Finish(t)
    PROVE  Progress
<1> DEFINE f == local[t].id
           e == local[t].flow
           c == e.owner
           o == local[t].outcome
           d == Progressed(f, e.interval, e.nextPoll, o)
<1>1. pc[t] = "finish" /\ Keep /\ Return(t) BY DEF Finish
<1>2. /\ flows \in Entries /\ states \in Index /\ IndexExact /\ revision \in Nat
      /\ local \in [Thread -> Local] /\ pc \in [Thread -> Labels] /\ RequestFacts(t)
      /\ issued \subseteq Id
    BY DEF IInv, TypeOK, Entries, Index
<1>3. f \in Id /\ e \in Entry /\ SpendFacts(t)
    BY <1>1, <1>2 DEF RequestFacts, Entered, Spending
<1>4. e.interval \in Nat /\ e.nextPoll \in Nat /\ o \in Outcomes
    BY <1>2, <1>3, LocalFields, EntryFields
<1>5. Moved(t) /\ Fits(t) BY <1>1, <1>2, ReturnFits
<1>6. CASE UNCHANGED store BY <1>1, <1>6, ReturnStep DEF Holding
<1>7. CASE Refused(c, f) BY <1>1, <1>3, <1>7, ReturnStep DEF Holding
<1>8. CASE Update(c, f, e.revision, e.interval, e.nextPoll, o)
  <2>1. Stored(f) BY <1>8, VerdictOk DEF Update, MayUpdate
  <2>2. /\ flows[f].consumed /\ flows[f].interval = e.interval /\ flows[f].nextPoll = e.nextPoll
        /\ Reached(f, "finish", o)
      BY <1>1, <1>3, <2>1 DEF SpendFacts, Untouched
  <2>3. e.interval >= flows[f].interval /\ e.nextPoll >= flows[f].nextPoll BY <1>4, <2>2
  <2>4. /\ Written(f, d) /\ IndexExact' /\ states' \in Index
        /\ d.outcome = o /\ (d.consumed <=> flows[f].consumed)
    <3> HIDE DEF c, f, e, o
    <3> QED BY <1>2, <1>3, <1>4, <1>8, <2>3, UpdateWrites
  <2>5. d \in Entry BY <2>4 DEF Written
  <2> HIDE DEF d, c, e, o
  <2>6. ASSUME NEW u \in Thread \ {t}, pc[u] \in Spending PROVE local[u].id # f
    <3>1. Apart(t, u) /\ pc[t] \in Spending BY <1>1 DEF IInv, Spending
    <3> QED BY <2>6, <3>1 DEF Apart
  <2> HIDE DEF f
  <2>7. Honest(f, d) BY <2>2, <2>4 DEF Honest, Reached
  <2>8. IInv' BY <1>1, <1>3, <1>5, <2>4, <2>5, <2>6, <2>7, WriteStep
  <2>9. \A g \in Id : GrantStep(g) /\ FlowAdvances(g)
    <3>1. pc[t] \notin Holding /\ pc'[t] \notin Holding BY <1>1, <1>2 DEF Holding, Return, Goto
    <3>2. ~Held(f) BY <2>6, <1>1 DEF Held, Spending
    <3>3. flows[f].outcome = "" BY <1>3, <2>1 DEF SpendFacts, Untouched, f
    <3>4. Settles(f, d, o) BY <2>2, <2>4, <3>3 DEF Settles
    <3> QED BY <1>1, <1>3, <1>5, <2>2, <2>4, <2>5, <3>1, <3>2, <3>4, FinishProgress
  <2> QED BY <2>8, <2>9 DEF Progress
<1> QED BY <1>6, <1>7, <1>8 DEF Finish

\* Every step keeps the invariant and is a step of Grant, of FlowsAdvance, or a stutter.
LEMMA NextProgress == IInv /\ [Next]_vars => Progress
<1> SUFFICES ASSUME IInv, [Next]_vars PROVE Progress OBVIOUS
<1>1. CASE UNCHANGED vars
  <2>1. now' \in Nat /\ now' >= now BY <1>1 DEF vars, IInv, TypeOK
  <2> QED BY <1>1, <2>1, IdleStep DEF vars
<1>2. ASSUME NEW t \in Thread, Step(t) PROVE Progress
  <2>1. {"create", "view", "resolve", "get", "claim", "slow", "consume", "finish"}
            \subseteq Labels \ Holding
      BY DEF Labels, Holding
  <2> QED BY <1>2, <2>1, CreateStep, GetFlowStep, ResolveStep, GetStep, PollDueStep, ClaimStep,
             AskStep, AnswerStep, SlowerStep, ConsumeStep, ExchangeStep, SaveStep, FinishStep,
             FailsStep DEF Step
<1>3. CASE Tick
  <2>1. now' \in Nat /\ now' >= now BY <1>3 DEF Tick, IInv, TypeOK
  <2> QED BY <1>3, <2>1, IdleStep DEF Tick
<1> QED BY <1>1, <1>2, <1>3, EnterStep DEF Next, Quiescent

----------------------------------------------------------------------------
(* The theorems.                                                           *)

\* The inductive invariant holds throughout.
LEMMA IInvAlways == Spec => []IInv
<1>1. IInv /\ [Next]_vars => IInv' BY NextProgress DEF Progress
<1> QED BY InitIInv, <1>1, PTL DEF Spec

\* A flow is spent once, its outcome is what happened and is lost to nobody's write, and
\* a request works on its caller's flows only (Service.Complete, Poll, Callback, finish).
THEOREM FlowsAreHonest == Spec => []FlowsHonest
<1>1. IInv => FlowsHonest
  <2> SUFFICES ASSUME IInv PROVE FlowsHonest OBVIOUS
  <2>1. SpentOnce BY DEF SpentOnce, IInv, FlowFacts
  <2>2. OutcomeHonest
    <3>1. \A f \in Id : Stored(f) => Honest(f, flows[f]) BY DEF IInv, FlowFacts
    <3> QED BY <3>1 DEF OutcomeHonest, Honest
  <2>3. OutcomeNotLost
    <3> SUFFICES ASSUME NEW t \in Thread, pc[t] \in Spending, Stored(local[t].id),
                        ~Expired(flows[local[t].id])
                 PROVE  MayUpdate(local[t].flow.owner, local[t].id, local[t].flow.revision)
        BY DEF OutcomeNotLost, Spending
    <3>1. SpendFacts(t) BY DEF IInv, RequestFacts
    <3>2. flows[local[t].id].owner = local[t].flow.owner
          /\ flows[local[t].id].revision = local[t].flow.revision
        BY <3>1 DEF SpendFacts, Untouched
    <3> QED BY <3>2 DEF MayUpdate, Verdict
  <2>4. OwnFlowsOnly
    <3> SUFFICES ASSUME NEW t \in Thread, local[t].flow # None
                 PROVE  local[t].flow.owner = local[t].caller
        BY DEF OwnFlowsOnly
    <3>1. RequestFacts(t) /\ pc[t] \in Labels BY DEF IInv, TypeOK
    <3>2. Labels = {"idle"} \cup Early \cup Entered
        BY DEF Labels, Early, Entered, Polling, Asked, Spending
    <3>3. NoLocal.flow = None BY DEF NoLocal
    <3> QED BY <3>1, <3>2, <3>3 DEF RequestFacts
  <2> QED BY <2>1, <2>2, <2>3, <2>4 DEF FlowsHonest
<1> QED BY IInvAlways, <1>1, PTL

\* The state index names exactly the pending flows and no caller has more than the cap,
\* through evictions, expiry and consumption (MemoryFlowStore).
THEOREM StoreIsExact == Spec => []StoreExact
<1>1. IInv => StoreExact BY DEF IInv, StoreExact
<1> QED BY IInvAlways, <1>1, PTL

\* Two polls of one flow at the provider together were claimed an interval apart
\* (Service.Poll, FlowStore.Update).
THEOREM PollsAreSpaced == Spec => []PollsSpaced
<1>1. IInv => PollsSpaced BY DEF IInv, PollsSpaced, Apart, Asked
<1> QED BY IInvAlways, <1>1, PTL

\* A consumed flow stays consumed, its outcome is written once, an expired flow is never
\* consumed and the polling schedule never shortens (MemoryFlowStore.Consume, Update).
THEOREM FlowsOnlyAdvance == Spec => FlowsAdvance
<1>1. IInv /\ [Next]_vars =>
          [\A f \in Id : Stored(f) /\ Stored(f)' => Advances(flows[f], flows[f]')]_vars
    BY NextProgress DEF Progress, FlowAdvances
<1> QED BY IInvAlways, <1>1, PTL DEF Spec, FlowsAdvance

\* OAuthFlow implements Grant: whichever polls, pasted codes, redirects, evictions and
\* purges come together, a flow grants one right to save, and its outcome says whether it
\* was used (Service.Poll, Complete, Callback and finish).
THEOREM GrantIsImplemented == Spec => ImplementsGrant
<1>1. Init => Promise!Init
  <2> SUFFICES ASSUME Init PROVE Promise!Init OBVIOUS
  <2>1. \A f \in Id : Status(f) = "absent" BY DEF Init, StoreInit, Status, Stored
  <2>2. \A f \in Id : Held(f) = FALSE BY DEF Init, Held
  <2>3. \A f \in Id : (saved[f] > 0) = FALSE BY DEF Init
  <2>4. grantStatus = [f \in Id |-> "absent"] BY <2>1 DEF grantStatus
  <2>5. grantHeld = [f \in Id |-> FALSE] BY <2>2 DEF grantHeld
  <2>6. grantSaved = [f \in Id |-> FALSE] BY <2>3 DEF grantSaved
  <2> QED BY <2>4, <2>5, <2>6 DEF Promise!Init
<1>2. IInv /\ [Next]_vars => [Promise!Next]_(Promise!grantVars)
  <2> SUFFICES ASSUME IInv, [Next]_vars PROVE Promise!Next OBVIOUS
  <2>1. \A g \in Id : GrantStep(g) BY NextProgress DEF Progress
  <2> QED BY <2>1, Zenon DEF GrantStep, Promise!Next
<1> QED BY IInvAlways, <1>1, <1>2, PTL DEF Spec, ImplementsGrant, Promise!Spec
=============================================================================
