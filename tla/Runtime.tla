------------------------------ MODULE Runtime ------------------------------
(***************************************************************************)
(* runtime.Runtime: one instance's provider, credentials and catalogs,     *)
(* used by concurrent operations while the product changes the settings,   *)
(* rebinds and replaces credentials, and invalidates catalogs.             *)
(*                                                                         *)
(* The settings are their generation: Update always counts it.  A provider *)
(* and a refresh coordinator are the generation they were built from.  The *)
(* catalog Service is taken at the grain Catalog.tla justifies: one        *)
(* discovery at a time per key, fenced by a count of hard invalidations.   *)
(* The circuit of execution.Resilient is open or not.  Of a policy, whether*)
(* it has a circuit and how many tries it allows are kept; what Classify   *)
(* and Repeatable make of a failure and of a request is any answer.        *)
(***************************************************************************)
EXTENDS Naturals, Sequences, FiniteSets

CONSTANTS
    Thread,         \* goroutines that perform operations
    Caller,         \* callers
    Shared,         \* the binding every caller falls back to
    Key,            \* keys of stored credentials
    ApiKeys,        \* those that hold a static API key
    Kinds,          \* operations the product performs
    Policies,       \* the policies the settings generations may come with
    MaxTries,       \* bound on the tries a policy allows
    CatalogTTL,     \* how long a stored catalog is fresh
    FreshFor,       \* how long its evidence is, for transport planning
    Tables,         \* bindings of credentials the product starts with
    Rebindings,     \* and those it makes later: <<caller or Shared, key>>
    Revocable,      \* keys whose credential it replaces, and whose catalog it invalidates
    Answers,        \* what a provider's operation may come to
    MaxGeneration,  \* bound on the settings changes
    MaxRevision,    \* bound on the revisions of a credential
    MaxTime,        \* bound on the clock
    MaxOps,         \* bound on the operations begun
    MaxChanges,     \* bound on the changes the product makes
    None            \* no key, no rows, nobody

ASSUME RuntimeConstants ==
    /\ Shared \notin Caller /\ Caller # {} /\ Kinds # {}
    /\ ApiKeys \subseteq Key /\ None \notin Key \cup Thread
    /\ Kinds \subseteq {"invoke", "stream", "transparent", "list", "cached", "mode"}
    /\ {CatalogTTL, FreshFor, MaxGeneration, MaxRevision, MaxTries, MaxTime, MaxOps, MaxChanges} \subseteq Nat
    /\ MaxGeneration > 0 /\ MaxRevision > 0 /\ MaxTime > 0 /\ MaxTries > 0
    /\ Policies \subseteq [1..MaxGeneration -> [circuit : BOOLEAN, attempts : 1..MaxTries]]
    /\ Tables \subseteq [Caller \cup {Shared} -> Key \cup {None}]
    /\ Rebindings \subseteq (Caller \cup {Shared}) \X Key /\ Revocable \subseteq Key
    /\ Answers \subseteq {"ok", "unauthorized", "failed", "unserved", "ended"}

VARIABLES
    settings,   \* generation of the product's settings
    updatedAt,  \* history: when each generation replaced its predecessor
    policies,   \* the policy of each settings generation
    rt,         \* the Runtime's own fields
    circuit,    \* policy in effect, by its generation, and whether it is open
    health,     \* the instance's last observed outcome
    table,      \* MemoryCredentialStore's bindings
    record,     \* revision of each stored credential
    revoked,    \* history: that revision when its catalog was last invalidated
    store,      \* the stored catalog of each key
    hard,       \* the Service's count of hard invalidations of each key
    lock,       \* who holds the discovery lock of each key
    now,        \* the clock
    pc, op,     \* where each operation is, and its locals
    ended,      \* the caller's context of each operation has ended
    begun,      \* operations begun
    changes     \* changes the product made

product == <<settings, updatedAt, policies, table, record, revoked, now, begun, changes>>
catalog == <<store, hard, lock>>
vars == <<settings, updatedAt, policies, rt, circuit, health, table, record, revoked, store,
          hard, lock, now, pc, op, ended, begun, changes>>

----------------------------------------------------------------------------
Generation == 0..MaxGeneration      \* 0: not built yet
Revision == 0..MaxRevision
Slot == Key \cup {None}             \* the empty key is a slot of its own

\* What a provider's operation comes to: failed is any other status, or no
\* answer; unserved is a failure that says nothing of the upstream.  A request
\* the circuit refused was not sent.
Results == Answers \cup {"refused", "ended"}
Failed == {"unauthorized", "failed", "unserved"}
Failures == {"factory", "credential", "refusedPlan", "changed"}

\* A request handed to the provider: the call of the operation it belongs to,
\* and which try of that call it is.
Sent == [key : Slot, revision : Revision, call : 1..2, try : 1..MaxTries, result : Results]

\* A catalog: who listed it, with what, and when.  native: it lists the model
\* with trusted evidence that the provider serves its surface natively.  As
\* history: the settings when the operation that listed it began, and the
\* invalidations its discovery counted and those when its credential was read.
Rows == [generation : Generation, revision : Revision, at : 0..MaxTime, native : BOOLEAN,
         began : Generation, hard : Nat, read : Nat]

Evidence == [key : Slot, revision : Revision, result : Results \cup Failures]

\* The locals of an operation.  As history: the settings and the credentials
\* when it began, the policies put in effect since it was bound, the
\* invalidations when it read its credential, its requests, the evidence it
\* recorded, and the catalog it answered with or planned by.
Op == [kind : Kinds, caller : Caller, began : Generation, floor : [Key -> Revision], snapshot : Generation,
       provider : Generation, coordinator : Generation, overrides : SUBSET Generation,
       key : Slot, revision : Revision, read : Nat, notBefore : 0..MaxTime, hard : Nat,
       tries : 0..MaxTries,
       result : Results \cup Failures \cup {None},
       sent : Seq(Sent), evidence : Seq(Evidence), rows : Rows \cup {None},
       fresh : BOOLEAN]

NewOp(kind, caller) ==
    [kind |-> kind, caller |-> caller, began |-> settings, floor |-> record, snapshot |-> 0,
     provider |-> 0, coordinator |-> 0, overrides |-> {}, key |-> None, revision |-> 0,
     read |-> 0, notBefore |-> 0, hard |-> 0, tries |-> 0, result |-> None, sent |-> <<>>, evidence |-> <<>>, rows |-> None,
     fresh |-> FALSE]

Init ==
    /\ settings = 1
    /\ updatedAt = [g \in 1..MaxGeneration |-> 0]
    /\ policies \in Policies
    /\ rt = [started |-> FALSE, generation |-> 0, changedAt |-> 0,
             provider |-> 0, coordinator |-> 0]
    /\ circuit = [policy |-> 0, open |-> FALSE]
    /\ health = None
    /\ table \in Tables
    /\ record = [k \in Key |-> 1]
    /\ revoked = [k \in Key |-> 0]
    /\ store = [s \in Slot |-> None]
    /\ hard = [s \in Slot |-> 0]
    /\ lock = [s \in Slot |-> None]
    /\ now = 1
    /\ pc = [t \in Thread |-> "idle"]
    /\ op = [t \in Thread |-> NewOp(CHOOSE k \in Kinds : TRUE, CHOOSE c \in Caller : TRUE)]
    /\ ended = [t \in Thread |-> FALSE]
    /\ begun = 0
    /\ changes = 0

Step(t, from, to) ==
    /\ pc[t] = from
    /\ pc' = [pc EXCEPT ![t] = to]

Set(t, o) == op' = [op EXCEPT ![t] = o]

----------------------------------------------------------------------------
(* The product.                                                            *)

Change ==
    /\ changes < MaxChanges
    /\ changes' = changes + 1
    /\ UNCHANGED <<policies, rt, circuit, health, lock, now, pc, op, ended, begun>>

\* MemorySettings.Update.
Update ==
    /\ Change
    /\ settings < MaxGeneration
    /\ settings' = settings + 1
    /\ updatedAt' = [updatedAt EXCEPT ![settings + 1] = now]
    /\ UNCHANGED <<table, record, revoked, store, hard>>

\* MemoryCredentialStore.Bind and BindShared: who is a caller or Shared.
Bind(who, key) ==
    /\ Change
    /\ table[who] # key
    /\ table' = [table EXCEPT ![who] = key]
    /\ UNCHANGED <<settings, updatedAt, record, revoked, store, hard>>

\* The product stores another credential under a key, as a new login does.
Replace(key) ==
    /\ Change
    /\ record[key] < MaxRevision
    /\ record' = [record EXCEPT ![key] = @ + 1]
    /\ UNCHANGED <<settings, updatedAt, table, revoked, store, hard>>

\* Service.Invalidate, hard.
Invalidate(key) ==
    /\ Change
    /\ store' = [store EXCEPT ![key] = None]
    /\ hard' = [hard EXCEPT ![key] = @ + 1]
    /\ revoked' = [revoked EXCEPT ![key] = record[key]]
    /\ UNCHANGED <<settings, updatedAt, table, record>>

Tick ==
    /\ now < MaxTime
    /\ now' = now + 1
    /\ UNCHANGED <<settings, updatedAt, policies, rt, circuit, health, table, record, revoked,
                   catalog, pc, op, ended, begun, changes>>

\* The caller's context may have ended whenever an operation asks, and stays so.
Asks(t) == ended' \in {ended, [ended EXCEPT ![t] = TRUE]}

----------------------------------------------------------------------------
(* bind: the snapshot is taken before the lock.                            *)

Begin(t, kind, caller) ==
    /\ begun < MaxOps
    /\ Step(t, "idle", "snapshot")
    /\ begun' = begun + 1
    /\ Set(t, NewOp(kind, caller))
    /\ ended' = [ended EXCEPT ![t] = FALSE]
    /\ UNCHANGED <<settings, updatedAt, policies, rt, circuit, health, table, record, revoked,
                   catalog, now, changes>>

Snapshot(t) ==
    /\ Step(t, "snapshot", "bind")
    /\ Set(t, [op[t] EXCEPT !.snapshot = settings])
    /\ UNCHANGED <<product, rt, circuit, health, catalog, ended>>

\* Mutant: a settings change keeps the providers that were built.
NoticedKeeps(snapshot) ==
    IF rt.started /\ rt.generation = snapshot THEN rt
    ELSE [rt EXCEPT !.started = TRUE, !.generation = snapshot,
                    !.changedAt = IF rt.started THEN now ELSE @]

\* Mutant: the time of a settings change is not kept.
NoticedUndated(snapshot) ==
    IF rt.started /\ rt.generation = snapshot THEN rt
    ELSE [rt EXCEPT !.started = TRUE, !.generation = snapshot, !.provider = 0, !.coordinator = 0]

\* What the lock's holder makes of its snapshot.
Noticed(snapshot) ==
    IF rt.started /\ rt.generation = snapshot THEN rt
    ELSE [started |-> TRUE, generation |-> snapshot,
          changedAt |-> IF rt.started THEN now ELSE rt.changedAt,
          provider |-> 0, coordinator |-> 0]

\* Mutant: an instance keeps the first policy it was guarded with.
BuildPolicyOnce(generation) ==
    IF policies[generation].circuit /\ circuit.policy = 0
    THEN [circuit EXCEPT !.policy = generation] ELSE circuit

\* Building a provider puts its circuit policy in effect, if it has one.
BuildPolicy(generation) ==
    IF policies[generation].circuit THEN [circuit EXCEPT !.policy = generation] ELSE circuit

\* The operation is bound; those bound before take the policies that were put
\* in effect for theirs.
BoundOps(t, puts) ==
    [u \in Thread |->
        IF u = t THEN [op[t] EXCEPT !.provider = rt'.provider, !.coordinator = rt'.coordinator]
        ELSE [op[u] EXCEPT !.overrides = IF op[u].provider = 0 THEN @ ELSE @ \cup puts]]

\* The critical section.  A factory that fails leaves the generation noticed.
Binds(t) ==
    LET noticed == Noticed(op[t].snapshot)
        generation == noticed.generation
        built == [noticed EXCEPT !.provider = generation,
                                 !.coordinator = IF @ = 0 THEN generation ELSE @]
    IN \/ /\ noticed.provider = 0
          /\ Step(t, "bind", "idle")
          /\ rt' = noticed
          /\ Set(t, [op[t] EXCEPT !.result = "factory"])
          /\ UNCHANGED circuit
       \/ /\ Step(t, "bind", "resolve")
          /\ rt' = IF noticed.provider = 0 THEN built
                   ELSE [noticed EXCEPT !.coordinator = built.coordinator]
          /\ circuit' = IF noticed.provider = 0 THEN BuildPolicy(generation) ELSE circuit
          /\ op' = BoundOps(t, IF noticed.provider = 0 /\ policies[generation].circuit
                               THEN {generation} ELSE {})

Bound(t) ==
    /\ Binds(t)
    /\ UNCHANGED <<product, health, catalog, ended>>

----------------------------------------------------------------------------
(* The credential an operation uses.                                       *)

\* MemoryCredentialStore.Resolve: the caller's own binding, or the shared one.
Resolved(caller) == IF table[caller] # None THEN table[caller] ELSE table[Shared]

\* What follows once the credential is known.
AfterCredential(kind) ==
    CASE kind \in {"invoke", "stream"} -> "send"
      [] kind = "transparent"          -> "plan"
      [] kind = "list"                 -> "since"
      [] OTHER                         -> "cached"

\* credentialUnavailable: observed by the operations that would send.
Unavailable(t) ==
    /\ Step(t, pc[t], IF op[t].kind \in {"cached", "mode"} THEN "idle" ELSE "observe")
    /\ Set(t, [op[t] EXCEPT !.result = "credential"])

\* Resolve.  A request whose caller has no credential goes without one.
Resolve(t) ==
    LET key == Resolved(op[t].caller)
    IN /\ pc[t] = "resolve"
       /\ Asks(t)
       /\ \/ Unavailable(t)
          \/ /\ ~ended'[t]
             /\ Step(t, "resolve", IF key = None \/ op[t].kind = "cached"
                                   THEN AfterCredential(op[t].kind) ELSE "token")
             /\ Set(t, [op[t] EXCEPT !.key = key])
       /\ UNCHANGED <<product, rt, circuit, health, catalog>>

\* Mutant: the record an instance first loaded is used ever after.
TokenKept(t) ==
    /\ Step(t, "token", AfterCredential(op[t].kind))
    /\ Set(t, [op[t] EXCEPT !.revision = 1, !.read = hard[op[t].key]])
    /\ UNCHANGED <<product, rt, circuit, health, catalog, ended>>

\* Coordinator.Token, or for TransportMode the store's Load.  The coordinator
\* refreshes a token that is about to expire; an API key never does.
Token(t) ==
    LET key == op[t].key
    IN /\ pc[t] = "token"
       /\ \/ Unavailable(t) /\ UNCHANGED record
          \/ /\ Step(t, "token", AfterCredential(op[t].kind))
             /\ \/ UNCHANGED record
                \/ /\ op[t].kind # "mode" /\ key \notin ApiKeys
                   /\ record[key] < MaxRevision
                   /\ record' = [record EXCEPT ![key] = @ + 1]
             /\ Set(t, [op[t] EXCEPT !.revision = record'[key], !.read = hard[key]])
       /\ UNCHANGED <<settings, updatedAt, policies, table, revoked, now, begun, changes, rt, circuit, health,
                      catalog, ended>>

\* Mutant: a rejected API key is refreshed too.
RejectedAnyCredential(t, result) == result = "unauthorized" /\ op[t].key # None

\* rejectedCredential: a 401 of an OAuth credential.
RejectedCredential(t, result) ==
    result = "unauthorized" /\ op[t].key \in Key \ ApiKeys

\* Resilient guards every operation but ListModels, which passes through; a
\* provider with neither a circuit nor a second try is used as built.
Guards(t) == op[t].kind # "list" /\ policies[op[t].provider].circuit
Attempts(t) == IF op[t].kind = "list" THEN 1 ELSE policies[op[t].provider].attempts
Wrapped(t) == Guards(t) \/ Attempts(t) > 1

\* admit: while the circuit is open it may refuse a call, until its time is over.
Refuses(t) == op[t].tries = 0 /\ Guards(t) /\ circuit.open

\* A failure the policy reads as retryable, with tries left: it is repeated.
Repeats(t, result) == result \in Failed /\ op[t].tries + 1 < Attempts(t)

\* record: the last try's failure may open the circuit or end the streak.
Records(t, result) ==
    circuit' \in {circuit} \cup {[circuit EXCEPT !.open = open] : open \in
        {o \in BOOLEAN : Guards(t) /\ result # "ended" /\ (o => result \in Failed)}}

\* A call that sends nothing more: refused, or its caller gave up before it
\* or in the wait before a repeat.
Withheld(t) ==
    /\ \E result \in {"refused", "ended"} :
        /\ IF result = "refused" THEN Refuses(t) ELSE ended'[t] /\ Wrapped(t)
        /\ Set(t, [op[t] EXCEPT !.result = result])
    /\ Step(t, pc[t], "observe")
    /\ UNCHANGED circuit

\* One try: a request handed to the provider, with what comes of it.
Handed(t, result) ==
    [op[t] EXCEPT !.result = result, !.tries = @ + 1,
        !.sent = Append(@, [key |-> op[t].key, revision |-> op[t].revision, try |-> op[t].tries + 1,
                            call |-> IF pc[t] = "send" THEN 1 ELSE 2, result |-> result])]

Try(t) ==
    \E result \in Answers :
        /\ result = "ended" => ended'[t]
        /\ ended'[t] /\ Wrapped(t) => result = "ended"
        /\ Set(t, Handed(t, result))
        /\ \/ Repeats(t, result) /\ UNCHANGED <<pc, circuit>>
           \/ /\ Step(t, pc[t], IF pc[t] = "send" /\ RejectedCredential(t, result)
                                THEN "refresh" ELSE "observe")
              /\ Records(t, result)

\* A try of an operation or a discovery: of its first call of the provider, or
\* after a refresh of the replay.
Send(t) ==
    /\ pc[t] \in {"send", "resend"}
    /\ Asks(t)
    /\ Withheld(t) \/ Try(t)
    /\ UNCHANGED <<product, rt, health, catalog>>

\* Mutant: a refresh that fails returns without observing the 401.
RefreshUnobserved(t) ==
    \/ /\ Step(t, "refresh", "idle")
       /\ UNCHANGED <<product, rt, circuit, health, catalog, ended, op>>
    \/ /\ Step(t, "refresh", "resend")
       /\ record[op[t].key] < MaxRevision
       /\ record' = [record EXCEPT ![op[t].key] = @ + 1]
       /\ Set(t, [op[t] EXCEPT !.revision = record'[op[t].key], !.read = hard[op[t].key], !.tries = 0])
       /\ UNCHANGED <<settings, updatedAt, policies, table, revoked, now, begun, changes, rt, circuit, health,
                      catalog, ended>>

\* refreshed.  Coordinator.Rejected refreshes the record, unless somebody
\* replaced the rejected one already; it may fail, and the 401 stands.
Refresh(t) ==
    LET key == op[t].key
    IN \/ /\ Step(t, "refresh", "observe")
          /\ UNCHANGED <<product, rt, circuit, health, catalog, ended, op>>
       \/ /\ Step(t, "refresh", "resend")
          /\ IF record[key] # op[t].revision THEN UNCHANGED record
             ELSE /\ record[key] < MaxRevision
                  /\ record' = [record EXCEPT ![key] = @ + 1]
          /\ Set(t, [op[t] EXCEPT !.revision = record'[key], !.read = hard[key], !.tries = 0])
          /\ UNCHANGED <<settings, updatedAt, policies, table, revoked, now, begun, changes, rt, circuit,
                         health, catalog, ended>>

\* observe.  An outcome with a status, or a circuit failure, is the
\* instance's health; a credential that is unavailable is not.
AffectsHealth(result) == result \in {"ok", "unauthorized", "failed", "refused"}

Observe(t) ==
    LET o == op[t]
    IN /\ Step(t, "observe", IF o.kind = "list" /\ o.result # "credential" THEN "save" ELSE "idle")
       /\ Asks(t)
       /\ \/ ended'[t] /\ UNCHANGED <<health, op>>
          \/ /\ ~ended'[t]
             /\ health' = IF ~AffectsHealth(o.result) THEN health
                          ELSE IF o.result = "ok" THEN "healthy" ELSE "failing"
             /\ Set(t, [o EXCEPT !.evidence = Append(@,
                   [key |-> o.key, revision |-> o.revision, result |-> o.result])])
       /\ UNCHANGED <<product, rt, circuit, catalog>>

----------------------------------------------------------------------------
(* Catalogs.                                                               *)

\* changedAt, read after the credential was resolved.
Since(t) ==
    /\ Step(t, "since", "lock")
    /\ Set(t, [op[t] EXCEPT !.notBefore = rt.changedAt])
    /\ UNCHANGED <<product, rt, circuit, health, catalog, ended>>

\* Service.fresh: not before notBefore, which is inclusive, and in its TTL.
Fresh(rows, notBefore) ==
    /\ rows # None
    /\ rows.at >= notBefore
    /\ now - rows.at < CatalogTTL

CatalogKey(t) == op[t].key

\* Service.Read: takes the key's discovery lock, serves what is fresh, and
\* otherwise counts the invalidations and discovers, holding the lock.
Read(t) ==
    LET key == CatalogKey(t)
        rows == store[key]
    IN /\ lock[key] = None
       /\ \/ /\ Fresh(rows, op[t].notBefore)
             /\ Step(t, "lock", "idle")
             /\ Set(t, [op[t] EXCEPT !.rows = rows, !.fresh = TRUE])
             /\ UNCHANGED lock
          \/ /\ ~Fresh(rows, op[t].notBefore)
             /\ Step(t, "lock", "send")
             /\ Set(t, [op[t] EXCEPT !.hard = hard[key]])
             /\ lock' = [lock EXCEPT ![key] = t]
       /\ UNCHANGED <<product, rt, circuit, health, store, hard, ended>>

\* Mutant: what was discovered is kept, whatever was invalidated meanwhile.
UnfencedAlways(t) == TRUE

\* save's fence: no hard invalidation since the discovery counted them.
Unfenced(t) == hard[CatalogKey(t)] = op[t].hard

\* The end of a discovery: stored unless it failed or was fenced.  The answer
\* is what is stored then.
Save(t) ==
    LET key == CatalogKey(t)
        listed == op[t].result = "ok"
    IN /\ Step(t, "save", "idle")
       /\ \E native \in BOOLEAN :
            store' = IF ~listed \/ ~Unfenced(t) THEN store
                     ELSE [store EXCEPT ![key] =
                        [generation |-> op[t].provider, revision |-> op[t].revision, at |-> now,
                         native |-> native, began |-> op[t].began, hard |-> op[t].hard,
                         read |-> op[t].read]]
       /\ Set(t, [op[t] EXCEPT !.rows = IF listed /\ Unfenced(t) THEN store'[key] ELSE None,
                               !.result = IF listed /\ ~Unfenced(t) THEN "changed" ELSE @])
       /\ lock' = [lock EXCEPT ![key] = None]
       /\ UNCHANGED <<product, rt, circuit, health, hard, ended>>

\* CachedCatalog and TransportMode: the stored catalog, and nothing more.
Cached(t) ==
    /\ Step(t, "cached", "idle")
    /\ Set(t, [op[t] EXCEPT !.rows = store[CatalogKey(t)]])
    /\ UNCHANGED <<product, rt, circuit, health, catalog, ended>>

\* transparent: sends only what the stored catalog confirms; a body that asks
\* to stream is refused after the plan.
Plan(t) ==
    LET rows == store[CatalogKey(t)]
    IN /\ \/ /\ rows # None
             /\ rows.native
             /\ now - rows.at < FreshFor
             /\ Step(t, "plan", "send")
             /\ Set(t, [op[t] EXCEPT !.rows = rows])
          \/ /\ Step(t, "plan", "idle")
             /\ Set(t, [op[t] EXCEPT !.result = "refusedPlan"])
       /\ UNCHANGED <<product, rt, circuit, health, catalog, ended>>

----------------------------------------------------------------------------
Operation(t) ==
    \/ Snapshot(t) \/ Bound(t) \/ Resolve(t) \/ Token(t)
    \/ Send(t) \/ Refresh(t) \/ Observe(t)
    \/ Since(t) \/ Read(t) \/ Save(t) \/ Cached(t) \/ Plan(t)

Next ==
    \/ Update \/ Tick
    \/ \E b \in Rebindings : Bind(b[1], b[2])
    \/ \E key \in Revocable : Replace(key) \/ Invalidate(key)
    \/ \E t \in Thread :
        \/ \E kind \in Kinds, caller \in Caller : Begin(t, kind, caller)
        \/ Operation(t)

Spec == Init /\ [][Next]_vars

----------------------------------------------------------------------------
(* Properties.                                                             *)

Labels == {"idle", "snapshot", "bind", "resolve", "token", "send", "resend", "refresh",
           "observe", "since", "lock", "save", "cached", "plan"}

\* The types of the Runtime's fields, of the stores it shares and of the operations' locals.
TypeOK ==
    /\ settings \in Generation /\ updatedAt \in [1..MaxGeneration -> 0..MaxTime]
    /\ rt \in [started : BOOLEAN, generation : Generation, changedAt : 0..MaxTime,
               provider : Generation, coordinator : Generation]
    /\ policies \in Policies /\ circuit \in [policy : Generation, open : BOOLEAN]
    /\ health \in {"healthy", "failing", None}
    /\ table \in [Caller \cup {Shared} -> Slot]
    /\ record \in [Key -> Revision] /\ revoked \in [Key -> Revision]
    /\ store \in [Slot -> Rows \cup {None}]
    /\ hard \in [Slot -> Nat] /\ lock \in [Slot -> Thread \cup {None}]
    /\ now \in 0..MaxTime /\ begun \in 0..MaxOps
    /\ pc \in [Thread -> Labels] /\ ended \in [Thread -> BOOLEAN]
    /\ op \in [Thread -> Op]

\* An operation runs with a provider and a coordinator of one settings
\* generation, no older than the settings were when it began, whatever older
\* snapshot another operation installs between its bind and its requests.
BindingCurrent ==
    \A t \in Thread : op[t].provider # 0 =>
        /\ op[t].provider = op[t].coordinator
        /\ op[t].provider >= op[t].began

\* The circuit policy in effect is that of the provider the instance's next
\* operation is bound to, also after an older snapshot was noticed again.
PolicyInEffect ==
    rt.provider # 0 /\ policies[rt.provider].circuit => circuit.policy = rt.provider

\* An operation is judged by the circuit policy of its own provider, or by one
\* that was put in effect after it was bound: never by one left from before.
\* (An older snapshot, noticed again, puts the older policy in effect for it.)
PolicyOfOperation ==
    \A t \in Thread : op[t].provider # 0 /\ policies[op[t].provider].circuit =>
        circuit.policy \in {op[t].provider} \cup op[t].overrides

\* ListModels never answers an operation of the new settings from a catalog
\* observed before they came into effect, except its provider's own.  One that
\* older settings listed is of a discovery that straddled the change: begun
\* before it, and observed, as the discovery ended, at it or later.
NoRowsFromBeforeChange ==
    \A t \in Thread :
        LET o == op[t]
        IN o.fresh /\ o.rows.generation # o.provider =>
              /\ o.rows.at >= updatedAt[o.provider]
              /\ o.rows.generation < o.provider => o.rows.began < o.provider

\* A stored catalog was discovered after its last hard invalidation, with a
\* credential no older than it was then: unless the credential was read before
\* the invalidation and the discovery counted after it, which fences nothing.
NoRowsOfReplacedCredential ==
    \A key \in Key : store[key] # None =>
        /\ store[key].hard = hard[key]
        /\ store[key].read = hard[key] => store[key].revision >= revoked[key]

\* An operation calls its provider once, or twice when the last try of the
\* first call got a 401 of an OAuth credential; the second call carries another
\* revision of the same credential.  One call carries one revision, and is
\* tried no more often than its provider's policy allows.
ReplayedOnce ==
    \A t \in Thread : \A i \in DOMAIN op[t].sent :
        LET sent == op[t].sent
            s == sent[i]
        IN /\ s.try <= Attempts(t)
           /\ i = 1 => s.call = 1 /\ s.try = 1
           /\ i > 1 =>
                LET before == sent[i - 1]
                IN /\ s.key = before.key
                   /\ \/ /\ s.call = before.call /\ s.try = before.try + 1
                         /\ s.revision = before.revision
                         /\ before.result \in Failed
                      \/ /\ s.call = 2 /\ before.call = 1 /\ s.try = 1
                         /\ s.revision # before.revision
                         /\ before.result = "unauthorized" /\ s.key \in Key \ ApiKeys

\* An operation never sends a credential that was replaced before it began.
NoStaleCredential ==
    \A t \in Thread : \A i \in DOMAIN op[t].sent :
        LET s == op[t].sent[i]
        IN s.key # None => s.revision >= op[t].floor[s.key]

\* Each operation that sent, and whose caller still waits, leaves exactly one
\* account evidence, about its last request and the credential that carried it.
EvidenceHonest ==
    \A t \in Thread :
        LET o == op[t]
        IN /\ Len(o.evidence) <= 1
           /\ pc[t] = "idle" /\ o.sent # <<>> /\ ~ended[t] => Len(o.evidence) = 1
           /\ o.evidence # <<>> /\ o.evidence[1].result \in Results \ {"refused"} =>
                 LET last == o.sent[Len(o.sent)]
                 IN o.evidence[1] = [key |-> last.key, revision |-> last.revision, result |-> last.result]

\* Operations are bound to settings no older than when they began, and judged by their
\* provider's circuit policy until another is put in effect (Runtime.bind, circuits.guard).
SettingsInEffect == TypeOK /\ BindingCurrent /\ PolicyInEffect /\ PolicyOfOperation

\* Rows of other settings are served as fresh only when observed since the change, those
\* of older ones only from a discovery that straddled it, and a stored catalog was counted
\* after its last hard invalidation; its credential is older than that only when it was
\* read before (Runtime.changedAt, Runtime.ReadCatalog, catalog.Service.save).
RowsCurrent == NoRowsFromBeforeChange /\ NoRowsOfReplacedCredential

\* Requests carry a credential the store had during their operation, and another revision
\* of it only in one replay, a second call, after a 401 (Runtime.credential,
\* rejectedCredential, refreshed).
CredentialsCurrent == ReplayedOnce /\ NoStaleCredential
=============================================================================
