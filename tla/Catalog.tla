------------------------------ MODULE Catalog ------------------------------
(***************************************************************************)
(* catalog.Service over a core.CatalogStore: reads that serve a stored     *)
(* catalog while it is fresh and otherwise discover it, and discoveries    *)
(* fenced against invalidation.                                            *)
(*                                                                         *)
(* Several processes, each with one Service, share one store.  The         *)
(* goroutines of a process (Thread, ProcOf) run Read, Refresh, Cached and  *)
(* Invalidate.  One step is one access to the store or one critical        *)
(* section of a Service mutex, the points at which goroutines and          *)
(* processes interleave.                                                   *)
(*                                                                         *)
(* One catalog key is modelled: Service.state gives every key its own      *)
(* mutexes and generations, and the store keeps a record per key, so keys  *)
(* share only the source of revisions, of which only freshness matters.    *)
(***************************************************************************)
EXTENDS Naturals, FiniteSets

CONSTANTS
    Proc,           \* processes, each with one catalog.Service
    Thread,         \* goroutines that call a Service
    ProcOf,         \* the process of each goroutine
    SchemaOf,       \* Options.SchemaVersion of each process's Service
    Rows,           \* catalogs an upstream may list
    NoRows,         \* the member of Rows that lists no model
    Conditional,    \* the store is a core.ConditionalCatalogStore
    KeepStale,      \* Options.KeepStale
    Modes,          \* the Invalidation modes the product uses
    Rebase,         \* the answers of the requests' Rebase hook; {FALSE}: nil
    TTL,            \* Service.TTL
    MaxTime,        \* bound on the clock
    MaxOps,         \* bound on the operations begun
    None            \* no goroutine, no record

ASSUME CatalogConstants ==
    /\ ProcOf \in [Thread -> Proc]
    /\ None \notin Thread
    /\ NoRows \in Rows
    /\ Conditional \in BOOLEAN
    /\ KeepStale \in BOOLEAN
    /\ Modes \subseteq {"hard", "soft"}
    /\ Rebase \subseteq BOOLEAN
    /\ TTL \in Nat
    /\ MaxTime \in Nat
    /\ MaxOps \in Nat

VARIABLES
    record,     \* the stored evidence, or None
    revision,   \* the key's revision, 0 before the first write
    now,        \* the clock all Services read
    hard, soft, \* keyState.hard and keyState.soft of each process
    discovery,  \* the goroutine holding keyState.discovery, per process
    write,      \* the goroutine holding keyState.write, per process
    pc, op,     \* where each goroutine is, and in which operation
    call,       \* the local variables of each operation in progress
    reply,      \* the last answer of each goroutine
    begun,      \* operations begun
    epoch,      \* history: hard invalidations that reached the store
    origin      \* history: the discovery that listed the stored catalog

serviceVars == <<hard, soft, discovery, write>>
storeVars == <<record, revision, epoch, origin>>
vars == <<storeVars, now, serviceVars, pc, op, call, reply, begun>>

----------------------------------------------------------------------------
Evidence == [status : {"discovered", "empty", "not_probed"}, rows : Rows,
             observed : Nat, schema : {SchemaOf[p] : p \in Proc}]

Errors == {"none", "store", "discover", "state_changed"}

\* What let a save past the fence, as history: the revision the discovery
\* loaded, or the latest revision after a soft or a rebased invalidation.
Vias == {"fenced", "soft", "rebased"}

\* The locals of a call: Request.NotBefore, the revision a save expects, the
\* generations before Discover, the evidence discovered and the error refresh
\* returned to Read.  As history: the epoch when the call and its discovery
\* began, and what let its save past the fence.
Call == [notBefore : Nat, fence : Nat, hard : Nat, soft : Nat,
         draft : Evidence \cup {None}, err : Errors,
         seen : Nat, born : Nat, via : Vias]

\* The locals of a call begun at epoch at.
Opened(earliest, at) ==
    [notBefore |-> earliest, fence |-> 0, hard |-> 0, soft |-> 0, draft |-> None,
     err |-> "none", seen |-> at, born |-> 0, via |-> "fenced"]

NoCall == Opened(0, 0)

\* An answer, with the discovery that listed its rows and the epoch when the
\* call began as history.
Reply == [rows : Rows \cup {None}, schema : {SchemaOf[p] : p \in Proc} \cup {None},
          err : Errors, born : Nat, via : Vias, seen : Nat]

\* An answer without a record, beside error e.
Nothing(e) == [rows |-> None, schema |-> None, err |-> e,
               born |-> 0, via |-> "fenced", seen |-> 0]

NoReply == Nothing("none")

\* Mutant: any stored discovery is served, whoever stamped it.
FoundAnySchema(p) ==
    /\ record # None
    /\ record.status \in {"discovered", "empty"}

\* Service.load: a catalog the Service of p serves, of a discovery and
\* stamped with this schema.
Found(p) ==
    /\ record # None
    /\ record.status \in {"discovered", "empty"}
    /\ record.schema = SchemaOf[p]

\* Service.fresh.
Fresh(t) ==
    /\ record.observed >= call[t].notBefore
    /\ now - record.observed < TTL

----------------------------------------------------------------------------
Init ==
    /\ record = None
    /\ revision = 0
    /\ now = 1
    /\ hard = [p \in Proc |-> 0]
    /\ soft = [p \in Proc |-> 0]
    /\ discovery = [p \in Proc |-> None]
    /\ write = [p \in Proc |-> None]
    /\ pc = [t \in Thread |-> "idle"]
    /\ op = [t \in Thread |-> "none"]
    /\ call = [t \in Thread |-> NoCall]
    /\ reply = [t \in Thread |-> NoReply]
    /\ begun = 0
    /\ epoch = 0
    /\ origin = [born |-> 0, via |-> "fenced"]

Goto(t, label) == pc' = [pc EXCEPT ![t] = label]

\* The operation of t ends with answer r, and its locals with it.
Return(t, r) ==
    /\ reply' = [reply EXCEPT ![t] = r]
    /\ call' = [call EXCEPT ![t] = NoCall]
    /\ Goto(t, "idle")

\* An answer with evidence e of discovery d, to a call begun at epoch at.
Answer(e, d, error, at) ==
    [rows |-> e.rows, schema |-> e.schema, err |-> error,
     born |-> d.born, via |-> d.via, seen |-> at]

\* An answer with the stored record.
Stored(error, at) == Answer(record, origin, error, at)

Lock(mutex, t) ==
    /\ mutex[ProcOf[t]] = None
    /\ mutex' = [mutex EXCEPT ![ProcOf[t]] = t]

Unlock(mutex, t) == mutex' = [mutex EXCEPT ![ProcOf[t]] = None]

----------------------------------------------------------------------------
(* Read and Refresh.                                                       *)

Begin(t, kind, earliest) ==
    /\ pc[t] = "idle" /\ begun < MaxOps
    /\ begun' = begun + 1
    /\ op' = [op EXCEPT ![t] = kind]
    /\ call' = [call EXCEPT ![t] = Opened(earliest, epoch)]
    /\ Goto(t, "lock")
    /\ UNCHANGED <<storeVars, now, serviceVars, reply>>

\* Mutant: the discovery mutex is not taken.
AcquireNothing(t) ==
    /\ pc[t] = "lock"
    /\ Goto(t, "load")
    /\ UNCHANGED <<storeVars, now, serviceVars, op, call, reply, begun>>

AcquireDiscovery(t) ==
    /\ pc[t] = "lock"
    /\ Lock(discovery, t)
    /\ Goto(t, "load")
    /\ UNCHANGED <<storeVars, now, hard, soft, write, op, call, reply, begun>>

\* Mutant: the discovery mutex stays locked when the load fails.
LoadLeaks(t) ==
    LET serves == op[t] = "read" /\ Found(ProcOf[t]) /\ Fresh(t)
    IN  /\ pc[t] = "load"
        /\ \/ /\ serves
              /\ Return(t, Stored("none", call[t].seen))
              /\ Unlock(discovery, t)
           \/ /\ ~serves
              /\ call' = [call EXCEPT ![t].fence = revision]
              /\ Goto(t, "generations")
              /\ UNCHANGED <<discovery, reply>>
           \/ /\ Return(t, Nothing("store"))
              /\ UNCHANGED discovery
        /\ UNCHANGED <<storeVars, now, hard, soft, write, op, begun>>

\* The first load of Read and Refresh.  Read serves a fresh catalog.
Load(t) ==
    LET serves == op[t] = "read" /\ Found(ProcOf[t]) /\ Fresh(t)
    IN  /\ pc[t] = "load"
        /\ \/ /\ serves
              /\ Return(t, Stored("none", call[t].seen))
              /\ Unlock(discovery, t)
           \/ /\ ~serves
              /\ call' = [call EXCEPT ![t].fence = revision]
              /\ Goto(t, "generations")
              /\ UNCHANGED <<discovery, reply>>
           \/ /\ Return(t, Nothing("store"))
              /\ Unlock(discovery, t)
        /\ UNCHANGED <<storeVars, now, hard, soft, write, op, begun>>

\* keyState.generations, and the call of Request.Discover.
StartDiscovery(t) ==
    LET p == ProcOf[t]
    IN  /\ pc[t] = "generations"
        /\ write[p] = None
        /\ call' = [call EXCEPT ![t].hard = hard[p], ![t].soft = soft[p],
                                ![t].born = epoch]
        /\ Goto(t, "discover")
        /\ UNCHANGED <<storeVars, now, serviceVars, op, reply, begun>>

\* Request.Discover returns a catalog.
Discovered(t, rows) ==
    /\ pc[t] = "discover"
    /\ call' = [call EXCEPT ![t].draft =
           [status |-> IF rows = NoRows THEN "empty" ELSE "discovered",
            rows |-> rows, observed |-> now, schema |-> SchemaOf[ProcOf[t]]]]
    /\ Goto(t, "save")
    /\ UNCHANGED <<storeVars, now, serviceVars, op, reply, begun>>

\* refresh returns error e: Refresh hands it on, Read loads again.
RefreshFails(t, e) ==
    \/ /\ op[t] = "read"
       /\ call' = [call EXCEPT ![t].err = e]
       /\ Goto(t, "reload")
       /\ UNCHANGED <<reply, discovery>>
    \/ /\ op[t] = "refresh"
       /\ Return(t, Nothing(e))
       /\ Unlock(discovery, t)

\* refresh returns a record, which answers Refresh; Read loads again.
RefreshReturns(t, r) ==
    \/ /\ op[t] = "read"
       /\ Goto(t, "reload")
       /\ UNCHANGED <<call, reply, discovery>>
    \/ /\ op[t] = "refresh"
       /\ Return(t, r)
       /\ Unlock(discovery, t)

DiscoverFails(t) ==
    /\ pc[t] = "discover"
    /\ RefreshFails(t, "discover")
    /\ UNCHANGED <<storeVars, now, hard, soft, write, op, begun>>

----------------------------------------------------------------------------
(* Service.save, under keyState.write.                                     *)

\* Mutant: the generations are not compared.
FenceIgnored(t) == TRUE

\* No hard invalidation since the discovery began.
FenceHolds(t) == hard[ProcOf[t]] = call[t].hard

\* Exactly one hard invalidation since, and the request has a Rebase hook.
MayRebase(t) == hard[ProcOf[t]] = call[t].hard + 1 /\ TRUE \in Rebase

SoftChanged(t) == soft[ProcOf[t]] # call[t].soft

SaveEnter(t) ==
    /\ pc[t] = "save"
    /\ \/ /\ FenceHolds(t)
          /\ Lock(write, t)
          /\ call' = [call EXCEPT ![t].via = IF SoftChanged(t) THEN "soft" ELSE "fenced"]
          /\ Goto(t, IF SoftChanged(t) THEN "latest" ELSE "saveif")
          /\ UNCHANGED <<reply, discovery>>
       \/ /\ MayRebase(t)
          /\ Lock(write, t)
          /\ call' = [call EXCEPT ![t].via = "rebased"]
          /\ Goto(t, "latest")
          /\ UNCHANGED <<reply, discovery>>
       \/ /\ ~FenceHolds(t)
          /\ ~MayRebase(t) \/ FALSE \in Rebase
          /\ write[ProcOf[t]] = None
          /\ RefreshFails(t, "state_changed")
          /\ UNCHANGED write
    /\ UNCHANGED <<storeVars, now, hard, soft, op, begun>>

\* A save that no longer expects the revision its discovery loaded.
LoadLatest(t) ==
    /\ pc[t] = "latest"
    /\ \/ /\ call' = [call EXCEPT ![t].fence = revision]
          /\ Goto(t, "saveif")
          /\ UNCHANGED <<reply, discovery, write>>
       \/ /\ RefreshFails(t, "store")
          /\ Unlock(write, t)
    /\ UNCHANGED <<storeVars, now, hard, soft, op, begun>>

\* Mutant: the store ignores the expected revision.
AcceptsAnything(t) == TRUE

\* The store accepts the save: always, unless it can fence it.
Accepts(t) == Conditional => revision = call[t].fence

\* SaveIf, or Save of a store that cannot fence.
Save(t) ==
    LET saved == [born |-> call[t].born, via |-> call[t].via]
    IN  /\ pc[t] = "saveif"
        /\ \/ /\ Accepts(t)
              /\ record' = call[t].draft
              /\ revision' = revision + 1
              /\ origin' = saved
              /\ RefreshReturns(t, Answer(call[t].draft, saved, "none", call[t].seen))
              /\ Unlock(write, t)
           \/ /\ ~Accepts(t)
              /\ Goto(t, "conflict")
              /\ UNCHANGED <<record, revision, origin, call, reply, discovery, write>>
           \/ /\ RefreshFails(t, "store")
              /\ Unlock(write, t)
              /\ UNCHANGED <<record, revision, origin>>
        /\ UNCHANGED <<epoch, now, hard, soft, op, begun>>

\* A save another write beat returns the catalog stored now, if any.
Conflict(t) ==
    /\ pc[t] = "conflict"
    /\ \/ /\ Found(ProcOf[t])
          /\ RefreshReturns(t, Stored("none", call[t].seen))
       \/ /\ ~Found(ProcOf[t])
          /\ RefreshFails(t, "state_changed")
       \/ RefreshFails(t, "store")
    /\ Unlock(write, t)
    /\ UNCHANGED <<storeVars, now, hard, soft, op, begun>>

\* The load after Read's refresh, whose outcome Read answers with.
Reload(t) ==
    LET found == Found(ProcOf[t])
        e == call[t].err
    IN  /\ pc[t] = "reload"
        /\ \/ /\ e = "none" /\ found
              /\ Return(t, Stored("none", call[t].seen))
           \/ /\ e = "none" /\ ~found
              /\ Return(t, Nothing("state_changed"))
           \/ /\ e # "none" /\ found /\ KeepStale
              /\ Return(t, Stored(e, call[t].seen))
           \/ /\ e # "none" /\ ~(found /\ KeepStale)
              /\ Return(t, Nothing(e))
           \/ Return(t, Nothing("store"))
        /\ Unlock(discovery, t)
        /\ UNCHANGED <<storeVars, now, hard, soft, write, op, begun>>

----------------------------------------------------------------------------
(* Cached and Invalidate.                                                  *)

Cached(t) ==
    /\ pc[t] = "idle" /\ begun < MaxOps
    /\ begun' = begun + 1
    /\ op' = [op EXCEPT ![t] = "cached"]
    /\ \/ Found(ProcOf[t]) /\ Return(t, Stored("none", epoch))
       \/ ~Found(ProcOf[t]) /\ Return(t, Nothing("none"))
       \/ Return(t, Nothing("store"))
    /\ UNCHANGED <<storeVars, now, serviceVars>>

\* Invalidate counts the invalidation before it reaches the store.
Invalidate(t, mode) ==
    LET p == ProcOf[t]
    IN  /\ pc[t] = "idle" /\ begun < MaxOps
        /\ begun' = begun + 1
        /\ Lock(write, t)
        /\ hard' = IF mode = "hard" THEN [hard EXCEPT ![p] = @ + 1] ELSE hard
        /\ soft' = IF mode = "soft" THEN [soft EXCEPT ![p] = @ + 1] ELSE soft
        /\ op' = [op EXCEPT ![t] = mode]
        /\ Goto(t, "forget")
        /\ UNCHANGED <<storeVars, now, discovery, call, reply>>

\* Mutant: the record that stands in for a delete is not stamped.
NotProbedUnstamped(p) == [status |-> "not_probed", rows |-> NoRows, observed |-> 0,
                          schema |-> 0]

\* A store that cannot delete keeps a record that was never probed.
NotProbed(p) == [status |-> "not_probed", rows |-> NoRows, observed |-> 0,
                 schema |-> SchemaOf[p]]

\* Delete, or the Save that stands in for it, which may fail.
Forget(t) ==
    /\ pc[t] = "forget"
    /\ \/ /\ record' = IF Conditional THEN None ELSE NotProbed(ProcOf[t])
          /\ revision' = revision + 1
          /\ epoch' = IF op[t] = "hard" THEN epoch + 1 ELSE epoch
          /\ Return(t, Nothing("none"))
       \/ /\ Return(t, Nothing("store"))
          /\ UNCHANGED <<record, revision, epoch>>
    /\ Unlock(write, t)
    /\ UNCHANGED <<origin, now, hard, soft, discovery, op, begun>>

----------------------------------------------------------------------------
Tick ==
    /\ now < MaxTime
    /\ now' = now + 1
    /\ UNCHANGED <<storeVars, serviceVars, pc, op, call, reply, begun>>

\* The steps of t once its operation has begun.
Step(t) ==
    \/ AcquireDiscovery(t)
    \/ Load(t)
    \/ StartDiscovery(t)
    \/ \E rows \in Rows : Discovered(t, rows)
    \/ DiscoverFails(t)
    \/ SaveEnter(t)
    \/ LoadLatest(t)
    \/ Save(t)
    \/ Conflict(t)
    \/ Reload(t)
    \/ Forget(t)

Enter(t) ==
    \/ \E kind \in {"read", "refresh"}, earliest \in {0, now} :
           Begin(t, kind, earliest)
    \/ Cached(t)
    \/ \E mode \in Modes : Invalidate(t, mode)

\* The bounds are spent and every operation has returned.
Quiescent ==
    /\ begun = MaxOps /\ now = MaxTime
    /\ \A t \in Thread : pc[t] = "idle"
    /\ UNCHANGED vars

Next == Tick \/ Quiescent \/ \E t \in Thread : Step(t) \/ Enter(t)

Spec == Init /\ [][Next]_vars

\* Every operation begun goes on: a goroutine is scheduled, a mutex is
\* granted, and an upstream answers or its request ends.
FairSpec == Spec /\ \A t \in Thread : WF_vars(Step(t))

----------------------------------------------------------------------------
(* Properties.                                                             *)

Labels == {"idle", "lock", "load", "generations", "discover", "save", "latest",
           "saveif", "conflict", "reload", "forget"}

\* The type of every variable of the Service, the store and the calls.
TypeOK ==
    /\ record \in Evidence \cup {None}
    /\ revision \in Nat
    /\ now \in Nat
    /\ hard \in [Proc -> Nat] /\ soft \in [Proc -> Nat]
    /\ discovery \in [Proc -> Thread \cup {None}]
    /\ write \in [Proc -> Thread \cup {None}]
    /\ pc \in [Thread -> Labels]
    /\ op \in [Thread -> {"none", "read", "refresh", "cached", "hard", "soft"}]
    /\ call \in [Thread -> Call]
    /\ reply \in [Thread -> Reply]
    /\ begun \in Nat
    /\ epoch \in Nat
    /\ origin \in [born : Nat, via : Vias]

\* A catalog some discovery listed is stored.
Usable == record # None /\ record.status # "not_probed"

\* The hard invalidations a save may ignore: the one its Rebase accepted.
Excused(how) == IF how = "rebased" THEN 1 ELSE 0

\* A stored catalog was discovered by a discovery that began after the last
\* hard invalidation that reached the store (catalog.Hard: a slow discovery
\* never resurrects rows the old credential listed), but for the single
\* invalidation a Rebase hook accepts.
NoResurrection == Usable => origin.born + Excused(origin.via) >= epoch

\* An operation begun after a hard invalidation reached the store never
\* answers with rows a discovery begun before that invalidation listed:
\* not from the cache, not after its own discovery lost a conflict, and not
\* as stale rows beside an error.
ReadAfterInvalidation ==
    \A t \in Thread : reply[t].rows # None =>
        reply[t].born + Excused(reply[t].via) >= reply[t].seen

\* No goroutine is answered with a catalog another schema version stamped,
\* whichever processes of either version write the shared store meanwhile.
SchemaIsolation ==
    \A t \in Thread : reply[t].rows # None => reply[t].schema = SchemaOf[ProcOf[t]]

\* What is stored is not replaced by what was observed earlier.
ObservedAdvances == Usable /\ Usable' => record'.observed >= record.observed

\* A stored catalog is never replaced by one observed earlier: a discovery that was
\* overtaken, by this process or another, does not overwrite what overtook it (SaveIf).
ObservedNeverRegresses == [][ObservedAdvances]_vars

\* Between taking and releasing keyState.discovery.
Discovering(t) == pc[t] \in Labels \ {"idle", "lock", "forget"}

\* Discoveries of one key are serialized within a process.
SerializedDiscovery ==
    \A t, u \in Thread :
        ProcOf[t] = ProcOf[u] /\ Discovering(t) /\ Discovering(u) => t = u

\* Every operation returns: no goroutine waits for ever on the discovery or
\* the write mutex.
OperationsReturn == \A t \in Thread : pc[t] # "idle" ~> pc[t] = "idle"

\* The fence holds: neither the store nor an answer has rows that a hard
\* invalidation removed (Service.save, Service.result).
Fenced == NoResurrection /\ ReadAfterInvalidation

\* The discoveries of a key are ordered: one at a time in a process, and what one
\* observed is never overwritten by another's earlier observation (Service.Read).
DiscoveriesOrdered == [][SerializedDiscovery' /\ ObservedAdvances]_vars
============================================================================
