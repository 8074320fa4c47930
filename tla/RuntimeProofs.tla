--------------------------- MODULE RuntimeProofs ---------------------------
(***************************************************************************)
(* Proofs about Runtime: for any number of goroutines, callers, keys and   *)
(* settings, and however the product's changes fall between their steps,   *)
(* operations are bound to settings and carry credentials no older than    *)
(* when they began, and are not answered with what was observed before     *)
(* their settings or discovered before an invalidation.                    *)
(***************************************************************************)
EXTENDS Runtime, SequenceTheorems, TLAPS

(***************************************************************************)
(* The inductive invariant, in its parts.                                  *)
(***************************************************************************)

\* What the Runtime built, it built from the settings it last noticed; nothing
\* is dated later than the clock.
Dates ==
    /\ settings >= 1 /\ rt.generation <= settings
    /\ rt.provider \in {0, rt.generation} /\ rt.coordinator \in {0, rt.generation}
    /\ rt.started <=> rt.generation # 0
    /\ rt.changedAt <= now
    /\ \A g \in 1..MaxGeneration : updatedAt[g] <= now

\* An operation that was bound has a provider and a coordinator of one
\* generation, which the settings had reached when it took its snapshot, and is
\* judged by its provider's policy or one put in effect since.
Binding(t) ==
    /\ op[t].began <= settings /\ op[t].provider <= settings
    /\ pc[t] = "bind" => /\ op[t].began <= op[t].snapshot /\ op[t].snapshot >= 1
                         /\ op[t].snapshot <= settings
    /\ pc[t] \in {"snapshot", "bind"} => op[t].provider = 0
    /\ pc[t] \notin {"idle", "snapshot", "bind"} => op[t].provider # 0
    /\ op[t].provider # 0 =>
           op[t].provider = op[t].coordinator /\ op[t].provider >= op[t].began
    /\ op[t].provider # 0 /\ policies[op[t].provider].circuit =>
           circuit.policy \in {op[t].provider} \cup op[t].overrides

\* The credential an operation holds is no older than when it began, nor than at
\* the last invalidation when it was read after that; and one that is being
\* refreshed is an OAuth credential.
Holding(t) ==
    /\ \A k \in Key : op[t].floor[k] <= record[k]
    /\ pc[t] = "token" => op[t].key \in Key
    /\ pc[t] \in {"refresh", "resend"} => op[t].key \in Key \ ApiKeys
    /\ pc[t] \in {"plan", "since", "lock", "send", "refresh", "resend"} /\ op[t].key # None
           => op[t].revision >= op[t].floor[op[t].key]
    /\ pc[t] \in {"snapshot", "bind", "resolve"} => op[t].read = 0
    /\ op[t].key \in Key =>
           /\ op[t].read <= hard[op[t].key]
           /\ op[t].read = hard[op[t].key] => op[t].revision >= revoked[op[t].key]

\* The last request of an operation, and whether it carried what the operation holds.
Latest(t) == op[t].sent[Len(op[t].sent)]

Carries(t) ==
    op[t].sent # <<>> /\ Latest(t).key = op[t].key /\ Latest(t).revision = op[t].revision

\* Where an operation has sent nothing yet.
Unsent == {"snapshot", "bind", "resolve", "token", "plan", "since", "lock", "cached"}

\* A call that was tried before failed, with what the operation holds.
Tried(t, call) ==
    Carries(t) /\ Latest(t).call = call /\ Latest(t).try = op[t].tries /\ Latest(t).result \in Failed

\* What an operation has sent, wherever it is.
Sending(t) ==
    /\ pc[t] \in Unsent => op[t].sent = <<>> /\ op[t].tries = 0
    /\ pc[t] = "send" =>
           /\ op[t].tries < Attempts(t)
           /\ op[t].tries = 0 => op[t].sent = <<>>
           /\ op[t].tries # 0 => Tried(t, 1)
    /\ pc[t] = "refresh" =>
           /\ op[t].result = "unauthorized" /\ op[t].result \in Results
           /\ Carries(t) /\ Latest(t).call = 1 /\ Latest(t).result = "unauthorized"
    /\ pc[t] = "resend" =>
           /\ op[t].tries < Attempts(t) /\ op[t].sent # <<>>
           /\ op[t].tries = 0 => /\ Latest(t).call = 1 /\ Latest(t).result = "unauthorized"
                                 /\ Latest(t).key = op[t].key /\ Latest(t).revision # op[t].revision
           /\ op[t].tries # 0 => Tried(t, 2)
    /\ pc[t] = "observe" => op[t].result \in Results \cup Failures
    /\ pc[t] = "observe" /\ op[t].result \in Results \ {"refused"} /\ ~ended[t] =>
           Carries(t) /\ Latest(t).result = op[t].result

\* Of two requests that follow each other, the second is another try of the same
\* call, or the first of a replay with another revision.
Follows(before, s) ==
    /\ s.key = before.key
    /\ \/ /\ s.call = before.call /\ s.try = before.try + 1
          /\ s.revision = before.revision /\ before.result \in Failed
       \/ /\ s.call = 2 /\ before.call = 1 /\ s.try = 1
          /\ s.revision # before.revision
          /\ before.result = "unauthorized" /\ s.key \in Key \ ApiKeys

\* What the requests of an operation carried.
Carried(t) ==
    \A i \in DOMAIN op[t].sent :
        /\ op[t].sent[i].try <= Attempts(t)
        /\ i = 1 => op[t].sent[i].call = 1 /\ op[t].sent[i].try = 1
        /\ i > 1 => Follows(op[t].sent[i - 1], op[t].sent[i])
        /\ op[t].sent[i].key # None => op[t].sent[i].revision >= op[t].floor[op[t].sent[i].key]

\* What an operation left as evidence: nothing before it observes.
Observed(t) ==
    /\ pc[t] \notin {"idle", "save"} => op[t].evidence = <<>>
    /\ Len(op[t].evidence) <= 1
    /\ pc[t] \in {"idle", "save"} /\ op[t].sent # <<>> /\ ~ended[t] => Len(op[t].evidence) = 1
    /\ op[t].evidence # <<>> /\ op[t].evidence[1].result \in Results \ {"refused"} =>
           op[t].evidence[1] = [key |-> Latest(t).key, revision |-> Latest(t).revision,
                                result |-> Latest(t).result]

\* No catalog stored at since or later was listed by a provider of other
\* settings before generation g came into effect.
Settled(g, since) ==
    \A s \in Slot : store[s] # None /\ store[s].generation # g /\ store[s].at >= since =>
        store[s].at >= updatedAt[g]

\* What is stored was listed under settings no older than its operation's
\* beginning, and discovered after the last invalidation: with the credential as
\* it was then or newer, if it was read after it.
Listed ==
    /\ \A s \in Slot : store[s] # None => store[s].began <= store[s].generation
    /\ NoRowsOfReplacedCredential
    /\ \A k \in Key : revoked[k] <= record[k] /\ (hard[k] = 0 => revoked[k] = 0)

\* Before the first bind there is nothing stored; a settings change that was
\* noticed later is dated, and what was stored before it is older.
Stored ==
    /\ Listed
    /\ ~rt.started => \A s \in Slot : store[s] = None
    /\ rt.started => Settled(rt.generation, rt.changedAt)

\* The catalogs an operation may be answered with, and those it was.
Served(t) ==
    /\ op[t].provider # 0 => rt.started /\ Settled(op[t].provider, rt.changedAt)
    /\ pc[t] = "lock" => Settled(op[t].provider, op[t].notBefore)
    /\ pc[t] # "idle" => ~op[t].fresh
    /\ op[t].fresh => /\ op[t].provider # 0 /\ op[t].rows \in Rows
                      /\ op[t].rows.began <= op[t].rows.generation
    /\ op[t].fresh /\ op[t].rows.generation # op[t].provider =>
           op[t].rows.at >= updatedAt[op[t].provider]

OpFacts(t) ==
    Binding(t) /\ Holding(t) /\ Sending(t) /\ Carried(t) /\ Observed(t) /\ Served(t)

IInv ==
    /\ TypeOK /\ Dates /\ PolicyInEffect /\ Stored
    /\ \A t \in Thread : OpFacts(t)

(***************************************************************************)
(* Types.                                                                  *)
(***************************************************************************)

\* The constants' facts the steps need, in the form they need them.
LEMMA ConstantFacts ==
  /\ MaxGeneration \in Nat /\ MaxRevision \in Nat /\ MaxTime \in Nat /\ MaxOps \in Nat
  /\ MaxTries \in Nat /\ MaxTries > 0 /\ Revocable \subseteq Key
  /\ Slot = Key \cup {None} /\ None \notin Key
  BY RuntimeConstants DEF Slot

\* An operation begins with locals of the right types.
LEMMA NewOpType ==
  ASSUME TypeOK, NEW kind \in Kinds, NEW caller \in Caller
  PROVE  NewOp(kind, caller) \in Op
  <1>1. 0 \in Generation /\ 0 \in Revision /\ 0 \in 0..MaxTime /\ None \in Slot
        /\ 0 \in 0..MaxTries
    BY ConstantFacts DEF Generation, Revision
  <1>2. <<>> \in Seq(Sent) /\ <<>> \in Seq(Evidence)
    BY EmptySeq
  <1> QED
    BY <1>1, <1>2 DEF NewOp, Op, TypeOK

\* The types are right to begin with.
LEMMA InitTypeOK == Init => TypeOK
  <1> SUFFICES ASSUME Init PROVE TypeOK
    OBVIOUS
  <1>1. /\ 0 \in Generation /\ 1 \in Generation /\ 0 \in Revision /\ 1 \in Revision
        /\ 0 \in 0..MaxTime /\ 1 \in 0..MaxTime /\ 0 \in 0..MaxOps /\ None \in Slot
        /\ 0 \in 0..MaxTries
    BY ConstantFacts, RuntimeConstants DEF Generation, Revision
  <1>2. <<>> \in Seq(Sent) /\ <<>> \in Seq(Evidence)
    BY EmptySeq
  <1>3. PICK kind \in Kinds, caller \in Caller :
          op = [t \in Thread |-> NewOp(kind, caller)]
    <2>1. (CHOOSE k \in Kinds : TRUE) \in Kinds /\ (CHOOSE c \in Caller : TRUE) \in Caller
      BY RuntimeConstants
    <2>2. op = [t \in Thread |-> NewOp(CHOOSE k \in Kinds : TRUE, CHOOSE c \in Caller : TRUE)]
      BY DEF Init
    <2> QED
      BY <2>1, <2>2, Zenon
  <1>4. NewOp(kind, caller) \in Op
    BY <1>1, <1>2 DEF NewOp, Op, Init
  <1>5. op \in [Thread -> Op]
    BY <1>3, <1>4
  <1>6. /\ settings \in Generation /\ updatedAt \in [1..MaxGeneration -> 0..MaxTime]
        /\ rt \in [started : BOOLEAN, generation : Generation, changedAt : 0..MaxTime,
                   provider : Generation, coordinator : Generation]
        /\ circuit \in [policy : Generation, open : BOOLEAN] /\ policies \in Policies
    BY <1>1 DEF Init
  <1>7. table \in [Caller \cup {Shared} -> Slot]
    BY RuntimeConstants DEF Init, Slot
  <1>8. /\ record \in [Key -> Revision] /\ revoked \in [Key -> Revision]
        /\ store \in [Slot -> Rows \cup {None}]
        /\ hard \in [Slot -> Nat] /\ lock \in [Slot -> Thread \cup {None}]
        /\ pc \in [Thread -> Labels] /\ ended \in [Thread -> BOOLEAN]
        /\ health \in {"healthy", "failing", None} /\ now \in 0..MaxTime /\ begun \in 0..MaxOps
    BY <1>1 DEF Init, Labels
  <1> QED
    BY <1>5, <1>6, <1>7, <1>8 DEF TypeOK

\* A step's own operation, and the others.
LEMMA SetOp ==
  ASSUME TypeOK, NEW t \in Thread, NEW o, Set(t, o)
  PROVE  op'[t] = o /\ \A u \in Thread : u # t => op'[u] = op[u]
  BY DEF TypeOK, Set

\* A step of an operation writes its own locals only.
LEMMA SetType ==
  ASSUME TypeOK, NEW t \in Thread, NEW o \in Op, Set(t, o)
  PROVE  op' \in [Thread -> Op]
  BY DEF TypeOK, Set

\* And moves its own operation only.
LEMMA StepMoves ==
  ASSUME TypeOK, NEW t \in Thread, NEW from, NEW to \in Labels, Step(t, from, to)
  PROVE  /\ pc[t] = from /\ pc'[t] = to /\ pc' \in [Thread -> Labels]
         /\ \A u \in Thread : u # t => pc'[u] = pc[u]
  BY DEF TypeOK, Step

\* A step that leaves product, catalog, provider and health alone keeps their types.
LEMMA QuietType ==
  ASSUME TypeOK, UNCHANGED <<product, rt, circuit, health, catalog>>,
         pc' \in [Thread -> Labels], ended' \in [Thread -> BOOLEAN], op' \in [Thread -> Op]
  PROVE  TypeOK'
  BY DEF TypeOK, product, catalog

\* Asking whether the caller still waits.
LEMMA AsksType ==
  ASSUME TypeOK, NEW t \in Thread, Asks(t)
  PROVE  /\ ended' \in [Thread -> BOOLEAN]
         /\ \A u \in Thread : u # t => ended'[u] = ended[u]
         /\ ended[t] => ended'[t]
  BY DEF TypeOK, Asks

(***************************************************************************)
(* What a step makes of an operation's locals.                             *)
(***************************************************************************)

\* Two records of locals agree on what the operation runs with,
SameBinding(o, n) ==
    /\ n.began = o.began /\ n.provider = o.provider /\ n.coordinator = o.coordinator
    /\ o.overrides \subseteq n.overrides

\* on the credential it holds,
SameHolding(o, n) ==
    /\ n.kind = o.kind /\ n.floor = o.floor /\ n.key = o.key /\ n.revision = o.revision
    /\ n.read = o.read

\* on what it sent and what came of it,
SameRequests(o, n) == n.result = o.result /\ n.sent = o.sent /\ n.tries = o.tries

\* and on the catalog it is answered with.
SameServed(o, n) == n.notBefore = o.notBefore /\ n.rows = o.rows /\ (n.fresh <=> o.fresh)

\* bind reads the settings.
LEMMA SnapshotSet ==
  ASSUME NEW o \in Op, NEW x1 \in Generation,
         NEW n, n = [o EXCEPT !.snapshot = x1]
  PROVE  /\ n \in Op
         /\ SameBinding(o, n) /\ SameHolding(o, n) /\ SameRequests(o, n)
         /\ SameServed(o, n) /\ n.evidence = o.evidence /\ n.snapshot = x1
  BY DEF Op, SameBinding, SameHolding, SameRequests, SameServed

\* An operation ends, or goes on to observe, with a result.
LEMMA ResultSet ==
  ASSUME NEW o \in Op, NEW x1 \in Results \cup Failures \cup {None},
         NEW n, n = [o EXCEPT !.result = x1]
  PROVE  /\ n \in Op
         /\ SameBinding(o, n) /\ SameHolding(o, n) /\ n.sent = o.sent /\ n.tries = o.tries
         /\ SameServed(o, n) /\ n.evidence = o.evidence /\ n.result = x1
  BY DEF Op, SameBinding, SameHolding, SameRequests, SameServed

\* Resolve names the credential.
LEMMA KeySet ==
  ASSUME NEW o \in Op, NEW x1 \in Slot,
         NEW n, n = [o EXCEPT !.key = x1]
  PROVE  /\ n \in Op
         /\ SameBinding(o, n) /\ n.kind = o.kind /\ n.floor = o.floor
         /\ n.revision = o.revision /\ n.read = o.read /\ SameRequests(o, n) /\ SameServed(o, n)
         /\ n.evidence = o.evidence /\ n.key = x1
  BY DEF Op, SameBinding, SameHolding, SameRequests, SameServed

\* observe leaves evidence.
LEMMA EvidenceSet ==
  ASSUME NEW o \in Op, NEW x1 \in Seq(Evidence),
         NEW n, n = [o EXCEPT !.evidence = x1]
  PROVE  /\ n \in Op
         /\ SameBinding(o, n) /\ SameHolding(o, n) /\ SameRequests(o, n)
         /\ SameServed(o, n) /\ n.evidence = x1
  BY DEF Op, SameBinding, SameHolding, SameRequests, SameServed

\* ListModels reads when the settings changed.
LEMMA SinceSet ==
  ASSUME NEW o \in Op, NEW x1 \in 0..MaxTime,
         NEW n, n = [o EXCEPT !.notBefore = x1]
  PROVE  /\ n \in Op
         /\ SameBinding(o, n) /\ SameHolding(o, n) /\ SameRequests(o, n)
         /\ n.rows = o.rows /\ (n.fresh <=> o.fresh) /\ n.evidence = o.evidence
         /\ n.notBefore = x1
  BY DEF Op, SameBinding, SameHolding, SameRequests, SameServed

\* A discovery counts the invalidations.
LEMMA HardSet ==
  ASSUME NEW o \in Op, NEW x1 \in Nat,
         NEW n, n = [o EXCEPT !.hard = x1]
  PROVE  /\ n \in Op
         /\ SameBinding(o, n) /\ SameHolding(o, n) /\ SameRequests(o, n)
         /\ SameServed(o, n) /\ n.evidence = o.evidence /\ n.hard = x1
  BY DEF Op, SameBinding, SameHolding, SameRequests, SameServed

\* A stored catalog answers an operation, or plans it.
LEMMA RowsSet ==
  ASSUME NEW o \in Op, NEW x1 \in Rows \cup {None},
         NEW n, n = [o EXCEPT !.rows = x1]
  PROVE  /\ n \in Op
         /\ SameBinding(o, n) /\ SameHolding(o, n) /\ SameRequests(o, n)
         /\ n.notBefore = o.notBefore /\ (n.fresh <=> o.fresh)
         /\ n.evidence = o.evidence /\ n.rows = x1
  BY DEF Op, SameBinding, SameHolding, SameRequests, SameServed

(***************************************************************************)
(* What every step leaves true of an operation it does not move.           *)
(***************************************************************************)

\* Time, settings and credentials only go forward, what is stored anew was listed
\* now, and a policy newly in effect is known to the operations bound before.
Ahead ==
    /\ settings' >= settings /\ now' >= now /\ policies' = policies
    /\ \A u \in Thread : op[u].provider # 0 /\ op'[u].provider = op[u].provider =>
           circuit'.policy \in {circuit.policy} \cup op'[u].overrides
    /\ \A k \in Key : hard'[k] >= hard[k] /\ (hard'[k] = hard[k] => revoked'[k] = revoked[k])
    /\ \A g \in 1..settings : updatedAt'[g] = updatedAt[g]
    /\ \A k \in Key : record'[k] >= record[k]
    /\ rt.started => rt'.started
    /\ rt'.changedAt >= rt.changedAt
    /\ \A s \in Slot : store'[s] # None => store'[s] = store[s] \/ store'[s].at >= now

\* The catalogs settled for a generation stay so, and for any later time.
LEMMA SettledAhead ==
  ASSUME TypeOK, TypeOK', Dates, Ahead, NEW g \in Generation \ {0}, g <= settings,
         NEW a \in Nat, NEW b \in Nat, b >= a, Settled(g, a), NEW s \in Slot,
         store'[s] # None, store'[s].generation # g, store'[s].at >= b
  PROVE  store'[s].at >= updatedAt'[g]
  <1>1. g \in 1..MaxGeneration /\ g \in 1..settings /\ updatedAt'[g] = updatedAt[g]
    BY ConstantFacts DEF Ahead, Generation, TypeOK
  <1>2. updatedAt[g] \in Nat /\ updatedAt[g] <= now /\ now \in Nat
    BY <1>1 DEF TypeOK, Dates
  <1>3. store'[s] \in Rows
    BY DEF TypeOK
  <1>4. store'[s].at \in Nat
    BY <1>3 DEF Rows
  <1>5. CASE store'[s].at >= now
    BY <1>1, <1>2, <1>4, <1>5
  <1>6. CASE store'[s] = store[s]
    BY <1>1, <1>4, <1>6 DEF Settled
  <1> QED
    BY <1>5, <1>6 DEF Ahead

\* The binding of an operation stays as it is.
LEMMA KeepBinding ==
  ASSUME TypeOK, TypeOK', Ahead, NEW u \in Thread, Binding(u), SameBinding(op[u], op'[u]),
         pc'[u] = "bind" => pc[u] = "bind" /\ op'[u].snapshot = op[u].snapshot,
         pc[u] \in {"idle", "snapshot", "bind"} => pc'[u] \in {pc[u], "idle"},
         pc'[u] = "snapshot" => pc[u] = "snapshot"
  PROVE  Binding(u)'
  <1>1. op[u] \in Op /\ op'[u] \in Op /\ settings \in Generation /\ settings' \in Generation
    BY DEF TypeOK
  <1>2. op[u].began \in Generation /\ op[u].provider \in Generation /\ op[u].snapshot \in Generation
    BY <1>1 DEF Op
  <1>3. \A g \in Generation : g \in Nat
    BY ConstantFacts DEF Generation
  <1>4. ASSUME op'[u].provider # 0, policies'[op'[u].provider].circuit
        PROVE  circuit'.policy \in {op'[u].provider} \cup op'[u].overrides
    <2>1. op'[u].provider = op[u].provider /\ op[u].overrides \subseteq op'[u].overrides
      BY DEF SameBinding
    <2>2. policies' = policies /\ circuit'.policy \in {circuit.policy} \cup op'[u].overrides
      BY <1>4, <2>1 DEF Ahead
    <2>3. circuit.policy \in {op[u].provider} \cup op[u].overrides
      BY <1>4, <2>1, <2>2 DEF Binding
    <2> QED
      BY <2>1, <2>2, <2>3
  <1> QED
    BY <1>1, <1>2, <1>3, <1>4 DEF Binding, SameBinding, Ahead

\* So does the credential it holds, while the store's only gets newer.
LEMMA KeepHolding ==
  ASSUME TypeOK, TypeOK', Ahead, NEW u \in Thread, Holding(u), SameHolding(op[u], op'[u]),
         pc'[u] = "token" => op[u].key \in Key,
         pc'[u] \in {"refresh", "resend"} => op[u].key \in Key \ ApiKeys,
         pc'[u] \in {"plan", "since", "lock", "send", "refresh", "resend"} =>
             (op[u].key # None => op[u].revision >= op[u].floor[op[u].key]),
         pc'[u] \in {"snapshot", "bind", "resolve"} => pc[u] \in {"snapshot", "bind", "resolve"}
  PROVE  Holding(u)'
  <1>1. op[u] \in Op /\ op'[u] \in Op
    BY DEF TypeOK
  <1>2. op[u].floor \in [Key -> Revision]
    BY <1>1 DEF Op
  <1>3. ASSUME NEW k \in Key PROVE op'[u].floor[k] <= record'[k]
    <2>1. op[u].floor[k] \in Nat /\ record[k] \in Nat /\ record'[k] \in Nat
      BY <1>2, ConstantFacts DEF TypeOK, Revision
    <2> QED
      BY <2>1 DEF Holding, SameHolding, Ahead
  <1>4. ASSUME op'[u].key \in Key
        PROVE  /\ op'[u].read <= hard'[op'[u].key]
               /\ op'[u].read = hard'[op'[u].key] => op'[u].revision >= revoked'[op'[u].key]
    <2>1. PICK k \in Key : k = op'[u].key /\ k = op[u].key
      BY <1>4 DEF SameHolding
    <2>2. PICK r : r = op[u].read /\ r = op'[u].read
      BY DEF SameHolding
    <2>3. r \in Nat /\ hard[k] \in Nat /\ hard'[k] \in Nat
      BY <1>1, <2>2, ConstantFacts DEF Op, TypeOK
    <2>4. r <= hard[k] /\ hard'[k] >= hard[k]
      BY <2>1, <2>2 DEF Holding, Ahead
    <2>5. r = hard'[k] => op[u].revision >= revoked[k] /\ revoked'[k] = revoked[k]
      BY <2>1, <2>2, <2>3, <2>4 DEF Holding, Ahead
    <2>6. op'[u].revision = op[u].revision
      BY DEF SameHolding
    <2> QED
      BY <2>1, <2>2, <2>3, <2>4, <2>5, <2>6
  <1> QED
    BY <1>3, <1>4 DEF Holding, SameHolding

\* So do the tries its provider's policy allows it,
LEMMA KeepAttempts ==
  ASSUME Ahead, NEW u \in Thread, SameBinding(op[u], op'[u]), op'[u].kind = op[u].kind
  PROVE  Attempts(u)' = Attempts(u)
  BY DEF Ahead, SameBinding, Attempts

\* and what its requests carried.
LEMMA KeepCarried ==
  ASSUME Ahead, NEW u \in Thread, Carried(u), SameBinding(op[u], op'[u]), op'[u].kind = op[u].kind,
         op'[u].sent = op[u].sent, op'[u].floor = op[u].floor
  PROVE  Carried(u)'
  <1>1. Attempts(u)' = Attempts(u)
    BY KeepAttempts
  <1> QED
    BY <1>1 DEF Carried

\* And what it is answered with.
LEMMA KeepServed ==
  ASSUME TypeOK, TypeOK', Dates, Ahead, NEW u \in Thread, Binding(u), Served(u),
         SameBinding(op[u], op'[u]), SameServed(op[u], op'[u]),
         pc'[u] = "lock" => pc[u] = "lock",
         pc[u] = "idle" => pc'[u] = "idle"
  PROVE  Served(u)'
  <1>1. PICK g : g = op[u].provider
    OBVIOUS
  <1>2. PICK since : since = op[u].notBefore
    OBVIOUS
  <1>3. op[u] \in Op /\ op'[u] \in Op
    BY DEF TypeOK
  <1>4. g \in Generation /\ since \in Nat /\ g <= settings
    BY <1>1, <1>2, <1>3, ConstantFacts DEF Op, Binding
  <1>5. rt.changedAt \in Nat /\ rt'.changedAt \in Nat /\ rt'.changedAt >= rt.changedAt
    BY ConstantFacts DEF TypeOK, Ahead
  <1>6. ASSUME g # 0 PROVE rt'.started /\ Settled(op[u].provider, rt.changedAt)'
    <2>1. rt.started /\ Settled(g, rt.changedAt)
      BY <1>1, <1>6 DEF Served
    <2>2. op'[u].provider = g
      BY <1>1 DEF SameBinding
    <2> QED
      BY <1>4, <1>5, <1>6, <2>1, <2>2, SettledAhead DEF Settled, Ahead
  <1>7. ASSUME pc'[u] = "lock" PROVE Settled(op[u].provider, op[u].notBefore)'
    <2>1. pc[u] = "lock" /\ Settled(g, since) /\ g # 0
      BY <1>1, <1>2, <1>7 DEF Served, Binding
    <2>2. op'[u].provider = g /\ op'[u].notBefore = since
      BY <1>1, <1>2 DEF SameBinding, SameServed
    <2> QED
      BY <1>4, <2>1, <2>2, SettledAhead DEF Settled
  <1>8. ASSUME op[u].fresh PROVE updatedAt'[g] = updatedAt[g]
    <2>1. g # 0
      BY <1>1, <1>8 DEF Served
    <2> QED
      BY <1>4, <2>1, ConstantFacts DEF Ahead, Generation, TypeOK
  <1> QED
    BY <1>1, <1>6, <1>7, <1>8 DEF Served, SameBinding, SameServed

\* Two records of locals agree on all but the policies put in effect since.
Alike(o, n) ==
    /\ SameBinding(o, n) /\ SameHolding(o, n) /\ SameRequests(o, n) /\ SameServed(o, n)
    /\ n.evidence = o.evidence /\ n.snapshot = o.snapshot

\* What is left of an operation that a step does not move.
LEMMA OtherFacts ==
  ASSUME TypeOK, TypeOK', Dates, Ahead, NEW u \in Thread, OpFacts(u),
         Alike(op[u], op'[u]), pc'[u] = pc[u], ended'[u] = ended[u]
  PROVE  OpFacts(u)'
  <1>1. SameBinding(op[u], op'[u]) /\ SameHolding(op[u], op'[u]) /\ SameServed(op[u], op'[u])
        /\ SameRequests(op[u], op'[u])
    BY DEF Alike
  <1>2. Binding(u)'
    BY <1>1, KeepBinding DEF OpFacts, Alike
  <1>3. Holding(u)'
    BY <1>1, KeepHolding DEF OpFacts, Holding
  <1>4. Carried(u)'
    BY <1>1, KeepCarried DEF OpFacts, SameRequests, SameHolding
  <1>5. Sending(u)' /\ Observed(u)'
    <2>1. Attempts(u)' = Attempts(u)
      BY <1>1, KeepAttempts DEF SameHolding
    <2>2. /\ op'[u].sent = op[u].sent /\ op'[u].tries = op[u].tries /\ op'[u].result = op[u].result
          /\ op'[u].key = op[u].key /\ op'[u].revision = op[u].revision
          /\ op'[u].evidence = op[u].evidence
      BY <1>1 DEF SameRequests, SameHolding, Alike
    <2>3. Sending(u)'
      BY <2>1, <2>2 DEF OpFacts, Sending, Carries, Tried, Latest
    <2>4. Observed(u)'
      BY <2>2 DEF OpFacts, Observed, Latest
    <2> QED
      BY <2>3, <2>4
  <1>6. Served(u)'
    BY <1>1, KeepServed DEF OpFacts
  <1> QED
    BY <1>2, <1>3, <1>4, <1>5, <1>6 DEF OpFacts

\* A step that does not write an operation's locals leaves them alike.
LEMMA SameAlike ==
  ASSUME NEW u \in Thread, op'[u] = op[u]
  PROVE  Alike(op[u], op'[u])
  BY DEF Alike, SameBinding, SameHolding, SameRequests, SameServed

\* A step keeps the invariant when it keeps the shared parts and its own operation's.
LEMMA OwnStep ==
  ASSUME IInv, TypeOK', Ahead, Dates', PolicyInEffect', Stored', NEW t \in Thread,
         \A u \in Thread : u # t => op'[u] = op[u] /\ pc'[u] = pc[u] /\ ended'[u] = ended[u],
         OpFacts(t)'
  PROVE  IInv'
  <1>1. ASSUME NEW u \in Thread PROVE OpFacts(u)'
    BY OtherFacts, SameAlike DEF IInv
  <1> QED
    BY <1>1 DEF IInv

\* A step that leaves the product, the provider and what is stored alone.
LEMMA QuietShared ==
  ASSUME IInv, UNCHANGED <<product, rt, store, hard>>, circuit'.policy = circuit.policy
  PROVE  Ahead /\ Dates' /\ PolicyInEffect' /\ Stored'
  <1>1. /\ settings' = settings /\ now' = now /\ updatedAt' = updatedAt /\ record' = record
        /\ rt' = rt /\ store' = store /\ policies' = policies /\ hard' = hard /\ revoked' = revoked
    BY DEF product
  <1>2. /\ settings \in Nat /\ now \in Nat /\ rt.changedAt \in Nat
        /\ \A k \in Key : record[k] \in Nat /\ hard[k] \in Nat
    BY ConstantFacts DEF IInv, TypeOK, Generation, Revision
  <1>3. Ahead
    BY <1>1, <1>2 DEF Ahead
  <1>4. Dates' /\ Stored'
    BY <1>1 DEF IInv, Dates, Stored, Settled, Listed, NoRowsOfReplacedCredential
  <1>5. PolicyInEffect'
    BY <1>1 DEF IInv, PolicyInEffect
  <1> QED
    BY <1>3, <1>4, <1>5

(***************************************************************************)
(* The product's steps.                                                    *)
(***************************************************************************)

\* A step of the product moves no operation.
LEMMA ProductStep ==
  ASSUME IInv, TypeOK', Ahead, Dates', PolicyInEffect', Stored', UNCHANGED <<op, pc, ended>>
  PROVE  IInv'
  <1>1. ASSUME NEW u \in Thread PROVE OpFacts(u)'
    BY OtherFacts, SameAlike DEF IInv
  <1> QED
    BY <1>1 DEF IInv

\* MemorySettings.Update keeps the invariant: the generation it adds is nobody's yet.
LEMMA UpdateStep == ASSUME IInv, Update PROVE IInv'
  <1>1. /\ settings \in Nat /\ settings' = settings + 1 /\ settings' \in Generation
        /\ settings < MaxGeneration /\ now \in 0..MaxTime
        /\ updatedAt' = [updatedAt EXCEPT ![settings + 1] = now]
        /\ UNCHANGED <<policies, rt, circuit, health, lock, now, pc, op, ended, begun,
                       table, record, revoked, store, hard>>
    BY ConstantFacts DEF IInv, TypeOK, Update, Change, Generation
  <1>2. updatedAt' \in [1..MaxGeneration -> 0..MaxTime]
    BY <1>1 DEF IInv, TypeOK
  <1>3. TypeOK'
    BY <1>1, <1>2 DEF IInv, TypeOK
  <1>4. \A g \in 1..settings : updatedAt'[g] = updatedAt[g]
    BY <1>1, ConstantFacts DEF IInv, TypeOK
  <1>5. now \in Nat /\ rt.changedAt \in Nat /\ \A k \in Key : record[k] \in Nat /\ hard[k] \in Nat
    BY ConstantFacts DEF IInv, TypeOK, Revision
  <1>6. Ahead
    BY <1>1, <1>4, <1>5 DEF Ahead
  <1>7. Dates'
    <2>1. \A g \in 1..MaxGeneration : updatedAt'[g] <= now
      BY <1>1, <1>5 DEF IInv, TypeOK, Dates
    <2>2. rt.generation \in Nat
      BY ConstantFacts DEF IInv, TypeOK, Generation
    <2> QED
      BY <1>1, <2>1, <2>2 DEF IInv, Dates
  <1>8. PolicyInEffect'
    BY <1>1 DEF IInv, PolicyInEffect
  <1>9. Stored'
    <2>1. ASSUME rt.started PROVE updatedAt'[rt.generation] = updatedAt[rt.generation]
      <3>1. rt.generation \in 1..settings
        BY <2>1, <1>1, ConstantFacts DEF IInv, TypeOK, Dates, Generation
      <3> QED
        BY <1>4, <3>1
    <2>2. Listed'
      BY <1>1 DEF IInv, Stored, Listed, NoRowsOfReplacedCredential
    <2> QED
      BY <1>1, <2>1, <2>2 DEF IInv, Stored, Settled
  <1> QED
    BY <1>1, <1>3, <1>6, <1>7, <1>8, <1>9, ProductStep

\* The clock keeps the invariant.
LEMMA TickStep == ASSUME IInv, Tick PROVE IInv'
  <1>1. /\ now \in Nat /\ now' = now + 1 /\ now' \in 0..MaxTime
        /\ UNCHANGED <<settings, updatedAt, policies, rt, circuit, health, table, record, revoked,
                       store, hard, lock, pc, op, ended, begun>>
    BY ConstantFacts DEF IInv, TypeOK, Tick, catalog
  <1>2. TypeOK'
    BY <1>1 DEF IInv, TypeOK
  <1>3. settings \in Nat /\ rt.changedAt \in Nat
        /\ \A k \in Key : record[k] \in Nat /\ hard[k] \in Nat
    BY ConstantFacts DEF IInv, TypeOK, Generation, Revision
  <1>4. \A g \in 1..MaxGeneration : updatedAt[g] \in Nat
    BY ConstantFacts DEF IInv, TypeOK
  <1>5. Ahead
    BY <1>1, <1>3 DEF Ahead
  <1>6. Dates'
    BY <1>1, <1>3, <1>4 DEF IInv, Dates
  <1>7. PolicyInEffect' /\ Stored'
    BY <1>1 DEF IInv, PolicyInEffect, Stored, Settled, Listed, NoRowsOfReplacedCredential
  <1> QED
    BY <1>1, <1>2, <1>5, <1>6, <1>7, ProductStep

\* Bind, Replace and Invalidate keep the invariant: a binding moves no operation
\* that resolved, a credential only gets newer, and a catalog is only dropped.
LEMMA ChangeStep ==
  ASSUME IInv,
         \/ \E b \in Rebindings : Bind(b[1], b[2])
         \/ \E key \in Revocable : Replace(key) \/ Invalidate(key)
  PROVE  IInv'
  <1>0. /\ settings \in Nat /\ now \in Nat /\ rt.changedAt \in Nat
        /\ \A k \in Key : record[k] \in Nat /\ hard[k] \in Nat /\ revoked[k] \in Nat
    BY ConstantFacts DEF IInv, TypeOK, Generation, Revision
  <1>1. UNCHANGED <<settings, updatedAt, policies, rt, circuit, health, lock, now, pc, op, ended, begun>>
    BY DEF Bind, Replace, Invalidate, Change
  <1>2. table' \in [Caller \cup {Shared} -> Slot]
    BY RuntimeConstants DEF Bind, Replace, Invalidate, Change, IInv, TypeOK, Slot
  <1> DEFINE Changed ==
        /\ record' \in [Key -> Revision] /\ revoked' \in [Key -> Revision]
        /\ store' \in [Slot -> Rows \cup {None}] /\ hard' \in [Slot -> Nat]
        /\ \A k \in Key : /\ record'[k] >= record[k] /\ revoked'[k] <= record'[k]
                          /\ hard'[k] >= hard[k]
                          /\ hard'[k] = hard[k] => revoked'[k] = revoked[k]
                          /\ hard'[k] = 0 => revoked'[k] = 0
        /\ \A s \in Slot : store'[s] # None => store'[s] = store[s] /\ hard'[s] = hard[s]
  <1>3. Changed
    <2>0. \A k \in Key : revoked[k] <= record[k] /\ (hard[k] = 0 => revoked[k] = 0)
      BY DEF IInv, Stored, Listed
    <2>1. CASE UNCHANGED <<record, revoked, store, hard>>
      BY <1>0, <2>0, <2>1 DEF IInv, TypeOK
    <2>2. ASSUME NEW key \in Key, Replace(key)
          PROVE  Changed
      <3>1. record[key] + 1 \in Revision
        BY <1>0, <2>2, ConstantFacts DEF Replace, Revision
      <3>2. record' = [record EXCEPT ![key] = record[key] + 1] /\ UNCHANGED <<revoked, store, hard>>
        BY <2>2 DEF Replace, IInv, TypeOK
      <3> QED
        BY <1>0, <2>0, <3>1, <3>2 DEF IInv, TypeOK
    <2>3. ASSUME NEW key \in Key, Invalidate(key)
          PROVE  Changed
      <3>1. key \in Slot /\ hard[key] + 1 \in Nat /\ hard[key] + 1 # hard[key] /\ hard[key] + 1 # 0
        BY <1>0, ConstantFacts
      <3>2. /\ store' = [store EXCEPT ![key] = None] /\ hard' = [hard EXCEPT ![key] = hard[key] + 1]
            /\ revoked' = [revoked EXCEPT ![key] = record[key]] /\ record' = record
        BY <2>3, <3>1 DEF Invalidate, IInv, TypeOK
      <3>3. /\ store \in [Slot -> Rows \cup {None}] /\ hard \in [Slot -> Nat]
            /\ revoked \in [Key -> Revision] /\ record \in [Key -> Revision]
        BY DEF IInv, TypeOK
      <3>4. record' \in [Key -> Revision] /\ revoked' \in [Key -> Revision]
            /\ store' \in [Slot -> Rows \cup {None}] /\ hard' \in [Slot -> Nat]
        BY <3>1, <3>2, <3>3
      <3>5. \A s \in Slot : store'[s] # None => store'[s] = store[s] /\ hard'[s] = hard[s]
        BY <3>1, <3>2, <3>3
      <3>6. ASSUME NEW k \in Key
            PROVE  /\ record'[k] >= record[k] /\ revoked'[k] <= record'[k]
                   /\ hard'[k] >= hard[k] /\ (hard'[k] = hard[k] => revoked'[k] = revoked[k])
                   /\ hard'[k] = 0 => revoked'[k] = 0
        <4>1. k \in Slot
          BY ConstantFacts
        <4> QED
          BY <1>0, <2>0, <3>1, <3>2, <3>3, <4>1
      <3> QED
        BY <3>4, <3>5, <3>6
    <2> QED
      BY <2>1, <2>2, <2>3, ConstantFacts DEF Bind
  <1>4. TypeOK'
    BY <1>1, <1>2, <1>3 DEF IInv, TypeOK
  <1>5. Ahead
    BY <1>0, <1>1, <1>3 DEF Ahead
  <1>6. Dates' /\ PolicyInEffect'
    BY <1>1 DEF IInv, Dates, PolicyInEffect
  <1>7. Stored'
    <2>1. NoRowsOfReplacedCredential'
      <3>1. ASSUME NEW k \in Key, store'[k] # None
            PROVE  /\ store'[k].hard = hard'[k]
                   /\ store'[k].read = hard'[k] => store'[k].revision >= revoked'[k]
        <4>1. store'[k] = store[k] /\ hard'[k] = hard[k] /\ revoked'[k] = revoked[k]
          BY <1>3, <3>1, ConstantFacts
        <4> QED
          BY <3>1, <4>1 DEF IInv, Stored, Listed, NoRowsOfReplacedCredential
      <3> QED
        BY <3>1 DEF NoRowsOfReplacedCredential
    <2>2. Listed'
      BY <1>3, <2>1 DEF IInv, Stored, Listed
    <2> QED
      BY <1>1, <1>3, <2>2 DEF IInv, Stored, Settled
  <1> QED
    BY <1>1, <1>4, <1>5, <1>6, <1>7, ProductStep

(***************************************************************************)
(* The steps of an operation.                                              *)
(***************************************************************************)

\* A step that moves one operation and rewrites its locals.
LEMMA Moves ==
  ASSUME TypeOK, NEW t \in Thread, NEW from, NEW to \in Labels, NEW o \in Op,
         Step(t, from, to), Set(t, o), ended' = ended \/ Asks(t)
  PROVE  /\ pc[t] = from /\ pc'[t] = to /\ op'[t] = o
         /\ pc' \in [Thread -> Labels] /\ op' \in [Thread -> Op] /\ ended' \in [Thread -> BOOLEAN]
         /\ \A u \in Thread : u # t => op'[u] = op[u] /\ pc'[u] = pc[u] /\ ended'[u] = ended[u]
         /\ ended[t] => ended'[t]
  <1>1. ended' \in [Thread -> BOOLEAN] /\ (ended[t] => ended'[t])
        /\ \A u \in Thread : u # t => ended'[u] = ended[u]
    BY AsksType DEF TypeOK
  <1> QED
    BY <1>1, StepMoves, SetOp, SetType

\* One that leaves everything shared alone.
LEMMA QuietMoves ==
  ASSUME IInv, NEW t \in Thread, NEW from, NEW to \in Labels, NEW o \in Op,
         Step(t, from, to), Set(t, o), ended' = ended \/ Asks(t),
         UNCHANGED <<product, rt, circuit, health, catalog>>
  PROVE  /\ TypeOK' /\ Ahead /\ Dates' /\ PolicyInEffect' /\ Stored'
         /\ pc[t] = from /\ pc'[t] = to /\ op'[t] = o
         /\ \A u \in Thread : u # t => op'[u] = op[u] /\ pc'[u] = pc[u] /\ ended'[u] = ended[u]
         /\ ended[t] => ended'[t]
  <1>1. TypeOK
    BY DEF IInv
  <1>2. TypeOK'
    BY <1>1, Moves, QuietType
  <1>3. Ahead /\ Dates' /\ PolicyInEffect' /\ Stored'
    BY QuietShared DEF catalog
  <1> QED
    BY <1>1, <1>2, <1>3, Moves

\* The policy of the provider an operation was bound to allows it a try.
LEMMA AttemptsType ==
  ASSUME TypeOK, NEW t \in Thread, op[t].provider # 0
  PROVE  Attempts(t) \in 1..MaxTries
  <1>1. PICK g : g = op[t].provider
    OBVIOUS
  <1>2. op[t] \in Op /\ g \in Generation
    BY <1>1 DEF TypeOK, Op
  <1>3. g \in 1..MaxGeneration
    BY <1>1, <1>2, ConstantFacts DEF Generation
  <1>4. policies \in [1..MaxGeneration -> [circuit : BOOLEAN, attempts : 1..MaxTries]]
    BY RuntimeConstants DEF TypeOK
  <1>5. policies[g].attempts \in 1..MaxTries
    BY <1>3, <1>4
  <1>6. 1 \in 1..MaxTries
    BY ConstantFacts
  <1> QED
    BY <1>1, <1>5, <1>6 DEF Attempts

\* A step before the first request leaves nothing sent and nothing observed.
LEMMA Unstarted ==
  ASSUME TypeOK, Ahead, NEW t \in Thread, OpFacts(t), pc[t] \in Unsent,
         SameBinding(op[t], op'[t]), op'[t].kind = op[t].kind,
         op'[t].sent = op[t].sent, op'[t].tries = op[t].tries, op'[t].evidence = op[t].evidence,
         \/ pc'[t] \in Unsent \cup {"idle"}
         \/ pc'[t] = "send" /\ op[t].provider # 0
         \/ pc'[t] = "observe" /\ op'[t].result \in Failures \ Results
  PROVE  Sending(t)' /\ Observed(t)'
  <1>1. op'[t].sent = <<>> /\ op'[t].tries = 0 /\ op'[t].evidence = <<>>
    BY DEF OpFacts, Sending, Observed, Unsent
  <1>2. CASE pc'[t] = "send" /\ op[t].provider # 0
    <2>1. Attempts(t) \in 1..MaxTries /\ Attempts(t)' = Attempts(t)
      BY <1>2, AttemptsType, KeepAttempts
    <2>2. 0 < Attempts(t)'
      BY <2>1
    <2> QED
      BY <1>1, <1>2, <2>2 DEF Sending, Observed, Unsent
  <1>3. CASE pc'[t] \in Unsent \cup {"idle"}
    BY <1>1, <1>3 DEF Sending, Observed, Unsent
  <1>4. CASE pc'[t] = "observe" /\ op'[t].result \in Failures \ Results
    BY <1>1, <1>4 DEF Sending, Observed, Unsent
  <1> QED
    BY <1>2, <1>3, <1>4

\* An operation begins: the settings and the credentials are as they are.
LEMMA BeginStep ==
  ASSUME IInv, NEW t \in Thread, NEW kind \in Kinds, NEW caller \in Caller,
         Begin(t, kind, caller)
  PROVE  IInv'
  <1> DEFINE o == NewOp(kind, caller)
  <1>0. TypeOK /\ o \in Op /\ begun \in Nat
    BY NewOpType, ConstantFacts DEF IInv, TypeOK
  <1>1. /\ settings' = settings /\ updatedAt' = updatedAt /\ rt' = rt /\ circuit' = circuit
        /\ health' = health /\ table' = table /\ record' = record /\ store' = store
        /\ hard' = hard /\ lock' = lock /\ now' = now /\ policies' = policies /\ revoked' = revoked
        /\ begun' \in 0..MaxOps
    BY <1>0, ConstantFacts DEF Begin, catalog
  <1>2. pc'[t] = "snapshot" /\ pc' \in [Thread -> Labels]
        /\ \A u \in Thread : u # t => pc'[u] = pc[u]
    BY <1>0, StepMoves DEF Begin, Labels
  <1>3. op'[t] = o /\ op' \in [Thread -> Op] /\ \A u \in Thread : u # t => op'[u] = op[u]
    BY <1>0, SetOp, SetType DEF Begin
  <1>4. ended' \in [Thread -> BOOLEAN] /\ \A u \in Thread : u # t => ended'[u] = ended[u]
    BY <1>0 DEF Begin, TypeOK
  <1>5. TypeOK'
    BY <1>0, <1>1, <1>2, <1>3, <1>4 DEF TypeOK
  <1>6. /\ settings \in Nat /\ now \in Nat /\ rt.changedAt \in Nat
        /\ \A k \in Key : record[k] \in Nat /\ hard[k] \in Nat
    BY <1>0, ConstantFacts DEF TypeOK, Generation, Revision
  <1>7. Ahead /\ Dates' /\ PolicyInEffect' /\ Stored'
    BY <1>1, <1>6 DEF IInv, Ahead, Dates, PolicyInEffect, Stored, Settled, Listed,
                      NoRowsOfReplacedCredential
  <1>8. /\ o.began = settings /\ o.provider = 0 /\ o.floor = record /\ o.sent = <<>> /\ o.tries = 0
        /\ o.evidence = <<>> /\ o.rows = None /\ ~o.fresh /\ o.key = None /\ o.read = 0
    BY DEF NewOp
  <1> HIDE DEF o
  <1>9. OpFacts(t)'
    <2>1. Binding(t)' /\ Holding(t)'
      BY <1>1, <1>2, <1>3, <1>6, <1>8, ConstantFacts DEF Binding, Holding
    <2>2. Sending(t)' /\ Carried(t)' /\ Observed(t)'
      BY <1>2, <1>3, <1>8 DEF Sending, Carried, Observed, Unsent
    <2>3. Served(t)'
      BY <1>2, <1>3, <1>8 DEF Served
    <2> QED
      BY <2>1, <2>2, <2>3 DEF OpFacts
  <1> QED
    BY <1>2, <1>3, <1>4, <1>5, <1>7, <1>9, OwnStep

\* The snapshot: what an operation binds to is no older than when it began.
LEMMA SnapshotStep == ASSUME IInv, NEW t \in Thread, Snapshot(t) PROVE IInv'
  <1> DEFINE n == [op[t] EXCEPT !.snapshot = settings]
  <1>0. TypeOK /\ OpFacts(t) /\ op[t] \in Op /\ settings \in Generation /\ settings \in Nat
        /\ settings >= 1
    BY ConstantFacts DEF IInv, TypeOK, Generation, Dates
  <1>1. /\ n \in Op /\ SameBinding(op[t], n) /\ SameHolding(op[t], n) /\ SameRequests(op[t], n)
        /\ SameServed(op[t], n) /\ n.evidence = op[t].evidence /\ n.snapshot = settings
    BY <1>0, SnapshotSet
  <1> HIDE DEF n
  <1>2. /\ TypeOK' /\ Ahead /\ Dates' /\ PolicyInEffect' /\ Stored'
        /\ pc[t] = "snapshot" /\ pc'[t] = "bind" /\ op'[t] = n
        /\ \A u \in Thread : u # t => op'[u] = op[u] /\ pc'[u] = pc[u] /\ ended'[u] = ended[u]
    BY <1>1, QuietMoves DEF Snapshot, n, Labels
  <1>3. settings' = settings
    BY DEF Snapshot, product
  <1>4. Binding(t)'
    BY <1>0, <1>1, <1>2, <1>3 DEF OpFacts, Binding, SameBinding
  <1>5. Holding(t)' /\ Carried(t)'
    BY <1>0, <1>1, <1>2, KeepHolding, KeepCarried DEF OpFacts, SameRequests, SameHolding, Holding
  <1>6. Sending(t)' /\ Observed(t)'
    BY <1>0, <1>1, <1>2, Unstarted DEF SameRequests, SameHolding, Unsent
  <1>7. Served(t)'
    BY <1>0, <1>1, <1>2, KeepServed DEF OpFacts, IInv
  <1> QED
    BY <1>2, <1>4, <1>5, <1>6, <1>7, OwnStep DEF OpFacts

\* What a Runtime may hold.
Held == [started : BOOLEAN, generation : Generation, changedAt : 0..MaxTime,
         provider : Generation, coordinator : Generation]

\* What bind makes of a snapshot: built things are kept only if they are of its
\* generation, and a change it notices is dated now.
LEMMA NoticedFacts ==
  ASSUME TypeOK, Dates, Stored, NEW g \in Generation \ {0}, g <= settings,
         NEW n, n = Noticed(g)
  PROVE  /\ n \in Held /\ n.started /\ n.generation = g
         /\ n.provider \in {0, g} /\ n.coordinator \in {0, g}
         /\ n.changedAt >= rt.changedAt /\ n.changedAt <= now
         /\ n.provider # 0 => n.provider = rt.provider
         /\ Settled(g, n.changedAt)
  <1>0. /\ rt \in Held /\ now \in 0..MaxTime /\ now \in Nat /\ rt.changedAt \in Nat
        /\ rt.started \in BOOLEAN /\ 0 \in Generation
    BY ConstantFacts DEF TypeOK, Held, Generation
  <1>1. CASE rt.started /\ rt.generation = g
    <2>1. n = rt
      BY <1>1 DEF Noticed
    <2> QED
      BY <1>0, <1>1, <2>1 DEF Dates, Stored
  <1>2. CASE ~(rt.started /\ rt.generation = g)
    <2>1. PICK at : at = IF rt.started THEN now ELSE rt.changedAt
      OBVIOUS
    <2>2. n = [started |-> TRUE, generation |-> g, changedAt |-> at,
               provider |-> 0, coordinator |-> 0]
      BY <1>2, <2>1 DEF Noticed
    <2>3. at \in 0..MaxTime /\ at \in Nat /\ at >= rt.changedAt /\ at <= now
      BY <1>0, <2>1 DEF Dates, Held
    <2>4. Settled(g, at)
      <3>1. CASE ~rt.started
        BY <3>1 DEF Stored, Settled
      <3>2. CASE rt.started
        <4>1. at = now /\ g \in 1..MaxGeneration
          BY <2>1, <3>2, ConstantFacts DEF Generation
        <4>2. updatedAt[g] <= now /\ updatedAt[g] \in Nat
          BY <4>1, ConstantFacts DEF Dates, TypeOK
        <4>3. ASSUME NEW s \in Slot, store[s] # None PROVE store[s].at \in Nat
          BY <4>3, ConstantFacts DEF TypeOK, Rows
        <4> QED
          BY <1>0, <4>1, <4>2, <4>3 DEF Settled
      <3> QED
        BY <3>1, <3>2
    <2> QED
      BY <1>0, <2>2, <2>3, <2>4 DEF Held
  <1> QED
    BY <1>1, <1>2

\* bind: in both of its endings the Runtime holds what is of the snapshot, and the
\* policy in effect is the provider's.
LEMMA BindsShared ==
  ASSUME IInv, NEW t \in Thread, Bound(t), NEW g, g = op[t].snapshot
  PROVE  /\ g \in Generation \ {0} /\ g <= settings /\ g >= op[t].began
         /\ rt' \in Held /\ rt'.started /\ rt'.generation = g
         /\ rt'.provider \in {0, g} /\ rt'.coordinator \in {0, g}
         /\ rt'.changedAt >= rt.changedAt /\ rt'.changedAt <= now
         /\ Settled(g, rt'.changedAt)
         /\ circuit' \in [policy : Generation, open : BOOLEAN]
         /\ rt'.provider # 0 /\ policies[rt'.provider].circuit => circuit'.policy = rt'.provider
         /\ pc[t] = "bind" /\ pc'[t] \in {"idle", "resolve"}
         /\ pc'[t] = "resolve" => rt'.provider = g /\ rt'.coordinator = g
         /\ \/ /\ pc'[t] = "idle" /\ Step(t, "bind", "idle") /\ circuit' = circuit
               /\ Set(t, [op[t] EXCEPT !.result = "factory"])
            \/ /\ pc'[t] = "resolve" /\ Step(t, "bind", "resolve")
               /\ \E puts : /\ op' = BoundOps(t, puts)
                            /\ (puts = {} /\ circuit' = circuit) \/ circuit'.policy \in puts
                            /\ puts \subseteq Generation
  <1>0. TypeOK /\ Dates /\ Stored /\ OpFacts(t) /\ op[t] \in Op
    BY DEF IInv, TypeOK
  <1>1. pc[t] = "bind"
    BY DEF Bound, Binds, Step
  <1>2. g \in Generation \ {0} /\ g <= settings /\ g >= op[t].began /\ g \in Nat
    <2>1. g \in Generation /\ g <= settings /\ op[t].began <= g /\ g >= 1 /\ op[t].began \in Nat
      BY <1>0, <1>1, ConstantFacts DEF OpFacts, Binding, Op, Generation
    <2> QED
      BY <2>1, ConstantFacts DEF Generation
  <1>3. PICK n : n = Noticed(g)
    OBVIOUS
  <1>4. /\ n \in Held /\ n.started /\ n.generation = g
        /\ n.provider \in {0, g} /\ n.coordinator \in {0, g}
        /\ n.changedAt >= rt.changedAt /\ n.changedAt <= now
        /\ (n.provider # 0 => n.provider = rt.provider)
        /\ Settled(g, n.changedAt)
    BY <1>0, <1>2, <1>3, NoticedFacts
  <1>5. circuit \in [policy : Generation, open : BOOLEAN]
    BY <1>0 DEF TypeOK
  <1>6. CASE /\ n.provider = 0 /\ Step(t, "bind", "idle") /\ rt' = n /\ circuit' = circuit
             /\ Set(t, [op[t] EXCEPT !.result = "factory"])
    <2>1. pc'[t] = "idle"
      BY <1>0, <1>6, StepMoves DEF Labels
    <2> QED
      BY <1>1, <1>2, <1>4, <1>5, <1>6, <2>1
  <1>7. CASE /\ Step(t, "bind", "resolve") /\ n.provider = 0
             /\ rt' = [n EXCEPT !.provider = g, !.coordinator = IF @ = 0 THEN g ELSE @]
             /\ circuit' = BuildPolicy(g)
             /\ op' = BoundOps(t, IF policies[g].circuit THEN {g} ELSE {})
    <2>1. pc'[t] = "resolve"
      BY <1>0, <1>7, StepMoves DEF Labels
    <2>2. PICK c : c = IF n.coordinator = 0 THEN g ELSE n.coordinator
      OBVIOUS
    <2>3. c = g
      BY <1>4, <2>2
    <2>4. rt' = [n EXCEPT !.provider = g, !.coordinator = g]
      BY <1>4, <1>7, <2>2, <2>3 DEF Held
    <2>5. /\ rt' \in Held /\ rt'.started /\ rt'.generation = g /\ rt'.provider = g
          /\ rt'.coordinator = g /\ rt'.changedAt = n.changedAt
      BY <1>2, <1>4, <2>4 DEF Held
    <2>6. PICK puts : puts = IF policies[g].circuit THEN {g} ELSE {}
      OBVIOUS
    <2>7. /\ circuit' \in [policy : Generation, open : BOOLEAN]
          /\ policies[g].circuit => circuit'.policy = g
          /\ (puts = {} /\ circuit' = circuit) \/ circuit'.policy \in puts
          /\ puts \subseteq Generation
      BY <1>2, <1>5, <1>7, <2>6 DEF BuildPolicy
    <2>8. op' = BoundOps(t, puts)
      BY <1>7, <2>6, Zenon
    <2>9. pc'[t] = "resolve" /\ Step(t, "bind", "resolve")
          /\ \E p : /\ op' = BoundOps(t, p)
                    /\ (p = {} /\ circuit' = circuit) \/ circuit'.policy \in p
                    /\ p \subseteq Generation
      BY <1>7, <2>1, <2>7, <2>8, Zenon
    <2> QED
      BY <1>1, <1>2, <1>4, <2>1, <2>5, <2>7, <2>9
  <1>8. CASE /\ Step(t, "bind", "resolve") /\ n.provider # 0
             /\ rt' = [n EXCEPT !.coordinator = IF n.coordinator = 0 THEN g ELSE n.coordinator]
             /\ circuit' = circuit /\ op' = BoundOps(t, {})
    <2>1. pc'[t] = "resolve"
      BY <1>0, <1>8, StepMoves DEF Labels
    <2>2. rt' = [n EXCEPT !.coordinator = g]
      BY <1>4, <1>8
    <2>3. /\ rt' \in Held /\ rt'.started /\ rt'.generation = g /\ rt'.provider = g
          /\ rt'.coordinator = g /\ rt'.changedAt = n.changedAt
      BY <1>2, <1>4, <1>8, <2>2 DEF Held
    <2>4. policies[g].circuit => circuit'.policy = g
      BY <1>2, <1>4, <1>8 DEF IInv, PolicyInEffect
    <2>5. \E p : /\ op' = BoundOps(t, p)
                 /\ (p = {} /\ circuit' = circuit) \/ circuit'.policy \in p
                 /\ p \subseteq Generation
      <3>1. PICK p : p = {}
        OBVIOUS
      <3>2. op' = BoundOps(t, p) /\ circuit' = circuit /\ p \subseteq Generation
        BY <1>8, <3>1
      <3> QED
        BY <3>1, <3>2
    <2> QED
      BY <1>1, <1>2, <1>4, <1>5, <1>8, <2>1, <2>3, <2>4, <2>5
  <1>9. \/ <1>6!1 \/ <1>7!1 \/ <1>8!1
    BY <1>3, <1>4 DEF Bound, Binds, Held
  <1> QED
    BY <1>6, <1>7, <1>8, <1>9

\* bind keeps the invariant: the operation gets a provider and a coordinator of its
\* snapshot's generation, whatever another operation had installed.
LEMMA BoundStep == ASSUME IInv, NEW t \in Thread, Bound(t) PROVE IInv'
  <1>0. TypeOK /\ Dates /\ Stored /\ OpFacts(t) /\ op[t] \in Op
    BY DEF IInv, TypeOK
  <1>1. PICK g : g = op[t].snapshot
    OBVIOUS
  <1>2. /\ g \in Generation \ {0} /\ g <= settings /\ g >= op[t].began
        /\ rt' \in Held /\ rt'.started /\ rt'.generation = g
        /\ rt'.provider \in {0, g} /\ rt'.coordinator \in {0, g}
        /\ rt'.changedAt >= rt.changedAt /\ rt'.changedAt <= now
        /\ Settled(g, rt'.changedAt)
        /\ circuit' \in [policy : Generation, open : BOOLEAN]
        /\ (rt'.provider # 0 /\ policies[rt'.provider].circuit => circuit'.policy = rt'.provider)
        /\ pc[t] = "bind" /\ pc'[t] \in {"idle", "resolve"}
        /\ (pc'[t] = "resolve" => rt'.provider = g /\ rt'.coordinator = g)
        /\ \/ /\ pc'[t] = "idle" /\ Step(t, "bind", "idle") /\ circuit' = circuit
              /\ Set(t, [op[t] EXCEPT !.result = "factory"])
           \/ /\ pc'[t] = "resolve" /\ Step(t, "bind", "resolve")
              /\ \E puts : /\ op' = BoundOps(t, puts)
                           /\ (puts = {} /\ circuit' = circuit) \/ circuit'.policy \in puts
                           /\ puts \subseteq Generation
    BY <1>1, BindsShared
  <1>3. UNCHANGED <<settings, updatedAt, policies, table, record, revoked, now, begun, health, store,
                    hard, lock, ended>>
    BY DEF Bound, product, catalog
  <1>4. PICK puts \in SUBSET Generation, n \in Op :
          /\ op'[t] = n /\ op' \in [Thread -> Op]
          /\ \A u \in Thread : u # t => Alike(op[u], op'[u])
          /\ n.began = op[t].began /\ SameHolding(op[t], n) /\ n.sent = op[t].sent /\ n.tries = op[t].tries
          /\ n.evidence = op[t].evidence /\ SameServed(op[t], n)
          /\ \/ pc'[t] = "idle" /\ Step(t, "bind", "idle") /\ SameBinding(op[t], n)
             \/ pc'[t] = "resolve" /\ Step(t, "bind", "resolve") /\ n.provider = g /\ n.coordinator = g
          /\ circuit' = circuit \/ circuit'.policy \in puts
          /\ \A u \in Thread : u # t /\ op[u].provider # 0 => puts \subseteq op'[u].overrides
    <2>1. CASE pc'[t] = "idle" /\ Step(t, "bind", "idle") /\ circuit' = circuit
               /\ Set(t, [op[t] EXCEPT !.result = "factory"])
      <3>1. PICK n : n = [op[t] EXCEPT !.result = "factory"]
        OBVIOUS
      <3>2. "factory" \in Results \cup Failures \cup {None}
        BY DEF Failures
      <3>3. n \in Op /\ SameBinding(op[t], n) /\ SameHolding(op[t], n) /\ n.sent = op[t].sent
            /\ n.tries = op[t].tries /\ n.evidence = op[t].evidence /\ SameServed(op[t], n)
        BY <1>0, <3>1, <3>2, ResultSet
      <3>4. n.began = op[t].began
        BY <3>3 DEF SameBinding
      <3>5. op' \in [Thread -> Op] /\ op'[t] = n /\ \A u \in Thread : u # t => op'[u] = op[u]
        BY <1>0, <2>1, <3>1, <3>3, SetOp, SetType
      <3>6. \A u \in Thread : u # t => Alike(op[u], op'[u])
        BY <3>5, SameAlike
      <3>7. {} \in SUBSET Generation /\ \A u \in Thread : {} \subseteq op'[u].overrides
        OBVIOUS
      <3> QED
        BY <2>1, <3>3, <3>4, <3>5, <3>6, <3>7
    <2>2. CASE /\ pc'[t] = "resolve" /\ Step(t, "bind", "resolve")
               /\ \E puts : /\ op' = BoundOps(t, puts)
                            /\ (puts = {} /\ circuit' = circuit) \/ circuit'.policy \in puts
                            /\ puts \subseteq Generation
      <3>1. PICK puts : /\ op' = BoundOps(t, puts)
                        /\ (puts = {} /\ circuit' = circuit) \/ circuit'.policy \in puts
                        /\ puts \subseteq Generation
        BY <2>2
      <3>2. PICK o \in Op : o = op[t]
        BY <1>0
      <3>3. PICK built, refreshes : built = rt'.provider /\ refreshes = rt'.coordinator
        OBVIOUS
      <3>4. PICK n : n = [o EXCEPT !.provider = built, !.coordinator = refreshes]
        OBVIOUS
      <3>5. built = g /\ refreshes = g /\ g \in Generation
        BY <1>2, <2>2, <3>3
      <3>6. /\ n \in Op /\ SameHolding(o, n) /\ SameRequests(o, n) /\ SameServed(o, n)
            /\ n.began = o.began /\ n.evidence = o.evidence /\ n.provider = g /\ n.coordinator = g
        BY <3>4, <3>5 DEF Op, SameHolding, SameRequests, SameServed
      <3>7. op'[t] = n
        BY <3>1, <3>2, <3>3, <3>4 DEF BoundOps
      <3>8. ASSUME NEW u \in Thread, u # t
            PROVE  /\ op'[u] \in Op /\ Alike(op[u], op'[u])
                   /\ op[u].provider # 0 => puts \subseteq op'[u].overrides
        <4>1. PICK v \in Op : v = op[u]
          BY <1>0 DEF TypeOK
        <4>2. PICK overrides : overrides = IF v.provider = 0 THEN v.overrides ELSE v.overrides \cup puts
          OBVIOUS
        <4>3. /\ overrides \in SUBSET Generation /\ v.overrides \subseteq overrides
              /\ v.provider # 0 => puts \subseteq overrides
          BY <3>1, <4>1, <4>2 DEF Op
        <4>4. op'[u] = [v EXCEPT !.overrides = overrides]
          BY <3>1, <3>8, <4>1, <4>2 DEF BoundOps
        <4>5. /\ op'[u] \in Op /\ op'[u].overrides = overrides /\ Alike(v, op'[u])
          BY <4>3, <4>4 DEF Op, Alike, SameBinding, SameHolding, SameRequests, SameServed
        <4> QED
          BY <4>1, <4>3, <4>5
      <3>9. op' \in [Thread -> Op]
        <4>1. op' = [u \in Thread |-> op'[u]]
          BY <3>1 DEF BoundOps
        <4> QED
          BY <3>6, <3>7, <3>8, <4>1
      <3>10. n.sent = op[t].sent /\ n.tries = op[t].tries /\ SameHolding(op[t], n)
             /\ SameServed(op[t], n) /\ n.began = op[t].began /\ n.evidence = op[t].evidence
        BY <3>2, <3>6 DEF SameRequests
      <3>11. circuit' = circuit \/ circuit'.policy \in puts
        BY <3>1
      <3>12. puts \in SUBSET Generation /\ \A u \in Thread : u # t => Alike(op[u], op'[u])
        BY <3>1, <3>8
      <3>13. \A u \in Thread : u # t /\ op[u].provider # 0 => puts \subseteq op'[u].overrides
        BY <3>8
      <3> QED
        BY <2>2, <3>6, <3>7, <3>9, <3>10, <3>11, <3>12, <3>13
    <2> QED
      BY <1>2, <2>1, <2>2
  <1>5. /\ pc' \in [Thread -> Labels]
        /\ \A u \in Thread : u # t => pc'[u] = pc[u] /\ ended'[u] = ended[u]
    BY <1>0, <1>3, <1>4, StepMoves DEF Labels
  <1>6. TypeOK'
    BY <1>0, <1>2, <1>3, <1>4, <1>5 DEF TypeOK, Held
  <1>7. /\ settings \in Nat /\ now \in Nat /\ rt.changedAt \in Nat
        /\ \A k \in Key : record[k] \in Nat /\ hard[k] \in Nat
        /\ op[t].began \in Nat /\ g \in Nat
    BY <1>0, <1>2, ConstantFacts DEF TypeOK, Generation, Revision, Op
  <1>8. op[t].provider = 0
    BY <1>0, <1>2 DEF OpFacts, Binding
  <1>9. Ahead
    <2>1. ASSUME NEW u \in Thread, op[u].provider # 0
          PROVE  circuit'.policy \in {circuit.policy} \cup op'[u].overrides
      BY <1>4, <1>8, <2>1
    <2> QED
      BY <1>2, <1>3, <1>7, <2>1 DEF Ahead
  <1>10. Dates' /\ PolicyInEffect' /\ Stored'
    <2>1. rt'.started <=> rt'.generation # 0
      BY <1>2
    <2>2. Dates'
      BY <1>0, <1>2, <1>3, <2>1 DEF Dates
    <2>3. PolicyInEffect'
      BY <1>2, <1>3 DEF PolicyInEffect
    <2>4. Listed'
      BY <1>0, <1>3 DEF Stored, Listed, NoRowsOfReplacedCredential
    <2>5. Stored'
      BY <1>0, <1>2, <1>3, <2>4 DEF Stored, Settled
    <2> QED
      BY <2>2, <2>3, <2>5
  <1>11. Binding(t)'
    <2>1. CASE pc'[t] = "idle" /\ SameBinding(op[t], n)
      BY <1>0, <1>3, <1>4, <1>8, <2>1 DEF OpFacts, Binding, SameBinding
    <2>2. CASE pc'[t] = "resolve" /\ n.provider = g /\ n.coordinator = g
      BY <1>0, <1>2, <1>3, <1>4, <1>7, <2>2 DEF OpFacts, Binding
    <2> QED
      BY <1>4, <2>1, <2>2
  <1>12. Holding(t)'
    BY <1>0, <1>2, <1>4, <1>6, <1>9, KeepHolding DEF OpFacts, SameHolding
  <1>13. Sending(t)' /\ Observed(t)' /\ Carried(t)'
    <2>1. op'[t].sent = <<>> /\ op'[t].tries = 0 /\ op'[t].evidence = <<>>
      BY <1>0, <1>2, <1>4 DEF OpFacts, Sending, Observed, Unsent
    <2> QED
      BY <1>2, <2>1 DEF Sending, Observed, Carried, Unsent
  <1>14. Served(t)'
    <2>1. CASE pc'[t] = "idle" /\ SameBinding(op[t], n)
      BY <1>0, <1>2, <1>4, <1>6, <1>9, <2>1, KeepServed DEF OpFacts
    <2>2. CASE pc'[t] = "resolve" /\ n.provider = g /\ n.coordinator = g
      <3>1. ~n.fresh
        BY <1>0, <1>2, <1>4 DEF OpFacts, Served, SameServed
      <3> QED
        BY <1>2, <1>3, <1>4, <2>2, <3>1 DEF Served, Settled
    <2> QED
      BY <1>4, <2>1, <2>2
  <1>15. ASSUME NEW u \in Thread PROVE OpFacts(u)'
    <2>1. CASE u = t
      BY <1>11, <1>12, <1>13, <1>14, <2>1 DEF OpFacts
    <2>2. CASE u # t
      BY <1>0, <1>4, <1>5, <1>6, <1>9, <2>2, OtherFacts DEF IInv
    <2> QED
      BY <2>1, <2>2
  <1> QED
    BY <1>6, <1>10, <1>15 DEF IInv

\* A credential that is unavailable ends the operation, or is observed, before
\* anything was sent.
LEMMA UnavailableStep ==
  ASSUME IInv, NEW t \in Thread, Unavailable(t), pc[t] \in {"resolve", "token"},
         ended' = ended \/ Asks(t), UNCHANGED <<product, rt, circuit, health, catalog>>
  PROVE  IInv'
  <1>0. TypeOK /\ Dates /\ OpFacts(t) /\ op[t] \in Op
    BY DEF IInv, TypeOK
  <1>1. PICK from, to : from = pc[t] /\ to \in {"idle", "observe"} /\ Step(t, from, to)
    BY DEF Unavailable
  <1>2. PICK n : n = [op[t] EXCEPT !.result = "credential"]
    OBVIOUS
  <1>3. "credential" \in Failures /\ "credential" \notin Results
    BY RuntimeConstants DEF Failures, Results
  <1>4. /\ n \in Op /\ SameBinding(op[t], n) /\ SameHolding(op[t], n) /\ n.sent = op[t].sent
        /\ n.tries = op[t].tries /\ SameServed(op[t], n) /\ n.evidence = op[t].evidence
        /\ n.result = "credential"
    BY <1>0, <1>2, <1>3, ResultSet
  <1>5. /\ TypeOK' /\ Ahead /\ Dates' /\ PolicyInEffect' /\ Stored'
        /\ pc'[t] = to /\ op'[t] = n
        /\ \A u \in Thread : u # t => op'[u] = op[u] /\ pc'[u] = pc[u] /\ ended'[u] = ended[u]
    BY <1>1, <1>2, <1>4, QuietMoves DEF Unavailable, Labels
  <1>6. Binding(t)' /\ Holding(t)' /\ Carried(t)' /\ Served(t)'
    BY <1>0, <1>1, <1>4, <1>5, KeepBinding, KeepHolding, KeepCarried, KeepServed
       DEF OpFacts, SameHolding
  <1>7. Sending(t)' /\ Observed(t)'
    BY <1>0, <1>1, <1>3, <1>4, <1>5, Unstarted DEF SameHolding, Unsent
  <1> QED
    BY <1>5, <1>6, <1>7, OwnStep DEF OpFacts

\* Resolve keeps the invariant: it names a credential before anything is held or sent.
LEMMA ResolveStep == ASSUME IInv, NEW t \in Thread, Resolve(t) PROVE IInv'
  <1>0. TypeOK /\ Dates /\ OpFacts(t) /\ op[t] \in Op /\ pc[t] = "resolve"
    BY DEF IInv, TypeOK, Resolve
  <1>1. CASE Unavailable(t)
    BY <1>0, <1>1, UnavailableStep DEF Resolve
  <1>2. CASE ~Unavailable(t)
    <2>1. PICK key : key = Resolved(op[t].caller)
      OBVIOUS
    <2>2. op[t].caller \in Caller /\ op[t].kind \in Kinds
      BY <1>0 DEF Op
    <2>3. key \in Slot
      BY <1>0, <2>1, <2>2 DEF Resolved, TypeOK
    <2>4. PICK to : /\ Step(t, "resolve", to)
                    /\ to = IF key = None \/ op[t].kind = "cached"
                            THEN AfterCredential(op[t].kind) ELSE "token"
      BY <1>2, <2>1 DEF Resolve
    <2>5. /\ to \in {"send", "plan", "since", "cached", "token"}
          /\ to = "token" => key # None
          /\ to \in {"send", "plan", "since"} => key = None
      <3>1. AfterCredential(op[t].kind) \in {"send", "plan", "since", "cached"}
        BY DEF AfterCredential
      <3>2. op[t].kind = "cached" => AfterCredential(op[t].kind) = "cached"
        BY DEF AfterCredential
      <3> QED
        BY <2>4, <3>1, <3>2
    <2>6. PICK n : n = [op[t] EXCEPT !.key = key]
      OBVIOUS
    <2>7. /\ n \in Op /\ SameBinding(op[t], n) /\ SameRequests(op[t], n) /\ SameServed(op[t], n)
          /\ n.evidence = op[t].evidence /\ n.key = key /\ n.floor = op[t].floor
          /\ n.revision = op[t].revision /\ n.read = op[t].read /\ n.kind = op[t].kind
      BY <1>0, <2>3, <2>6, KeySet
    <2>8. Set(t, n) /\ Asks(t) /\ UNCHANGED <<product, rt, circuit, health, catalog>> /\ to \in Labels
      BY <1>2, <2>1, <2>5, <2>6 DEF Resolve, Labels
    <2>9. /\ TypeOK' /\ Ahead /\ Dates' /\ PolicyInEffect' /\ Stored'
          /\ pc'[t] = to /\ op'[t] = n
          /\ \A u \in Thread : u # t => op'[u] = op[u] /\ pc'[u] = pc[u] /\ ended'[u] = ended[u]
      BY <2>4, <2>7, <2>8, QuietMoves
    <2>10. Binding(t)' /\ Carried(t)'
      BY <1>0, <2>5, <2>7, <2>9, KeepBinding, KeepCarried DEF OpFacts, SameRequests
    <2>11. Holding(t)'
      <3>1. record' = record /\ hard' = hard /\ revoked' = revoked
        BY DEF Resolve, product, catalog
      <3>2. to = "token" => key \in Key
        BY <2>3, <2>5, ConstantFacts
      <3>3. n.read = 0 /\ n.revision \in Nat
        BY <1>0, <2>7, ConstantFacts DEF OpFacts, Holding, Op, Revision
      <3>4. ASSUME key \in Key
            PROVE  0 <= hard[key] /\ (0 = hard[key] => n.revision >= revoked[key])
        <4>1. hard[key] \in Nat /\ (hard[key] = 0 => revoked[key] = 0)
          BY <1>0, <3>4, ConstantFacts DEF IInv, TypeOK, Stored, Listed
        <4> QED
          BY <3>3, <4>1
      <3>5. \A k \in Key : n.floor[k] <= record[k]
        BY <1>0, <2>7 DEF OpFacts, Holding
      <3> QED
        BY <2>5, <2>7, <2>9, <3>1, <3>2, <3>3, <3>4, <3>5 DEF Holding
    <2>12. Sending(t)' /\ Observed(t)'
      <3>1. op[t].provider # 0
        BY <1>0 DEF OpFacts, Binding
      <3> QED
        BY <1>0, <2>5, <2>7, <2>9, <3>1, Unstarted DEF Unsent, SameRequests
    <2>13. Served(t)'
      BY <1>0, <2>5, <2>7, <2>9, KeepServed DEF OpFacts
    <2> QED
      BY <2>9, <2>10, <2>11, <2>12, <2>13, OwnStep DEF OpFacts
  <1> QED
    BY <1>1, <1>2

\* A step that leaves everything shared alone but may renew a credential.
LEMMA RenewingMoves ==
  ASSUME IInv, NEW t \in Thread, NEW from, NEW to \in Labels, NEW o \in Op,
         Step(t, from, to), Set(t, o), ended' = ended,
         UNCHANGED <<settings, updatedAt, policies, table, revoked, now, begun, rt, circuit, health,
                     catalog>>,
         record' \in [Key -> Revision], \A k \in Key : record'[k] >= record[k]
  PROVE  /\ TypeOK' /\ Ahead /\ Dates' /\ PolicyInEffect' /\ Stored'
         /\ pc[t] = from /\ pc'[t] = to /\ op'[t] = o
         /\ \A u \in Thread : u # t => op'[u] = op[u] /\ pc'[u] = pc[u] /\ ended'[u] = ended[u]
  <1>0. TypeOK
    BY DEF IInv
  <1>1. /\ pc[t] = from /\ pc'[t] = to /\ op'[t] = o
        /\ pc' \in [Thread -> Labels] /\ op' \in [Thread -> Op] /\ ended' \in [Thread -> BOOLEAN]
        /\ \A u \in Thread : u # t => op'[u] = op[u] /\ pc'[u] = pc[u] /\ ended'[u] = ended[u]
    BY <1>0, Moves
  <1>2. TypeOK'
    BY <1>0, <1>1 DEF TypeOK, catalog
  <1>3. /\ settings \in Nat /\ now \in Nat /\ rt.changedAt \in Nat
        /\ \A k \in Key : hard[k] \in Nat
    BY <1>0, ConstantFacts DEF TypeOK, Generation
  <1>4. Ahead
    BY <1>3 DEF Ahead, catalog
  <1>5. Dates' /\ PolicyInEffect'
    BY DEF IInv, Dates, PolicyInEffect
  <1>6. \A k \in Key : revoked'[k] <= record'[k]
    <2>1. ASSUME NEW k \in Key PROVE revoked'[k] <= record'[k]
      <3>1. revoked[k] \in Nat /\ record[k] \in Nat /\ record'[k] \in Nat
        BY <1>0, ConstantFacts DEF TypeOK, Revision
      <3> QED
        BY <3>1 DEF IInv, Stored, Listed
    <2> QED
      BY <2>1
  <1>7. Listed'
    BY <1>6 DEF IInv, Stored, Listed, NoRowsOfReplacedCredential, catalog
  <1>8. Stored'
    BY <1>7 DEF IInv, Stored, Settled, catalog
  <1> QED
    BY <1>1, <1>2, <1>4, <1>5, <1>8

\* A credential is renewed, or left.
LEMMA Renewal ==
  ASSUME TypeOK, NEW key \in Key,
         record' = record \/ (record[key] < MaxRevision /\ record' = [record EXCEPT ![key] = @ + 1])
  PROVE  /\ record' \in [Key -> Revision] /\ \A k \in Key : record'[k] >= record[k]
         /\ record'[key] \in {record[key], record[key] + 1} /\ record'[key] \in Revision
  <1>0. \A k \in Key : record[k] \in Nat /\ record[k] \in Revision
    BY ConstantFacts DEF TypeOK, Revision
  <1>1. CASE record' = record
    BY <1>0, <1>1 DEF TypeOK
  <1>2. CASE record[key] < MaxRevision /\ record' = [record EXCEPT ![key] = @ + 1]
    <2>1. record[key] + 1 \in Revision
      BY <1>0, <1>2, ConstantFacts DEF Revision
    <2> QED
      BY <1>0, <1>2, <2>1 DEF TypeOK
  <1> QED
    BY <1>1, <1>2

\* What an operation holds once it loaded the record: no older than when it began,
\* nor than at any invalidation so far.
LEMMA LoadedHolding ==
  ASSUME IInv, NEW t \in Thread, NEW key \in Key, key = op[t].key, op'[t].key = key,
         op'[t].floor = op[t].floor, op'[t].revision = record'[key], op'[t].read = hard[key],
         record' \in [Key -> Revision], \A k \in Key : record'[k] >= record[k],
         hard' = hard, revoked' = revoked,
         pc'[t] \notin {"snapshot", "bind", "resolve"},
         pc'[t] \in {"refresh", "resend"} => key \notin ApiKeys
  PROVE  Holding(t)'
  <1>0. OpFacts(t) /\ op[t] \in Op /\ op[t].floor \in [Key -> Revision]
    BY DEF IInv, TypeOK, Op
  <1>1. ASSUME NEW k \in Key
        PROVE  op[t].floor[k] <= record'[k] /\ revoked[k] <= record'[k] /\ hard[k] \in Nat
    <2>1. /\ op[t].floor[k] \in Nat /\ record[k] \in Nat /\ record'[k] \in Nat
          /\ revoked[k] \in Nat /\ hard[k] \in Nat
      BY <1>0, ConstantFacts DEF IInv, TypeOK, Revision
    <2>2. op[t].floor[k] <= record[k] /\ revoked[k] <= record[k]
      BY <1>0 DEF OpFacts, Holding, IInv, Stored, Listed
    <2> QED
      BY <2>1, <2>2
  <1>2. op[t].floor[key] \in Nat /\ record'[key] \in Nat /\ revoked[key] \in Nat
    BY <1>0, ConstantFacts DEF IInv, TypeOK, Revision
  <1> QED
    BY <1>1, <1>2 DEF Holding

\* Token keeps the invariant: the revision it loads is no older than the one the
\* store had when the operation began.
LEMMA TokenStep == ASSUME IInv, NEW t \in Thread, Token(t) PROVE IInv'
  <1>0. TypeOK /\ Dates /\ OpFacts(t) /\ op[t] \in Op /\ pc[t] = "token"
    BY DEF IInv, TypeOK, Token
  <1>1. CASE Unavailable(t) /\ record' = record
    BY <1>0, <1>1, UnavailableStep DEF Token, product
  <1>2. CASE ~(Unavailable(t) /\ record' = record)
    <2>1. PICK key \in Key : key = op[t].key
      BY <1>0 DEF OpFacts, Holding
    <2>2. /\ record' \in [Key -> Revision] /\ \A k \in Key : record'[k] >= record[k]
          /\ record'[key] \in Revision /\ record'[key] >= record[key]
      BY <1>0, <1>2, <2>1, Renewal DEF Token
    <2>3. PICK loaded \in Revision : loaded = record'[key]
      BY <2>2
    <2>4. PICK to : to = AfterCredential(op[t].kind) /\ Step(t, "token", to)
      BY <1>2 DEF Token
    <2>5. to \in {"send", "plan", "since", "cached"} /\ to \in Labels
      BY <2>4 DEF AfterCredential, Labels
    <2>6. PICK counted \in Nat, tries \in 0..MaxTries : counted = hard[key] /\ tries = op[t].tries
      BY <1>0, ConstantFacts DEF TypeOK, Op
    <2>7. PICK n : /\ n = [op[t] EXCEPT !.revision = loaded, !.read = counted, !.tries = tries]
                   /\ n \in Op /\ SameBinding(op[t], n) /\ SameServed(op[t], n)
                   /\ n.kind = op[t].kind /\ n.result = op[t].result /\ n.sent = op[t].sent
                   /\ n.floor = op[t].floor /\ n.key = op[t].key /\ n.evidence = op[t].evidence
                   /\ n.revision = loaded /\ n.read = counted /\ n.tries = tries
      <3>1. PICK n : n = [op[t] EXCEPT !.revision = loaded, !.read = counted, !.tries = tries]
        OBVIOUS
      <3>2. /\ n \in Op
            /\ SameBinding(op[t], n) /\ n.kind = op[t].kind /\ n.floor = op[t].floor
            /\ n.key = op[t].key /\ n.result = op[t].result /\ n.sent = op[t].sent
            /\ SameServed(op[t], n)
            /\ n.evidence = op[t].evidence /\ n.revision = loaded /\ n.read = counted
            /\ n.tries = tries
        <4>1. PICK o \in Op : o = op[t]
          BY <1>0
        <4>2. n = [o EXCEPT !.revision = loaded, !.read = counted, !.tries = tries]
          BY <3>1, <4>1, Zenon
        <4>3. /\ n \in Op /\ SameBinding(o, n) /\ n.kind = o.kind /\ n.floor = o.floor
              /\ n.key = o.key /\ n.result = o.result /\ n.sent = o.sent /\ SameServed(o, n)
              /\ n.evidence = o.evidence /\ n.revision = loaded /\ n.read = counted
              /\ n.tries = tries
          BY <4>2 DEF Op, SameBinding, SameServed
        <4> QED
          BY <4>1, <4>3
      <3> QED
        BY <3>1, <3>2, Zenon
    <2>8. Set(t, n)
      <3>1. Set(t, [op[t] EXCEPT !.revision = loaded, !.read = counted])
        BY <1>2, <2>1, <2>3, <2>6 DEF Token
      <3>2. n = [op[t] EXCEPT !.revision = loaded, !.read = counted]
        BY <1>0, <2>6, <2>7 DEF Op
      <3> QED
        BY <3>1, <3>2
    <2>9. /\ TypeOK' /\ Ahead /\ Dates' /\ PolicyInEffect' /\ Stored'
          /\ pc'[t] = to /\ op'[t] = n
          /\ \A u \in Thread : u # t => op'[u] = op[u] /\ pc'[u] = pc[u] /\ ended'[u] = ended[u]
      BY <2>2, <2>4, <2>5, <2>7, <2>8, RenewingMoves DEF Token
    <2>10. Binding(t)' /\ Carried(t)' /\ Served(t)'
      BY <1>0, <2>5, <2>7, <2>9, KeepBinding, KeepCarried, KeepServed DEF OpFacts
    <2>11. Holding(t)'
      <3>1. hard' = hard /\ revoked' = revoked
        BY DEF Token, catalog
      <3>2. /\ op'[t].key = key /\ op'[t].floor = op[t].floor /\ op'[t].revision = record'[key]
            /\ op'[t].read = hard[key]
        BY <2>1, <2>3, <2>6, <2>7, <2>9
      <3>3. pc'[t] \notin {"snapshot", "bind", "resolve", "refresh", "resend"}
        BY <2>5, <2>9
      <3> QED
        BY <2>1, <2>2, <3>1, <3>2, <3>3, LoadedHolding
    <2>12. Sending(t)' /\ Observed(t)'
      <3>1. op[t].provider # 0
        BY <1>0 DEF OpFacts, Binding
      <3> QED
        BY <1>0, <2>5, <2>6, <2>7, <2>9, <3>1, Unstarted DEF Unsent
    <2> QED
      BY <2>9, <2>10, <2>11, <2>12, OwnStep DEF OpFacts
  <1> QED
    BY <1>1, <1>2

\* Appending to a short sequence of requests.
LEMMA Appended ==
  ASSUME NEW q \in Seq(Sent), NEW s \in Sent, NEW r, r = Append(q, s)
  PROVE  /\ r \in Seq(Sent) /\ Len(q) \in Nat /\ Len(r) = Len(q) + 1 /\ r # <<>>
         /\ DOMAIN r = 1..Len(r) /\ r[Len(r)] = s
         /\ \A i \in 1..Len(q) : r[i] = q[i]
  <1>1. Len(q) \in Nat /\ DOMAIN q = 1..Len(q)
    BY LenProperties
  <1>2. /\ r \in Seq(Sent) /\ Len(r) = Len(q) + 1 /\ r[Len(r)] = s
        /\ \A i \in 1..Len(q) : r[i] = q[i]
    BY <1>1, AppendProperties
  <1>3. DOMAIN r = 1..Len(r) /\ r # <<>>
    BY <1>1, <1>2, LenProperties, EmptySeq
  <1> QED
    BY <1>1, <1>2, <1>3

\* A request touches the circuit's state, never its policy.
LEMMA RecordsCircuit ==
  ASSUME TypeOK, NEW t, NEW result, circuit' = circuit \/ Records(t, result)
  PROVE  circuit' \in [policy : Generation, open : BOOLEAN] /\ circuit'.policy = circuit.policy
  <1>1. circuit \in [policy : Generation, open : BOOLEAN]
    BY DEF TypeOK
  <1>2. CASE circuit' = circuit
    BY <1>1, <1>2
  <1>3. CASE circuit' # circuit
    <2>1. PICK open \in BOOLEAN : circuit' = [circuit EXCEPT !.open = open]
      BY <1>3 DEF Records
    <2> QED
      BY <1>1, <2>1
  <1> QED
    BY <1>2, <1>3

\* The request an operation hands over.
Request(t, result) ==
    [key |-> op[t].key, revision |-> op[t].revision, try |-> op[t].tries + 1,
     call |-> IF pc[t] = "send" THEN 1 ELSE 2, result |-> result]

\* What a call comes to where nothing more is sent: its result and nothing else.
Kept(t, n) ==
    /\ pc'[t] = "observe" /\ n.result \in {"refused", "ended"}
    /\ n.result = "ended" => ended'[t]
    /\ n.sent = op[t].sent /\ n.tries = op[t].tries

\* And where a request was handed over: it is the last, and what follows depends
\* on its result.
Added(t, n) ==
    /\ n.sent = Append(op[t].sent, Request(t, n.result)) /\ n.tries = op[t].tries + 1
    /\ \/ pc'[t] = pc[t] /\ n.result \in Failed /\ n.tries < Attempts(t)
       \/ /\ pc'[t] = "refresh" /\ pc[t] = "send" /\ n.result = "unauthorized"
          /\ op[t].key \in Key \ ApiKeys
       \/ pc'[t] = "observe"

\* What a step of sending makes of its operation.
LEMMA SendLocals ==
  ASSUME IInv, NEW t \in Thread, Send(t)
  PROVE  \E n \in Op :
           /\ Set(t, n)
           /\ SameBinding(op[t], n) /\ SameHolding(op[t], n) /\ SameServed(op[t], n)
           /\ n.evidence = op[t].evidence /\ n.result \in Results
           /\ Kept(t, n) \/ Added(t, n)
           /\ pc' \in [Thread -> Labels] /\ \A u \in Thread : u # t => pc'[u] = pc[u]
           /\ circuit' \in [policy : Generation, open : BOOLEAN]
           /\ circuit'.policy = circuit.policy
  <1>0. TypeOK /\ OpFacts(t) /\ pc[t] \in {"send", "resend"}
    BY DEF IInv, Send
  <1>1. PICK o \in Op : o = op[t]
    BY <1>0 DEF TypeOK
  <1>2. CASE Withheld(t)
    <2>1. PICK result \in {"refused", "ended"} :
            /\ result = "ended" => ended'[t]
            /\ Set(t, [op[t] EXCEPT !.result = result])
      BY <1>2 DEF Withheld
    <2>2. result \in Results /\ result \in Results \cup Failures \cup {None}
      BY DEF Results
    <2>3. PICK n : n = [o EXCEPT !.result = result]
      OBVIOUS
    <2>4. /\ n \in Op /\ SameBinding(o, n) /\ SameHolding(o, n) /\ n.sent = o.sent
          /\ n.tries = o.tries /\ SameServed(o, n) /\ n.evidence = o.evidence /\ n.result = result
      BY <2>2, <2>3, ResultSet
    <2>5. /\ pc'[t] = "observe" /\ pc' \in [Thread -> Labels]
          /\ \A u \in Thread : u # t => pc'[u] = pc[u]
      BY <1>0, <1>2, StepMoves DEF Withheld, Labels
    <2>6. circuit' \in [policy : Generation, open : BOOLEAN] /\ circuit'.policy = circuit.policy
      BY <1>0, <1>2, RecordsCircuit DEF Withheld
    <2>7. Kept(t, n) /\ Set(t, n)
      BY <1>1, <2>1, <2>3, <2>4, <2>5 DEF Kept
    <2> QED
      BY <1>1, <2>2, <2>4, <2>5, <2>6, <2>7
  <1>3. CASE Try(t)
    <2>1. PICK result \in Answers :
            /\ Set(t, Handed(t, result))
            /\ \/ Repeats(t, result) /\ UNCHANGED <<pc, circuit>>
               \/ /\ Step(t, pc[t], IF pc[t] = "send" /\ RejectedCredential(t, result)
                                    THEN "refresh" ELSE "observe")
                  /\ Records(t, result)
      BY <1>3 DEF Try
    <2>2. result \in Results /\ result \in Results \cup Failures \cup {None}
      BY DEF Results
    <2>3. PICK s : s = Request(t, result)
      OBVIOUS
    <2>4. /\ op[t].tries \in Nat /\ op[t].tries + 1 \in 1..MaxTries /\ op[t].tries + 1 \in 0..MaxTries
      <3>1. op[t].provider # 0 /\ op[t].tries < Attempts(t)
        BY <1>0 DEF OpFacts, Binding, Sending
      <3>2. Attempts(t) \in 1..MaxTries /\ op[t].tries \in Nat
        BY <1>0, <1>1, <3>1, AttemptsType, ConstantFacts DEF Op
      <3> QED
        BY <3>1, <3>2, ConstantFacts
    <2>5. s \in Sent /\ o.sent \in Seq(Sent)
      BY <1>1, <2>2, <2>3, <2>4 DEF Op, Sent, Request
    <2>6. PICK q \in Seq(Sent) : q = Append(o.sent, s)
      BY <2>5, Appended
    <2>7. PICK tries \in 0..MaxTries : tries = op[t].tries + 1
      BY <2>4
    <2>8. PICK n : n = [o EXCEPT !.result = result, !.tries = tries, !.sent = q]
      OBVIOUS
    <2>9. /\ n \in Op /\ SameBinding(o, n) /\ SameHolding(o, n) /\ SameServed(o, n)
          /\ n.evidence = o.evidence /\ n.result = result /\ n.sent = q /\ n.tries = tries
      BY <2>2, <2>8 DEF Op, SameBinding, SameHolding, SameServed
    <2>10. Set(t, n)
      <3>1. n = Handed(t, result)
        BY <1>1, <2>3, <2>6, <2>7, <2>8 DEF Handed, Request
      <3> QED
        BY <2>1, <3>1
    <2>11. circuit' \in [policy : Generation, open : BOOLEAN] /\ circuit'.policy = circuit.policy
      BY <1>0, <2>1, RecordsCircuit
    <2>12. CASE Repeats(t, result) /\ UNCHANGED <<pc, circuit>>
      <3>1. Added(t, n)
        BY <1>1, <2>3, <2>6, <2>7, <2>9, <2>12 DEF Added, Repeats
      <3> QED
        BY <1>0, <1>1, <2>2, <2>9, <2>10, <2>11, <2>12, <3>1 DEF TypeOK
    <2>13. CASE Step(t, pc[t], IF pc[t] = "send" /\ RejectedCredential(t, result)
                               THEN "refresh" ELSE "observe")
      <3>1. PICK to \in {"refresh", "observe"} :
              /\ Step(t, pc[t], to)
              /\ to = "refresh" => pc[t] = "send" /\ RejectedCredential(t, result)
        BY <2>13
      <3>2. pc'[t] = to /\ pc' \in [Thread -> Labels] /\ \A u \in Thread : u # t => pc'[u] = pc[u]
        BY <1>0, <3>1, StepMoves DEF Labels
      <3>3. Added(t, n)
        BY <1>1, <2>3, <2>6, <2>7, <2>9, <3>1, <3>2 DEF Added, RejectedCredential
      <3> QED
        BY <1>1, <2>2, <2>9, <2>10, <2>11, <3>2, <3>3
    <2> QED
      BY <2>1, <2>12, <2>13
  <1> QED
    BY <1>2, <1>3 DEF Send

\* A request stays in order after those before it.
LEMMA AddedCarried ==
  ASSUME TypeOK, TypeOK', Ahead, NEW t \in Thread, OpFacts(t), pc[t] \in {"send", "resend"},
         SameBinding(op[t], op'[t]), SameHolding(op[t], op'[t]),
         op'[t].sent = Append(op[t].sent, Request(t, op'[t].result))
  PROVE  Carried(t)'
  <1>0. op[t] \in Op /\ op'[t] \in Op
    BY DEF TypeOK
  <1>1. PICK q \in Seq(Sent) : q = op[t].sent
    BY <1>0 DEF Op
  <1>2. PICK s : s = Request(t, op'[t].result)
    OBVIOUS
  <1>3. PICK r \in Seq(Sent) : r = op'[t].sent /\ r = Append(q, s)
    BY <1>0, <1>1, <1>2 DEF Op
  <1>4. /\ Len(q) \in Nat /\ Len(r) = Len(q) + 1 /\ DOMAIN r = 1..Len(r) /\ DOMAIN q = 1..Len(q)
        /\ r[Len(r)] = s /\ \A i \in 1..Len(q) : r[i] = q[i]
    <2>1. Len(q) \in Nat /\ DOMAIN q = 1..Len(q) /\ DOMAIN r = 1..Len(r)
      BY <1>1, <1>3, LenProperties
    <2>2. Len(r) = Len(q) + 1 /\ r[Len(r)] = s /\ \A i \in 1..Len(q) : r[i] = q[i]
      BY <1>1, <1>3, <2>1
    <2> QED
      BY <2>1, <2>2
  <1>5. PICK tries \in Nat : tries = op[t].tries
    BY <1>0, ConstantFacts DEF Op
  <1>6. PICK most \in Nat : most = Attempts(t) /\ most = Attempts(t)' /\ tries < most
    <2>1. op[t].provider # 0 /\ tries < Attempts(t)
      BY <1>5 DEF OpFacts, Binding, Sending
    <2> QED
      BY <2>1, AttemptsType, KeepAttempts, ConstantFacts DEF SameHolding
  <1>7. /\ s.key = op[t].key /\ s.revision = op[t].revision /\ s.try = tries + 1
        /\ s.call = IF pc[t] = "send" THEN 1 ELSE 2
    BY <1>2, <1>5 DEF Request
  <1>8. s.try <= most /\ (s.key # None => s.revision >= op'[t].floor[s.key])
    BY <1>5, <1>6, <1>7 DEF OpFacts, Holding, SameHolding
  <1>9. q = <<>> => s.call = 1 /\ s.try = 1
    <2>1. q = <<>> => pc[t] = "send" /\ tries = 0
      BY <1>1, <1>5 DEF OpFacts, Sending, Tried, Carries
    <2> QED
      BY <1>7, <2>1
  <1>10. q # <<>> => Follows(q[Len(q)], s)
    <2>1. PICK before : before = Latest(t) /\ before = q[Len(q)]
      BY <1>1 DEF Latest
    <2>2. CASE pc[t] = "send" /\ q # <<>>
      <3>1. Tried(t, 1)
        BY <1>1, <2>2 DEF OpFacts, Sending
      <3> QED
        BY <1>5, <1>7, <2>1, <2>2, <3>1 DEF Tried, Carries, Follows
    <2>3. CASE pc[t] = "resend" /\ tries # 0
      <3>1. Tried(t, 2)
        BY <1>5, <2>3 DEF OpFacts, Sending
      <3> QED
        BY <1>5, <1>7, <2>1, <2>3, <3>1 DEF Tried, Carries, Follows
    <2>4. CASE pc[t] = "resend" /\ tries = 0
      BY <1>5, <1>7, <2>1, <2>4 DEF OpFacts, Sending, Holding, Follows
    <2> QED
      BY <2>1, <2>2, <2>3, <2>4
  <1>11. Carried(t)
    BY DEF OpFacts
  <1>12. ASSUME NEW i \in 1..Len(r)
         PROVE  /\ r[i].try <= most
                /\ i = 1 => r[i].call = 1 /\ r[i].try = 1
                /\ i > 1 => Follows(r[i - 1], r[i])
                /\ r[i].key # None => r[i].revision >= op'[t].floor[r[i].key]
    <2>1. CASE i <= Len(q)
      <3>1. i \in 1..Len(q) /\ r[i] = q[i] /\ (i > 1 => i - 1 \in 1..Len(q) /\ r[i - 1] = q[i - 1])
        BY <1>4, <2>1
      <3>2. /\ q[i].try <= most
            /\ i = 1 => q[i].call = 1 /\ q[i].try = 1
            /\ i > 1 => Follows(q[i - 1], q[i])
            /\ q[i].key # None => q[i].revision >= op[t].floor[q[i].key]
        BY <1>1, <1>4, <1>6, <1>11, <3>1 DEF Carried
      <3>3. op'[t].floor = op[t].floor
        BY DEF SameHolding
      <3> QED
        BY <3>1, <3>2, <3>3
    <2>2. CASE i = Len(q) + 1
      <3>1. r[i] = s
        BY <1>4, <2>2
      <3>2. i = 1 => q = <<>>
        BY <1>1, <1>4, <2>2, EmptySeq
      <3>3. i > 1 => q # <<>> /\ i - 1 = Len(q) /\ r[i - 1] = q[Len(q)]
        BY <1>4, <2>2
      <3> QED
        BY <1>8, <1>9, <1>10, <3>1, <3>2, <3>3
    <2> QED
      BY <1>4, <2>1, <2>2
  <1> QED
    BY <1>3, <1>4, <1>6, <1>12 DEF Carried

\* Wherever the operation goes after a request, the request is its latest.
LEMMA AddedSending ==
  ASSUME TypeOK, TypeOK', Ahead, NEW t \in Thread, OpFacts(t), pc[t] \in {"send", "resend"},
         SameBinding(op[t], op'[t]), SameHolding(op[t], op'[t]), op'[t].result \in Results,
         Added(t, op'[t])
  PROVE  Sending(t)'
  <1>0. op[t] \in Op /\ op'[t] \in Op
    BY DEF TypeOK
  <1>1. PICK q \in Seq(Sent) : q = op[t].sent
    BY <1>0 DEF Op
  <1>2. PICK s : s = Request(t, op'[t].result)
    OBVIOUS
  <1>3. PICK r \in Seq(Sent) : r = op'[t].sent /\ r = Append(q, s)
    BY <1>0, <1>1, <1>2 DEF Op, Added
  <1>4. r # <<>> /\ r[Len(r)] = s
    BY <1>1, <1>3
  <1>5. Latest(t)' = s /\ op'[t].sent # <<>>
    BY <1>3, <1>4 DEF Latest
  <1>6. PICK tries \in Nat : tries = op[t].tries
    BY <1>0, ConstantFacts DEF Op
  <1>7. /\ s.key = op'[t].key /\ s.revision = op'[t].revision /\ s.try = tries + 1
        /\ s.call = (IF pc[t] = "send" THEN 1 ELSE 2) /\ s.result = op'[t].result
    BY <1>2, <1>6 DEF Request, SameHolding
  <1>8. Carries(t)'
    BY <1>5, <1>7 DEF Carries
  <1>9. op'[t].tries = tries + 1 /\ tries + 1 # 0 /\ Attempts(t)' = Attempts(t)
    BY <1>6, KeepAttempts DEF Added, SameHolding
  <1>10. CASE pc'[t] = pc[t] /\ op'[t].result \in Failed /\ op'[t].tries < Attempts(t)
    BY <1>5, <1>7, <1>8, <1>9, <1>10 DEF Sending, Tried, Unsent
  <1>11. CASE pc'[t] = "refresh" /\ pc[t] = "send" /\ op'[t].result = "unauthorized"
    BY <1>5, <1>7, <1>8, <1>11 DEF Sending, Unsent
  <1>12. CASE pc'[t] = "observe"
    BY <1>5, <1>7, <1>8, <1>12 DEF Sending, Unsent
  <1> QED
    BY <1>10, <1>11, <1>12 DEF Added

\* A request keeps the invariant, and so does a call that sends nothing more.
LEMMA SendStep == ASSUME IInv, NEW t \in Thread, Send(t) PROVE IInv'
  <1>0. TypeOK /\ Dates /\ OpFacts(t) /\ op[t] \in Op /\ pc[t] \in {"send", "resend"}
    BY DEF IInv, TypeOK, Send
  <1>1. PICK n \in Op :
           /\ Set(t, n)
           /\ SameBinding(op[t], n) /\ SameHolding(op[t], n) /\ SameServed(op[t], n)
           /\ n.evidence = op[t].evidence /\ n.result \in Results
           /\ Kept(t, n) \/ Added(t, n)
           /\ pc' \in [Thread -> Labels] /\ \A u \in Thread : u # t => pc'[u] = pc[u]
           /\ circuit' \in [policy : Generation, open : BOOLEAN]
           /\ circuit'.policy = circuit.policy
    BY SendLocals
  <1>2. /\ op'[t] = n /\ op' \in [Thread -> Op] /\ ended' \in [Thread -> BOOLEAN]
        /\ \A u \in Thread : u # t => op'[u] = op[u] /\ pc'[u] = pc[u] /\ ended'[u] = ended[u]
    BY <1>0, <1>1, SetOp, SetType, AsksType DEF Send
  <1>3. UNCHANGED <<product, rt, health, catalog>>
    BY DEF Send
  <1>4. TypeOK'
    BY <1>0, <1>1, <1>2, <1>3 DEF TypeOK, product, catalog
  <1>5. Ahead /\ Dates' /\ PolicyInEffect' /\ Stored'
    BY <1>1, <1>3, QuietShared DEF catalog
  <1>6. pc'[t] \in {pc[t], "refresh", "observe"}
        /\ (pc'[t] = "refresh" => op[t].key \in Key \ ApiKeys)
    BY <1>0, <1>1 DEF Kept, Added
  <1>7. Binding(t)' /\ Served(t)'
    BY <1>0, <1>1, <1>2, <1>4, <1>5, <1>6, KeepBinding, KeepServed DEF OpFacts
  <1>8. Holding(t)'
    BY <1>0, <1>1, <1>2, <1>4, <1>5, <1>6, KeepHolding DEF OpFacts, Holding
  <1>9. Observed(t)'
    BY <1>0, <1>1, <1>2, <1>6 DEF OpFacts, Observed
  <1>10. CASE Kept(t, n)
    <2>1. Carried(t)'
      BY <1>0, <1>1, <1>2, <1>5, <1>10, KeepCarried DEF OpFacts, SameHolding, Kept
    <2>2. Sending(t)'
      BY <1>1, <1>2, <1>10 DEF Sending, Unsent, Kept
    <2> QED
      BY <1>2, <1>4, <1>5, <1>7, <1>8, <1>9, <2>1, <2>2, OwnStep DEF OpFacts
  <1>11. CASE Added(t, n)
    <2>1. Carried(t)'
      BY <1>0, <1>1, <1>2, <1>4, <1>5, <1>11, AddedCarried DEF Added
    <2>2. Sending(t)'
      BY <1>0, <1>1, <1>2, <1>4, <1>5, <1>11, AddedSending
    <2> QED
      BY <1>2, <1>4, <1>5, <1>7, <1>8, <1>9, <2>1, <2>2, OwnStep DEF OpFacts
  <1> QED
    BY <1>1, <1>10, <1>11

\* refreshed keeps the invariant: the 401 stands, or the replay carries another
\* revision than the one that was rejected.
LEMMA RefreshStep == ASSUME IInv, NEW t \in Thread, Refresh(t) PROVE IInv'
  <1>0. TypeOK /\ Dates /\ OpFacts(t) /\ op[t] \in Op /\ pc[t] = "refresh"
    BY DEF IInv, TypeOK, Refresh, Step
  <1>1. CASE Step(t, "refresh", "observe") /\ op' = op /\ record' = record
    <2>1. Set(t, op[t])
      BY <1>0, <1>1 DEF Set, TypeOK
    <2>2. /\ TypeOK' /\ Ahead /\ Dates' /\ PolicyInEffect' /\ Stored'
          /\ pc'[t] = "observe" /\ op'[t] = op[t]
          /\ \A u \in Thread : u # t => op'[u] = op[u] /\ pc'[u] = pc[u] /\ ended'[u] = ended[u]
      BY <1>0, <1>1, <2>1, QuietMoves DEF Refresh, Labels, product
    <2>3. SameBinding(op[t], op'[t]) /\ SameHolding(op[t], op'[t]) /\ SameServed(op[t], op'[t])
      BY <2>2 DEF SameBinding, SameHolding, SameServed
    <2>4. Binding(t)' /\ Holding(t)' /\ Carried(t)' /\ Served(t)'
      BY <1>0, <2>2, <2>3, KeepBinding, KeepHolding, KeepCarried, KeepServed DEF OpFacts
    <2>5. Sending(t)' /\ Observed(t)'
      <3>1. /\ op[t].evidence = <<>> /\ op[t].result \in Results /\ Carries(t)
            /\ Latest(t).result = op[t].result
        BY <1>0 DEF OpFacts, Sending, Observed
      <3> QED
        BY <2>2, <3>1 DEF Sending, Observed, Carries, Latest, Unsent
    <2> QED
      BY <2>2, <2>4, <2>5, OwnStep DEF OpFacts
  <1>2. CASE Step(t, "refresh", "resend")
    <2>1. PICK key \in Key : key = op[t].key /\ key \notin ApiKeys
      BY <1>0 DEF OpFacts, Holding
    <2>2. pc'[t] = "resend"
      BY <1>0, <1>2, StepMoves DEF Labels
    <2>3. /\ IF record[key] # op[t].revision THEN record' = record
             ELSE record[key] < MaxRevision /\ record' = [record EXCEPT ![key] = @ + 1]
          /\ Set(t, [op[t] EXCEPT !.revision = record'[key], !.read = hard[key], !.tries = 0])
          /\ UNCHANGED <<settings, updatedAt, policies, table, revoked, now, begun, rt, circuit, health,
                         catalog, ended>>
      BY <1>0, <2>1, <2>2, StepMoves DEF Refresh, Labels
    <2>4. /\ record' \in [Key -> Revision] /\ \A k \in Key : record'[k] >= record[k]
          /\ record'[key] \in {record[key], record[key] + 1} /\ record'[key] \in Revision
      BY <1>0, <2>3, Renewal
    <2>5. PICK loaded \in Revision : loaded = record'[key]
      BY <2>4
    <2>6. loaded # op[t].revision
      <3>1. record[key] \in Nat
        BY <1>0, ConstantFacts DEF TypeOK, Revision
      <3> QED
        BY <1>0, <2>3, <2>5, <3>1 DEF TypeOK
    <2>7. PICK counted \in Nat, tries \in 0..MaxTries : counted = hard[key] /\ tries = 0
      BY <1>0, ConstantFacts DEF TypeOK
    <2>8. PICK n : /\ n = [op[t] EXCEPT !.revision = loaded, !.read = counted, !.tries = tries]
                   /\ n \in Op /\ SameBinding(op[t], n) /\ SameServed(op[t], n)
                   /\ n.kind = op[t].kind /\ n.result = op[t].result /\ n.sent = op[t].sent
                   /\ n.floor = op[t].floor /\ n.key = op[t].key /\ n.evidence = op[t].evidence
                   /\ n.revision = loaded /\ n.read = counted /\ n.tries = tries
      <3>1. PICK n : n = [op[t] EXCEPT !.revision = loaded, !.read = counted, !.tries = tries]
        OBVIOUS
      <3>2. /\ n \in Op
            /\ SameBinding(op[t], n) /\ n.kind = op[t].kind /\ n.floor = op[t].floor
            /\ n.key = op[t].key /\ n.result = op[t].result /\ n.sent = op[t].sent
            /\ SameServed(op[t], n)
            /\ n.evidence = op[t].evidence /\ n.revision = loaded /\ n.read = counted
            /\ n.tries = tries
        <4>1. PICK o \in Op : o = op[t]
          BY <1>0
        <4>2. n = [o EXCEPT !.revision = loaded, !.read = counted, !.tries = tries]
          BY <3>1, <4>1, Zenon
        <4>3. /\ n \in Op /\ SameBinding(o, n) /\ n.kind = o.kind /\ n.floor = o.floor
              /\ n.key = o.key /\ n.result = o.result /\ n.sent = o.sent /\ SameServed(o, n)
              /\ n.evidence = o.evidence /\ n.revision = loaded /\ n.read = counted
              /\ n.tries = tries
          BY <4>2 DEF Op, SameBinding, SameServed
        <4> QED
          BY <4>1, <4>3
      <3> QED
        BY <3>1, <3>2, Zenon
    <2>9. Set(t, n)
      BY <2>3, <2>5, <2>7, <2>8
    <2>10. /\ TypeOK' /\ Ahead /\ Dates' /\ PolicyInEffect' /\ Stored' /\ op'[t] = n
          /\ \A u \in Thread : u # t => op'[u] = op[u] /\ pc'[u] = pc[u] /\ ended'[u] = ended[u]
      BY <1>2, <2>3, <2>4, <2>8, <2>9, RenewingMoves DEF Labels
    <2>11. Binding(t)' /\ Carried(t)' /\ Served(t)'
      BY <1>0, <2>2, <2>8, <2>10, KeepBinding, KeepCarried, KeepServed DEF OpFacts
    <2>12. Holding(t)'
      <3>1. hard' = hard /\ revoked' = revoked
        BY <2>3 DEF catalog
      <3>2. /\ op'[t].key = key /\ op'[t].floor = op[t].floor /\ op'[t].revision = record'[key]
            /\ op'[t].read = hard[key]
        BY <2>1, <2>5, <2>7, <2>8, <2>10
      <3> QED
        BY <2>1, <2>2, <2>4, <3>1, <3>2, LoadedHolding
    <2>13. Sending(t)' /\ Observed(t)'
      <3>1. /\ op[t].sent # <<>> /\ Latest(t).call = 1 /\ Latest(t).result = "unauthorized"
            /\ Latest(t).key = op[t].key /\ Latest(t).revision = op[t].revision
            /\ op[t].evidence = <<>> /\ op[t].provider # 0
        BY <1>0 DEF OpFacts, Binding, Sending, Observed, Carries
      <3>2. 0 < Attempts(t)'
        <4>1. Attempts(t) \in 1..MaxTries
          BY <1>0, <3>1, AttemptsType
        <4>2. Attempts(t)' = Attempts(t)
          BY <2>8, <2>10, KeepAttempts
        <4> QED
          BY <4>1, <4>2, ConstantFacts
      <3>3. op'[t].tries = 0 /\ op'[t].revision # op[t].revision /\ op'[t].key = op[t].key
            /\ op'[t].sent = op[t].sent /\ op'[t].evidence = <<>>
        BY <2>6, <2>7, <2>8, <2>10, <3>1
      <3>4. Latest(t)' = Latest(t)
        BY <3>3 DEF Latest
      <3>5. Sending(t)'
        BY <2>2, <3>1, <3>2, <3>3, <3>4 DEF Sending, Unsent
      <3>6. Observed(t)'
        BY <2>2, <3>3 DEF Observed
      <3> QED
        BY <3>5, <3>6
    <2> QED
      BY <2>10, <2>11, <2>12, <2>13, OwnStep DEF OpFacts
  <1> QED
    BY <1>1, <1>2 DEF Refresh, product

\* observe keeps the invariant: one evidence about the last request, unless the
\* caller no longer waits.
LEMMA ObserveStep == ASSUME IInv, NEW t \in Thread, Observe(t) PROVE IInv'
  <1>0. TypeOK /\ Dates /\ OpFacts(t) /\ op[t] \in Op /\ pc[t] = "observe"
    BY DEF IInv, TypeOK, Observe, Step
  <1>1. PICK to \in {"save", "idle"} : Step(t, "observe", to)
    BY DEF Observe
  <1>2. PICK x : x = [key |-> op[t].key, revision |-> op[t].revision, result |-> op[t].result]
    OBVIOUS
  <1>3. op[t].result \in Results \cup Failures
    BY <1>0 DEF OpFacts, Sending
  <1>4. op[t].evidence = <<>>
    BY <1>0 DEF OpFacts, Observed
  <1>5. UNCHANGED <<product, rt, circuit, catalog>> /\ Asks(t)
    BY DEF Observe
  <1>6. PICK n \in Op :
          /\ Set(t, n) /\ SameBinding(op[t], n) /\ SameHolding(op[t], n) /\ SameRequests(op[t], n)
          /\ SameServed(op[t], n)
          /\ \/ ended'[t] /\ n.evidence = <<>>
             \/ ~ended'[t] /\ n.evidence = <<x>>
          /\ health' \in {"healthy", "failing", None}
    <2>1. CASE ended'[t] /\ UNCHANGED <<health, op>>
      <3>1. Set(t, op[t]) /\ health' \in {"healthy", "failing", None}
        BY <1>0, <2>1 DEF Set, TypeOK
      <3>2. SameBinding(op[t], op[t]) /\ SameHolding(op[t], op[t]) /\ SameRequests(op[t], op[t])
            /\ SameServed(op[t], op[t])
        BY DEF SameBinding, SameHolding, SameRequests, SameServed
      <3> QED
        BY <1>0, <1>4, <2>1, <3>1, <3>2
    <2>2. CASE /\ ~ended'[t]
               /\ Set(t, [op[t] EXCEPT !.evidence = Append(@,
                     [key |-> op[t].key, revision |-> op[t].revision, result |-> op[t].result])])
               /\ health' \in {"healthy", "failing", None}
      <3>1. Append(op[t].evidence, x) = <<x>>
        BY <1>4
      <3>2. PICK q : q = <<x>>
        OBVIOUS
      <3>3. PICK n : n = [op[t] EXCEPT !.evidence = q]
        OBVIOUS
      <3>4. q \in Seq(Evidence)
        <4>1. x \in Evidence
          BY <1>0, <1>2, <1>3 DEF Evidence, Op
        <4> QED
          BY <3>2, <4>1
      <3>5. /\ n \in Op /\ SameBinding(op[t], n) /\ SameHolding(op[t], n) /\ SameRequests(op[t], n)
            /\ SameServed(op[t], n) /\ n.evidence = q
        BY <1>0, <3>3, <3>4, EvidenceSet
      <3>6. Set(t, n)
        BY <1>0, <1>2, <2>2, <3>1, <3>2, <3>3 DEF Op
      <3> QED
        BY <2>2, <3>2, <3>5, <3>6
    <2>3. ~ended'[t] => health' \in {"healthy", "failing", None}
      BY <1>0 DEF Observe, TypeOK
    <2> QED
      BY <2>1, <2>2, <2>3 DEF Observe
  <1>7. /\ pc'[t] = to /\ op'[t] = n
        /\ pc' \in [Thread -> Labels] /\ op' \in [Thread -> Op] /\ ended' \in [Thread -> BOOLEAN]
        /\ \A u \in Thread : u # t => op'[u] = op[u] /\ pc'[u] = pc[u] /\ ended'[u] = ended[u]
    BY <1>0, <1>1, <1>5, <1>6, Moves DEF Labels
  <1>8. TypeOK'
    BY <1>0, <1>5, <1>6, <1>7 DEF TypeOK, product, catalog
  <1>9. Ahead /\ Dates' /\ PolicyInEffect' /\ Stored'
    BY <1>5, QuietShared DEF catalog
  <1>10. Binding(t)' /\ Holding(t)' /\ Carried(t)' /\ Served(t)'
    BY <1>0, <1>6, <1>7, <1>8, <1>9, KeepBinding, KeepHolding, KeepCarried, KeepServed
       DEF OpFacts, SameHolding, SameRequests
  <1>11. Sending(t)'
    BY <1>7 DEF Sending, Unsent
  <1>12. Observed(t)'
    <2>1. /\ Len(<<x>>) = 1 /\ <<x>>[1] = x /\ x.result = op[t].result
      BY <1>2
    <2>2. CASE ended'[t] /\ n.evidence = <<>>
      BY <1>7, <2>2 DEF Observed
    <2>3. CASE ~ended'[t] /\ n.evidence = <<x>>
      <3>1. ~ended[t]
        BY <1>0, <1>5, <2>3, AsksType
      <3>2. Latest(t)' = Latest(t)
        BY <1>6, <1>7 DEF Latest, SameRequests
      <3>3. x.result \in Results \ {"refused"} =>
              x = [key |-> Latest(t).key, revision |-> Latest(t).revision, result |-> Latest(t).result]
        BY <1>0, <1>2, <2>1, <3>1 DEF OpFacts, Sending, Carries
      <3>4. op'[t].evidence = <<x>>
        BY <1>7, <2>3
      <3> QED
        BY <1>7, <2>1, <3>2, <3>3, <3>4 DEF Observed
    <2> QED
      BY <1>6, <2>2, <2>3
  <1> QED
    BY <1>7, <1>8, <1>9, <1>10, <1>11, <1>12, OwnStep DEF OpFacts

\* ListModels reads when the settings last changed: what is stored since is settled
\* for the provider the operation was bound to, whatever was installed meanwhile.
LEMMA SinceStep == ASSUME IInv, NEW t \in Thread, Since(t) PROVE IInv'
  <1>0. TypeOK /\ Dates /\ OpFacts(t) /\ op[t] \in Op
    BY DEF IInv, TypeOK
  <1>1. PICK at \in 0..MaxTime : at = rt.changedAt
    BY <1>0 DEF TypeOK
  <1>2. PICK n : n = [op[t] EXCEPT !.notBefore = at]
    OBVIOUS
  <1>3. /\ n \in Op /\ SameBinding(op[t], n) /\ SameHolding(op[t], n) /\ SameRequests(op[t], n)
        /\ n.rows = op[t].rows /\ (n.fresh <=> op[t].fresh) /\ n.evidence = op[t].evidence
        /\ n.notBefore = at
    BY <1>0, <1>2, SinceSet
  <1>4. /\ TypeOK' /\ Ahead /\ Dates' /\ PolicyInEffect' /\ Stored'
        /\ pc[t] = "since" /\ pc'[t] = "lock" /\ op'[t] = n
        /\ \A u \in Thread : u # t => op'[u] = op[u] /\ pc'[u] = pc[u] /\ ended'[u] = ended[u]
    BY <1>1, <1>2, <1>3, QuietMoves DEF Since, Labels
  <1>5. Binding(t)' /\ Holding(t)' /\ Carried(t)'
    BY <1>0, <1>3, <1>4, KeepBinding, KeepHolding, KeepCarried
       DEF OpFacts, Holding, SameHolding, SameRequests
  <1>6. Sending(t)' /\ Observed(t)'
    BY <1>0, <1>3, <1>4, Unstarted DEF Unsent, SameRequests, SameHolding
  <1>7. Served(t)'
    <2>1. rt' = rt /\ store' = store /\ updatedAt' = updatedAt
      BY DEF Since, product, catalog
    <2>2. /\ op'[t].provider = op[t].provider /\ op[t].provider # 0 /\ op'[t].key = op[t].key
          /\ op'[t].notBefore = rt.changedAt
      BY <1>0, <1>1, <1>3, <1>4 DEF OpFacts, Binding, SameBinding, SameHolding
    <2> QED
      BY <1>0, <1>3, <1>4, <2>1, <2>2 DEF OpFacts, Served, Settled
  <1> QED
    BY <1>4, <1>5, <1>6, <1>7, OwnStep DEF OpFacts

\* What an operation is answered with unasked, or plans by, is whatever is stored;
\* nothing else it knows changes.
LEMMA RowsStep ==
  ASSUME IInv, NEW t \in Thread, NEW to \in {"idle", "send"}, pc[t] \in {"cached", "plan"},
         to = "send" => pc[t] = "plan",
         Step(t, pc[t], to), Set(t, [op[t] EXCEPT !.rows = store[CatalogKey(t)]]),
         UNCHANGED <<product, rt, circuit, health, catalog, ended>>
  PROVE  IInv'
  <1>0. TypeOK /\ Dates /\ Stored /\ OpFacts(t) /\ op[t] \in Op
    BY DEF IInv, TypeOK
  <1>1. op[t].key \in Slot /\ CatalogKey(t) = op[t].key
    BY <1>0 DEF Op, CatalogKey
  <1>2. PICK rows \in Rows \cup {None} : rows = store[op[t].key]
    BY <1>0, <1>1 DEF TypeOK
  <1>3. PICK n : n = [op[t] EXCEPT !.rows = rows]
    OBVIOUS
  <1>4. /\ n \in Op /\ SameBinding(op[t], n) /\ SameHolding(op[t], n) /\ SameRequests(op[t], n)
        /\ n.notBefore = op[t].notBefore /\ (n.fresh <=> op[t].fresh)
        /\ n.evidence = op[t].evidence /\ n.rows = rows
    BY <1>0, <1>3, RowsSet
  <1>5. /\ TypeOK' /\ Ahead /\ Dates' /\ PolicyInEffect' /\ Stored' /\ pc'[t] = to /\ op'[t] = n
        /\ \A u \in Thread : u # t => op'[u] = op[u] /\ pc'[u] = pc[u] /\ ended'[u] = ended[u]
    <2>1. Set(t, n) /\ to \in Labels
      BY <1>1, <1>2, <1>3 DEF Labels
    <2> QED
      BY <1>4, <2>1, QuietMoves
  <1>6. Binding(t)' /\ Holding(t)' /\ Carried(t)'
    BY <1>0, <1>4, <1>5, KeepBinding, KeepHolding, KeepCarried
       DEF OpFacts, Holding, SameHolding, SameRequests
  <1>7. Sending(t)' /\ Observed(t)'
    <2>1. op[t].provider # 0
      BY <1>0 DEF OpFacts, Binding
    <2> QED
      BY <1>0, <1>4, <1>5, <2>1, Unstarted DEF Unsent, SameRequests, SameHolding
  <1>8. Served(t)'
    <2>1. rt' = rt /\ store' = store /\ updatedAt' = updatedAt
      BY DEF product, catalog
    <2>2. op'[t].provider = op[t].provider
      BY <1>4, <1>5 DEF SameBinding
    <2>3. ~op[t].fresh
      BY <1>0 DEF OpFacts, Served
    <2> QED
      BY <1>0, <1>4, <1>5, <2>1, <2>2, <2>3 DEF OpFacts, Served, Settled
  <1> QED
    BY <1>5, <1>6, <1>7, <1>8, OwnStep DEF OpFacts

\* CachedCatalog and TransportMode keep the invariant.
LEMMA CachedStep == ASSUME IInv, NEW t \in Thread, Cached(t) PROVE IInv'
  <1>1. pc[t] = "cached"
    BY DEF Cached, Step
  <1> QED
    BY <1>1, RowsStep DEF Cached

\* transparent's plan keeps the invariant.
LEMMA PlanStep == ASSUME IInv, NEW t \in Thread, Plan(t) PROVE IInv'
  <1>0. TypeOK /\ Dates /\ OpFacts(t) /\ op[t] \in Op /\ pc[t] = "plan"
    BY DEF IInv, TypeOK, Plan, Step
  <1>1. CASE Step(t, "plan", "send") /\ Set(t, [op[t] EXCEPT !.rows = store[CatalogKey(t)]])
    BY <1>0, <1>1, RowsStep DEF Plan
  <1>2. CASE Step(t, "plan", "idle") /\ Set(t, [op[t] EXCEPT !.result = "refusedPlan"])
    <2>1. PICK n : n = [op[t] EXCEPT !.result = "refusedPlan"]
      OBVIOUS
    <2>2. "refusedPlan" \in Results \cup Failures \cup {None}
      BY DEF Failures
    <2>3. /\ n \in Op /\ SameBinding(op[t], n) /\ SameHolding(op[t], n) /\ n.sent = op[t].sent
          /\ n.tries = op[t].tries /\ SameServed(op[t], n) /\ n.evidence = op[t].evidence
      BY <1>0, <2>1, <2>2, ResultSet
    <2>4. /\ TypeOK' /\ Ahead /\ Dates' /\ PolicyInEffect' /\ Stored' /\ pc'[t] = "idle" /\ op'[t] = n
          /\ \A u \in Thread : u # t => op'[u] = op[u] /\ pc'[u] = pc[u] /\ ended'[u] = ended[u]
      BY <1>2, <2>1, <2>3, QuietMoves DEF Plan, Labels
    <2>5. Binding(t)' /\ Holding(t)' /\ Carried(t)' /\ Served(t)'
      BY <1>0, <2>3, <2>4, KeepBinding, KeepHolding, KeepCarried, KeepServed DEF OpFacts, SameHolding
    <2>6. Sending(t)' /\ Observed(t)'
      BY <1>0, <2>3, <2>4, Unstarted DEF Unsent, SameHolding
    <2> QED
      BY <2>4, <2>5, <2>6, OwnStep DEF OpFacts
  <1> QED
    BY <1>1, <1>2 DEF Plan

\* Service.Read keeps the invariant: what it serves was listed by the operation's
\* own settings, or after they came into effect.
LEMMA ReadStep == ASSUME IInv, NEW t \in Thread, Read(t) PROVE IInv'
  <1>0. TypeOK /\ Dates /\ Stored /\ OpFacts(t) /\ op[t] \in Op /\ pc[t] = "lock"
    BY DEF IInv, TypeOK, Read, Step
  <1>1. op[t].key \in Slot /\ CatalogKey(t) = op[t].key
    BY <1>0 DEF Op, CatalogKey
  <1>2. /\ UNCHANGED <<product, rt, circuit, health, store, hard, ended>>
        /\ rt' = rt /\ store' = store /\ updatedAt' = updatedAt
    BY DEF Read, product
  <1>3. PICK rows \in Rows \cup {None} : rows = store[op[t].key]
    BY <1>0, <1>1 DEF TypeOK
  <1>4. Ahead /\ Dates' /\ PolicyInEffect' /\ Stored'
    BY <1>2, QuietShared
  <1>5. CASE /\ Fresh(rows, op[t].notBefore) /\ Step(t, "lock", "idle") /\ lock' = lock
             /\ Set(t, [op[t] EXCEPT !.rows = rows, !.fresh = TRUE])
    <2>1. PICK o \in Op : o = op[t]
      BY <1>0
    <2>2. PICK n : n = [o EXCEPT !.rows = rows, !.fresh = TRUE]
      OBVIOUS
    <2>3. /\ n \in Op /\ SameBinding(o, n) /\ SameHolding(o, n) /\ SameRequests(o, n)
          /\ n.evidence = o.evidence /\ n.rows = rows /\ n.fresh
      BY <2>2 DEF Op, SameBinding, SameHolding, SameRequests
    <2>4. Set(t, n)
      BY <1>5, <2>1, <2>2
    <2>5. /\ TypeOK' /\ pc'[t] = "idle" /\ op'[t] = n
          /\ \A u \in Thread : u # t => op'[u] = op[u] /\ pc'[u] = pc[u] /\ ended'[u] = ended[u]
      BY <1>2, <1>5, <2>3, <2>4, QuietMoves DEF catalog, Labels
    <2>6. Binding(t)' /\ Holding(t)' /\ Carried(t)'
      BY <1>0, <1>4, <2>1, <2>3, <2>5, KeepBinding, KeepHolding, KeepCarried
         DEF OpFacts, SameHolding, SameRequests
    <2>7. Sending(t)' /\ Observed(t)'
      BY <1>0, <1>4, <2>1, <2>3, <2>5, Unstarted DEF Unsent, SameRequests, SameHolding
    <2>8. Served(t)'
      <3>1. rows # None /\ rows.at >= op[t].notBefore /\ rows.began <= rows.generation
        BY <1>0, <1>1, <1>3, <1>5 DEF Fresh, Stored, Listed
      <3>2. op[t].provider # 0 /\ Settled(op[t].provider, op[t].notBefore)
        BY <1>0 DEF OpFacts, Binding, Served
      <3>3. rows.generation # op[t].provider => rows.at >= updatedAt[op[t].provider]
        BY <1>1, <1>3, <3>1, <3>2 DEF Settled
      <3>4. op'[t].provider = op[t].provider
        BY <2>1, <2>3, <2>5 DEF SameBinding
      <3> QED
        BY <1>0, <1>2, <2>3, <2>5, <3>1, <3>2, <3>3, <3>4 DEF OpFacts, Served, Settled
    <2> QED
      BY <1>4, <2>5, <2>6, <2>7, <2>8, OwnStep DEF OpFacts
  <1>6. CASE /\ Step(t, "lock", "send") /\ Set(t, [op[t] EXCEPT !.hard = hard[op[t].key]])
             /\ lock' = [lock EXCEPT ![op[t].key] = t]
    <2>1. PICK counted \in Nat : counted = hard[op[t].key]
      BY <1>0, <1>1 DEF TypeOK
    <2>2. PICK n : n = [op[t] EXCEPT !.hard = counted]
      OBVIOUS
    <2>3. /\ n \in Op /\ SameBinding(op[t], n) /\ SameHolding(op[t], n) /\ SameRequests(op[t], n)
          /\ SameServed(op[t], n) /\ n.evidence = op[t].evidence
      BY <1>0, <2>1, <2>2, HardSet
    <2>4. /\ pc'[t] = "send" /\ op'[t] = n
          /\ pc' \in [Thread -> Labels] /\ op' \in [Thread -> Op] /\ ended' \in [Thread -> BOOLEAN]
          /\ \A u \in Thread : u # t => op'[u] = op[u] /\ pc'[u] = pc[u] /\ ended'[u] = ended[u]
      BY <1>0, <1>2, <1>6, <2>1, <2>2, <2>3, Moves DEF Labels
    <2>5. lock' \in [Slot -> Thread \cup {None}]
      BY <1>0, <1>1, <1>6 DEF TypeOK
    <2>6. TypeOK'
      BY <1>0, <1>2, <2>4, <2>5 DEF TypeOK, product
    <2>7. Binding(t)' /\ Holding(t)' /\ Carried(t)' /\ Served(t)'
      BY <1>0, <1>4, <2>3, <2>4, <2>6, KeepBinding, KeepHolding, KeepCarried, KeepServed
         DEF OpFacts, Holding, SameHolding, SameRequests
    <2>8. Sending(t)' /\ Observed(t)'
      <3>1. op[t].provider # 0
        BY <1>0 DEF OpFacts, Binding
      <3> QED
        BY <1>0, <1>4, <2>3, <2>4, <3>1, Unstarted DEF Unsent, SameRequests, SameHolding
    <2> QED
      BY <1>4, <2>4, <2>6, <2>7, <2>8, OwnStep DEF OpFacts
  <1> QED
    BY <1>1, <1>3, <1>5, <1>6 DEF Read

\* What the end of a discovery stores is listed now, under settings no older than its
\* operation's beginning and after the last invalidation, so what is stored stays settled.
LEMMA SaveShared ==
  ASSUME IInv, NEW t \in Thread, Save(t)
  PROVE  /\ store' \in [Slot -> Rows \cup {None}]
         /\ \A s \in Slot : store'[s] # None => store'[s] = store[s] \/ store'[s].at >= now
         /\ Listed'
         /\ rt.started
  <1>0. TypeOK /\ Stored /\ OpFacts(t) /\ op[t] \in Op /\ pc[t] = "save"
    BY DEF IInv, TypeOK, Save, Step
  <1>1. op[t].key \in Slot /\ CatalogKey(t) = op[t].key /\ now \in 0..MaxTime /\ now \in Nat
    BY <1>0, ConstantFacts DEF Op, CatalogKey, TypeOK
  <1>2. rt.started
    BY <1>0 DEF OpFacts, Binding, Served
  <1>3. hard' = hard /\ record' = record /\ revoked' = revoked
    BY DEF Save, Unfenced, product
  <1>4. CASE store' = store
    BY <1>0, <1>2, <1>3, <1>4 DEF TypeOK, Stored, Listed, NoRowsOfReplacedCredential
  <1>5. CASE store' # store
    <2>1. PICK native \in BOOLEAN : store' = [store EXCEPT ![op[t].key] =
                        [generation |-> op[t].provider, revision |-> op[t].revision, at |-> now,
                         native |-> native, began |-> op[t].began, hard |-> op[t].hard,
                         read |-> op[t].read]]
      BY <1>1, <1>5 DEF Save, Unfenced
    <2>2. hard[op[t].key] = op[t].hard
      BY <1>1, <1>5 DEF Save, Unfenced
    <2>3. PICK rows : rows = [generation |-> op[t].provider, revision |-> op[t].revision, at |-> now,
                              native |-> native, began |-> op[t].began, hard |-> op[t].hard,
                              read |-> op[t].read]
      OBVIOUS
    <2>4. /\ rows \in Rows /\ rows.at >= now /\ rows.began = op[t].began
          /\ rows.generation = op[t].provider /\ rows.hard = op[t].hard /\ rows.read = op[t].read
          /\ rows.revision = op[t].revision
      BY <1>0, <1>1, <2>3 DEF Op, Rows
    <2>5. store' = [store EXCEPT ![op[t].key] = rows]
      BY <2>1, <2>3
    <2>6. store' \in [Slot -> Rows \cup {None}]
          /\ \A s \in Slot : store'[s] = IF s = op[t].key THEN rows ELSE store[s]
      BY <1>0, <1>1, <2>4, <2>5 DEF TypeOK
    <2>7. rows.began <= rows.generation
      <3>1. op[t].provider # 0 => op[t].provider >= op[t].began
        BY <1>0 DEF OpFacts, Binding
      <3>2. op[t].provider # 0 /\ op[t].provider \in Nat /\ op[t].began \in Nat
        BY <1>0, ConstantFacts DEF OpFacts, Binding, Op, Generation
      <3> QED
        BY <2>4, <3>1, <3>2
    <2>8. op[t].key \in Key => /\ rows.hard = hard[op[t].key]
                               /\ rows.read = hard[op[t].key] => rows.revision >= revoked[op[t].key]
      BY <1>0, <2>2, <2>4 DEF OpFacts, Holding
    <2>9. NoRowsOfReplacedCredential'
      <3>1. ASSUME NEW k \in Key, store'[k] # None
            PROVE  /\ store'[k].hard = hard[k]
                   /\ store'[k].read = hard[k] => store'[k].revision >= revoked[k]
        <4>1. k \in Slot
          BY ConstantFacts
        <4>2. CASE k = op[t].key
          BY <2>6, <2>8, <4>1, <4>2
        <4>3. CASE k # op[t].key
          BY <1>0, <2>6, <3>1, <4>1, <4>3 DEF Stored, Listed, NoRowsOfReplacedCredential
        <4> QED
          BY <4>2, <4>3
      <3> QED
        BY <1>3, <3>1 DEF NoRowsOfReplacedCredential
    <2>10. Listed'
      BY <1>0, <1>3, <2>6, <2>7, <2>9 DEF Stored, Listed
    <2> QED
      BY <1>0, <1>2, <2>4, <2>6, <2>10
  <1> QED
    BY <1>4, <1>5

\* The end of a discovery keeps the invariant: whatever it stores was listed now.
LEMMA SaveStep == ASSUME IInv, NEW t \in Thread, Save(t) PROVE IInv'
  <1>0. TypeOK /\ Dates /\ Stored /\ OpFacts(t) /\ op[t] \in Op /\ pc[t] = "save"
    BY DEF IInv, TypeOK, Save, Step
  <1>1. op[t].key \in Slot /\ CatalogKey(t) = op[t].key
    BY <1>0 DEF Op, CatalogKey
  <1>2. /\ store' \in [Slot -> Rows \cup {None}]
        /\ \A s \in Slot : store'[s] # None => store'[s] = store[s] \/ store'[s].at >= now
        /\ Listed' /\ rt.started
    BY SaveShared
  <1>3. /\ UNCHANGED <<product, rt, circuit, health, hard, ended>>
        /\ settings' = settings /\ updatedAt' = updatedAt /\ record' = record /\ now' = now
        /\ policies' = policies /\ revoked' = revoked
        /\ lock' = [lock EXCEPT ![op[t].key] = None] /\ Step(t, "save", "idle")
    BY <1>1 DEF Save, Unfenced, product
  <1>4. PICK n \in Op :
          /\ Set(t, n) /\ SameBinding(op[t], n) /\ SameHolding(op[t], n) /\ n.sent = op[t].sent
          /\ n.evidence = op[t].evidence /\ (n.fresh <=> op[t].fresh)
    <2>1. PICK rows, result :
            /\ Set(t, [op[t] EXCEPT !.rows = rows, !.result = result])
            /\ rows \in {None, store'[op[t].key]}
            /\ result \in {"changed", op[t].result}
      <3>1. PICK rows : rows = IF op[t].result = "ok" /\ hard[op[t].key] = op[t].hard
                               THEN store'[op[t].key] ELSE None
        OBVIOUS
      <3>2. PICK result : result = IF op[t].result = "ok" /\ ~(hard[op[t].key] = op[t].hard)
                                   THEN "changed" ELSE op[t].result
        OBVIOUS
      <3>3. Set(t, [op[t] EXCEPT !.rows = rows, !.result = result])
        BY <1>0, <1>1, <3>1, <3>2 DEF Save, Unfenced, Op
      <3> QED
        BY <3>1, <3>2, <3>3
    <2>2. rows \in Rows \cup {None} /\ result \in Results \cup Failures \cup {None}
      BY <1>0, <1>1, <1>2, <2>1 DEF Failures, Op
    <2>3. PICK o \in Op : o = op[t]
      BY <1>0
    <2>4. PICK n : n = [o EXCEPT !.rows = rows, !.result = result]
      OBVIOUS
    <2>5. /\ n \in Op /\ SameBinding(o, n) /\ SameHolding(o, n) /\ n.sent = o.sent
          /\ n.evidence = o.evidence /\ (n.fresh <=> o.fresh) /\ n.rows = rows
      BY <2>2, <2>4 DEF Op, SameBinding, SameHolding
    <2>6. Set(t, n)
      BY <2>1, <2>3, <2>4
    <2> QED
      BY <2>1, <2>3, <2>5, <2>6
  <1>5. /\ pc'[t] = "idle" /\ op'[t] = n
        /\ pc' \in [Thread -> Labels] /\ op' \in [Thread -> Op] /\ ended' \in [Thread -> BOOLEAN]
        /\ \A u \in Thread : u # t => op'[u] = op[u] /\ pc'[u] = pc[u] /\ ended'[u] = ended[u]
    BY <1>0, <1>3, <1>4, Moves DEF Labels
  <1>6. lock' \in [Slot -> Thread \cup {None}]
    BY <1>0, <1>1, <1>3 DEF TypeOK
  <1>7. TypeOK'
    BY <1>0, <1>2, <1>3, <1>5, <1>6 DEF TypeOK, product
  <1>8. /\ settings \in Nat /\ now \in Nat /\ rt.changedAt \in Nat
        /\ \A k \in Key : record[k] \in Nat /\ hard[k] \in Nat
    BY <1>0, ConstantFacts DEF TypeOK, Generation, Revision
  <1>9. Ahead
    BY <1>2, <1>3, <1>8 DEF Ahead
  <1>10. Dates' /\ PolicyInEffect'
    BY <1>3 DEF IInv, Dates, PolicyInEffect
  <1>11. Stored'
    <2>1. rt.generation \in Generation \ {0} /\ rt.generation <= settings
          /\ Settled(rt.generation, rt.changedAt)
      BY <1>0, <1>2 DEF TypeOK, Dates, Stored
    <2>2. PICK g, since : g = rt.generation /\ since = rt.changedAt
      OBVIOUS
    <2>3. \A s \in Slot : store'[s] # None /\ store'[s].generation # g /\ store'[s].at >= since
            => store'[s].at >= updatedAt'[g]
      BY <1>0, <1>7, <1>8, <1>9, <2>1, <2>2, SettledAhead
    <2> QED
      BY <1>2, <1>3, <2>2, <2>3 DEF Stored, Settled
  <1>12. Binding(t)' /\ Holding(t)' /\ Carried(t)'
    BY <1>0, <1>4, <1>5, <1>7, <1>9, KeepBinding, KeepHolding, KeepCarried DEF OpFacts, SameHolding
  <1>13. Sending(t)' /\ Observed(t)'
    <2>1. ended'[t] = ended[t]
      BY <1>3
    <2>2. op'[t].sent = op[t].sent /\ op'[t].evidence = op[t].evidence
      BY <1>4, <1>5
    <2>3. Observed(t)'
      BY <1>0, <1>5, <2>1, <2>2 DEF OpFacts, Observed, Latest
    <2> QED
      BY <1>5, <2>3 DEF Sending, Unsent
  <1>14. Served(t)'
    <2>1. PICK g, since : g = op[t].provider /\ since = rt.changedAt
      OBVIOUS
    <2>2. g \in Generation \ {0} /\ g <= settings /\ Settled(g, since)
      BY <1>0, <2>1 DEF OpFacts, Binding, Served, Op
    <2>3. \A s \in Slot : store'[s] # None /\ store'[s].generation # g /\ store'[s].at >= since
            => store'[s].at >= updatedAt'[g]
      BY <1>0, <1>7, <1>8, <1>9, <2>1, <2>2, SettledAhead
    <2>4. op'[t].provider = g /\ ~op'[t].fresh /\ rt' = rt
      BY <1>0, <1>3, <1>4, <1>5, <2>1 DEF OpFacts, Served, SameBinding
    <2> QED
      BY <1>2, <1>5, <2>1, <2>3, <2>4 DEF Served, Settled
  <1> QED
    BY <1>5, <1>7, <1>9, <1>10, <1>11, <1>12, <1>13, <1>14, OwnStep DEF OpFacts

(***************************************************************************)
(* The theorems.                                                           *)
(***************************************************************************)

\* The invariant holds to begin with.
LEMMA InitIInv == Init => IInv
  <1> SUFFICES ASSUME Init PROVE IInv
    OBVIOUS
  <1>1. TypeOK
    BY InitTypeOK
  <1>2. Dates /\ PolicyInEffect /\ Stored
    <2>1. /\ \A s \in Slot : store[s] = None
          /\ \A k \in Key : record[k] = 1 /\ revoked[k] = 0
      BY DEF Init
    <2>2. Listed
      BY <2>1, ConstantFacts DEF Listed, NoRowsOfReplacedCredential
    <2> QED
      BY <2>2 DEF Init, Dates, PolicyInEffect, Stored, Settled
  <1>3. ASSUME NEW t \in Thread PROVE OpFacts(t)
    <2>1. PICK kind, caller : op[t] = NewOp(kind, caller)
      BY <1>3 DEF Init
    <2>2. pc[t] = "idle" /\ settings = 1 /\ \A k \in Key : record[k] = 1
      BY <1>3 DEF Init
    <2>3. /\ op[t].began = settings /\ op[t].provider = 0 /\ op[t].floor = record
          /\ op[t].sent = <<>> /\ op[t].evidence = <<>> /\ op[t].rows = None /\ ~op[t].fresh
          /\ op[t].key = None
      BY <2>1 DEF NewOp
    <2>4. Binding(t) /\ Holding(t)
      BY <2>2, <2>3, ConstantFacts DEF Binding, Holding
    <2>5. Sending(t) /\ Carried(t) /\ Observed(t) /\ Served(t)
      BY <2>2, <2>3 DEF Sending, Carried, Observed, Served, Unsent
    <2> QED
      BY <2>4, <2>5 DEF OpFacts
  <1> QED
    BY <1>1, <1>2, <1>3 DEF IInv

\* Every step keeps it.
LEMMA NextIInv == IInv /\ [Next]_vars => IInv'
  <1> SUFFICES ASSUME IInv, [Next]_vars PROVE IInv'
    OBVIOUS
  <1>1. ASSUME NEW t \in Thread, Operation(t) PROVE IInv'
    BY <1>1, SnapshotStep, BoundStep, ResolveStep, TokenStep, SendStep, RefreshStep, ObserveStep,
       SinceStep, ReadStep, SaveStep, CachedStep, PlanStep DEF Operation
  <1>2. ASSUME NEW t \in Thread, NEW kind \in Kinds, NEW caller \in Caller, Begin(t, kind, caller)
        PROVE  IInv'
    BY <1>2, BeginStep
  <1>3. CASE UNCHANGED vars
    <2>1. UNCHANGED <<settings, updatedAt, policies, rt, circuit, health, table, record, revoked,
                      store, hard, lock, now, pc, op, ended, begun, changes>>
      BY <1>3 DEF vars
    <2>2. TypeOK'
      BY <2>1 DEF IInv, TypeOK
    <2>3. Ahead /\ Dates' /\ PolicyInEffect' /\ Stored'
      BY <2>1, QuietShared DEF product
    <2> QED
      BY <2>1, <2>2, <2>3, ProductStep
  <1> QED
    BY <1>1, <1>2, <1>3, UpdateStep, TickStep, ChangeStep DEF Next

\* So it always holds.
LEMMA IInvAlways == Spec => []IInv
  BY InitIInv, NextIInv, PTL DEF Spec

\* However snapshots are taken and installed out of order, an operation runs with a
\* provider and a coordinator of one settings generation, no older than when it began;
\* the policy in effect is that of the provider the next operation would be bound to,
\* and an operation is judged by its provider's policy or one that was put in effect
\* after it was bound, never by one left from before (Runtime.bind, circuits.guard).
THEOREM SettingsAreInEffect == Spec => []SettingsInEffect
  <1>1. IInv => SettingsInEffect
    <2> SUFFICES ASSUME IInv PROVE SettingsInEffect
      OBVIOUS
    <2>1. BindingCurrent /\ PolicyOfOperation
      BY DEF IInv, OpFacts, Binding, BindingCurrent, PolicyOfOperation
    <2> QED
      BY <2>1 DEF IInv, SettingsInEffect
  <1> QED
    BY <1>1, IInvAlways, PTL

\* No ListModels is answered from rows observed before its settings came into effect,
\* except its provider's own; rows that older settings listed are of an operation that
\* began under older settings and was observed at the change or later.  And what is
\* stored was discovered after the last hard invalidation, with a credential no older
\* than it was then if it was read after it (Runtime.changedAt, catalog.Service.save).
THEOREM RowsAreCurrent == Spec => []RowsCurrent
  <1>1. IInv => RowsCurrent
    <2> SUFFICES ASSUME IInv PROVE RowsCurrent
      OBVIOUS
    <2>1. NoRowsOfReplacedCredential
      BY DEF IInv, Stored, Listed
    <2>2. ASSUME NEW t \in Thread, op[t].fresh, op[t].rows.generation # op[t].provider
          PROVE  /\ op[t].rows.at >= updatedAt[op[t].provider]
                 /\ op[t].rows.generation < op[t].provider => op[t].rows.began < op[t].provider
      <3>1. /\ op[t].rows.at >= updatedAt[op[t].provider]
            /\ op[t].rows.began <= op[t].rows.generation
        BY <2>2 DEF IInv, OpFacts, Served
      <3>2. op[t].rows \in Rows /\ op[t] \in Op
        BY <2>2 DEF IInv, TypeOK, OpFacts, Served
      <3>3. PICK r \in Rows : r = op[t].rows
        BY <3>2
      <3>4. PICK g : g = op[t].provider
        OBVIOUS
      <3>5. g \in Generation
        <4>1. PICK o \in Op : o = op[t]
          BY <3>2
        <4>2. o.provider \in Generation
          BY DEF Op
        <4> QED
          BY <3>4, <4>1, <4>2, Zenon
      <3>6. r.began \in Generation /\ r.generation \in Generation
        BY DEF Rows
      <3>7. Generation \subseteq Nat
        BY ConstantFacts DEF Generation
      <3>8. r.began <= r.generation /\ r.at >= updatedAt[g]
        BY <3>1, <3>3, <3>4, Zenon
      <3>9. r.generation < g => r.began < g
        <4>1. PICK b \in Nat : b = r.began
          BY <3>6, <3>7
        <4>2. PICK n \in Nat : n = r.generation
          BY <3>6, <3>7
        <4>3. g \in Nat /\ b <= n
          BY <3>5, <3>7, <3>8, <4>1, <4>2
        <4>4. n < g => b < g
          BY <4>3
        <4> QED
          BY <4>1, <4>2, <4>4, Zenon
      <3> QED
        BY <3>3, <3>4, <3>8, <3>9, Zenon
    <2> QED
      BY <2>1, <2>2 DEF RowsCurrent, NoRowsFromBeforeChange
  <1> QED
    BY <1>1, IInvAlways, PTL

\* Requests carry a credential no older than when the operation began.  One call of the
\* provider carries one revision of it and is tried as often as its policy allows; it is
\* called again at most once, after a 401 of an OAuth credential and with another
\* revision (Runtime.credential, rejectedCredential, refreshed).
THEOREM CredentialsAreCurrent == Spec => []CredentialsCurrent
  <1>1. IInv => CredentialsCurrent
    <2> SUFFICES ASSUME IInv PROVE CredentialsCurrent
      OBVIOUS
    <2>1. \A t \in Thread : Carried(t)
      BY DEF IInv, OpFacts
    <2>2. ReplayedOnce
      BY <2>1 DEF Carried, Follows, ReplayedOnce
    <2>3. NoStaleCredential
      BY <2>1 DEF Carried, NoStaleCredential
    <2> QED
      BY <2>2, <2>3 DEF CredentialsCurrent
  <1> QED
    BY <1>1, IInvAlways, PTL

\* An operation whose caller still waits leaves exactly one evidence, of its last
\* request and the credential that carried it (Runtime.observe).
THEOREM EvidenceIsHonest == Spec => []EvidenceHonest
  <1>1. IInv => EvidenceHonest
    <2> SUFFICES ASSUME IInv PROVE EvidenceHonest
      OBVIOUS
    <2>1. \A t \in Thread : Observed(t)
      BY DEF IInv, OpFacts
    <2> QED
      BY <2>1 DEF Observed, Latest, EvidenceHonest
  <1> QED
    BY <1>1, IInvAlways, PTL
=============================================================================
