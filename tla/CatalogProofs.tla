--------------------------- MODULE CatalogProofs ---------------------------
(***************************************************************************)
(* Theorems about Catalog, for every set of processes, goroutines and      *)
(* rows, and every bound.                                                  *)
(***************************************************************************)
EXTENDS Catalog, TLAPS

(***************************************************************************)
(* Type correctness, one step per action.                                  *)
(***************************************************************************)

\* A call begins with locals of their type.
LEMMA OpenedType ==
  ASSUME NEW earliest \in Nat, NEW at \in Nat PROVE Opened(earliest, at) \in Call
  BY DEF Opened, Call, Errors, Vias

\* So has a goroutine that runs no operation.
LEMMA NoCallType == NoCall \in Call
  BY OpenedType DEF NoCall

\* Replies built from nothing, or from stored or drafted evidence, are Replies.
LEMMA NothingType == ASSUME NEW e \in Errors PROVE Nothing(e) \in Reply
  BY DEF Nothing, Reply, Vias

\* A Service begins well typed.
LEMMA InitTypeOK == Init => TypeOK
  BY CatalogConstants, NoCallType, NothingType DEF Init, TypeOK, NoReply, Labels,
     Errors, Vias

\* An answer with evidence of any discovery is a Reply.
LEMMA AnswerType ==
  ASSUME NEW e \in Evidence, NEW d \in [born : Nat, via : Vias],
         NEW x \in Errors, NEW at \in Nat
  PROVE  Answer(e, d, x, at) \in Reply
  BY DEF Answer, Reply, Evidence

\* A call that returns leaves the types of pc, call and reply in place.
LEMMA ReturnType ==
  ASSUME TypeOK, NEW t \in Thread, NEW r \in Reply, Return(t, r)
  PROVE  /\ pc' \in [Thread -> Labels]
         /\ call' \in [Thread -> Call]
         /\ reply' \in [Thread -> Reply]
  BY NoCallType DEF TypeOK, Return, Goto, Labels

\* An error of refresh leaves the types in place, for Read and for Refresh.
LEMMA RefreshFailsType ==
  ASSUME TypeOK, NEW t \in Thread, NEW e \in Errors, RefreshFails(t, e)
  PROVE  /\ pc' \in [Thread -> Labels]
         /\ call' \in [Thread -> Call]
         /\ reply' \in [Thread -> Reply]
         /\ discovery' \in [Proc -> Thread \cup {None}]
  <1>1. CASE op[t] = "read" /\ call' = [call EXCEPT ![t].err = e]
             /\ Goto(t, "reload") /\ UNCHANGED <<reply, discovery>>
    BY <1>1 DEF TypeOK, Goto, Call, Labels
  <1>2. CASE op[t] = "refresh" /\ Return(t, Nothing(e)) /\ Unlock(discovery, t)
    BY <1>2, NothingType, ReturnType, CatalogConstants DEF TypeOK, Unlock
  <1> QED
    BY <1>1, <1>2 DEF RefreshFails

\* So does a record refresh returns.
LEMMA RefreshReturnsType ==
  ASSUME TypeOK, NEW t \in Thread, NEW r \in Reply, RefreshReturns(t, r)
  PROVE  /\ pc' \in [Thread -> Labels]
         /\ call' \in [Thread -> Call]
         /\ reply' \in [Thread -> Reply]
         /\ discovery' \in [Proc -> Thread \cup {None}]
  <1>1. CASE op[t] = "read" /\ Goto(t, "reload") /\ UNCHANGED <<call, reply, discovery>>
    BY <1>1 DEF TypeOK, Goto, Labels
  <1>2. CASE op[t] = "refresh" /\ Return(t, r) /\ Unlock(discovery, t)
    BY <1>2, ReturnType, CatalogConstants DEF TypeOK, Unlock
  <1> QED
    BY <1>1, <1>2 DEF RefreshReturns

\* What Service.load serves is evidence, and of a discovery.
LEMMA FoundRecord == ASSUME TypeOK, NEW p, Found(p)
                     PROVE  record \in Evidence /\ Usable
  BY DEF TypeOK, Found, Usable

\* An answer with the stored record, when there is one, is a Reply.
LEMMA StoredType ==
  ASSUME TypeOK, NEW p, Found(p), NEW x \in Errors, NEW at \in Nat
  PROVE  Stored(x, at) \in Reply
  BY FoundRecord, AnswerType DEF Stored, TypeOK

\* A call that reached save carries the evidence it discovered.
Drafted == \A t \in Thread : pc[t] \in {"save", "latest", "saveif"} => call[t].draft \in Evidence

\* The generations and the epoch are noted in the call; the rest of it stays.
LEMMA StartedCall ==
  ASSUME TypeOK, NEW t \in Thread, StartDiscovery(t)
  PROVE  /\ call' \in [Thread -> Call]
         /\ call'[t].hard = hard[ProcOf[t]] /\ call'[t].soft = soft[ProcOf[t]]
         /\ call'[t].born = epoch
         /\ call'[t].fence = call[t].fence /\ call'[t].seen = call[t].seen
  <1> DEFINE c1 == [call EXCEPT ![t].hard = hard[ProcOf[t]]]
             c2 == [c1 EXCEPT ![t].soft = soft[ProcOf[t]]]
  <1>0. hard[ProcOf[t]] \in Nat /\ soft[ProcOf[t]] \in Nat /\ epoch \in Nat
    BY CatalogConstants DEF TypeOK
  <1>1. /\ c1 \in [Thread -> Call] /\ c1[t].hard = hard[ProcOf[t]]
        /\ c1[t].fence = call[t].fence /\ c1[t].seen = call[t].seen
    BY <1>0 DEF TypeOK, Call
  <1>2. /\ c2 \in [Thread -> Call] /\ c2[t].hard = hard[ProcOf[t]]
        /\ c2[t].soft = soft[ProcOf[t]]
        /\ c2[t].fence = call[t].fence /\ c2[t].seen = call[t].seen
    <2> HIDE DEF c1
    <2> QED BY <1>0, <1>1 DEF Call
  <1>3. call' = [c2 EXCEPT ![t].born = epoch]
    BY DEF StartDiscovery, TypeOK
  <1> HIDE DEF c2
  <1> QED
    BY <1>0, <1>2, <1>3 DEF Call

\* Every action keeps the types.
LEMMA StepTypeOK == TypeOK /\ Drafted /\ [Next]_vars => TypeOK'
  <1> SUFFICES ASSUME TypeOK, Drafted, [Next]_vars PROVE TypeOK'
    OBVIOUS
  <1>e. {"none", "store", "discover", "state_changed"} = Errors
    BY DEF Errors
  <1>c. ASSUME NEW t \in Thread
        PROVE  call[t] \in Call /\ call[t].seen \in Nat /\ call[t].err \in Errors
               /\ call[t].born \in Nat /\ call[t].via \in Vias
               /\ call[t].draft \in Evidence \cup {None} /\ ProcOf[t] \in Proc
    BY CatalogConstants DEF TypeOK, Call
  <1>1. ASSUME NEW t \in Thread, NEW kind \in {"read", "refresh"},
               NEW earliest \in {0, now}, Begin(t, kind, earliest)
        PROVE  TypeOK'
    <2>1. Opened(earliest, epoch) \in Call
      BY OpenedType DEF TypeOK
    <2> QED
      BY <1>1, <2>1 DEF TypeOK, Begin, Goto, Labels, storeVars, serviceVars
  <1>2. ASSUME NEW t \in Thread, AcquireDiscovery(t) PROVE TypeOK'
    BY <1>2, <1>c DEF TypeOK, AcquireDiscovery, Lock, Goto, Labels, storeVars
  <1>3. ASSUME NEW t \in Thread, Load(t) PROVE TypeOK'
    <2>1. CASE Found(ProcOf[t]) /\ Return(t, Stored("none", call[t].seen))
               /\ Unlock(discovery, t)
      <3>1. Stored("none", call[t].seen) \in Reply
        BY <2>1, <1>c, <1>e, StoredType
      <3> QED
        BY <1>3, <2>1, <3>1, <1>c, ReturnType DEF TypeOK, Load, Unlock, storeVars
    <2>2. CASE call' = [call EXCEPT ![t].fence = revision] /\ Goto(t, "generations")
               /\ UNCHANGED <<discovery, reply>>
      BY SMTT(30), <1>3, <2>2 DEF TypeOK, Load, Goto, Labels, Call, storeVars
    <2>3. CASE Return(t, Nothing("store")) /\ Unlock(discovery, t)
      BY <1>3, <2>3, <1>c, <1>e, ReturnType, NothingType DEF TypeOK, Load, Unlock, storeVars
    <2> QED
      BY <1>3, <2>1, <2>2, <2>3 DEF Load
  <1>4. ASSUME NEW t \in Thread, StartDiscovery(t) PROVE TypeOK'
    BY <1>4, StartedCall DEF TypeOK, StartDiscovery, Goto, Labels, storeVars, serviceVars
  <1>5. ASSUME NEW t \in Thread, NEW rows \in Rows, Discovered(t, rows) PROVE TypeOK'
    <2>1. [status |-> IF rows = NoRows THEN "empty" ELSE "discovered",
           rows |-> rows, observed |-> now, schema |-> SchemaOf[ProcOf[t]]] \in Evidence
      BY <1>c DEF Evidence, TypeOK
    <2> QED
      BY SMTT(30), <1>5, <2>1 DEF TypeOK, Discovered, Goto, Labels, Call, storeVars, serviceVars
  <1>6. ASSUME NEW t \in Thread, DiscoverFails(t) PROVE TypeOK'
    BY <1>6, <1>e, RefreshFailsType DEF TypeOK, DiscoverFails, storeVars
  <1>7. ASSUME NEW t \in Thread, SaveEnter(t) PROVE TypeOK'
    <2>1. CASE FenceHolds(t) /\ Lock(write, t)
               /\ call' = [call EXCEPT ![t].via = IF SoftChanged(t) THEN "soft" ELSE "fenced"]
               /\ Goto(t, IF SoftChanged(t) THEN "latest" ELSE "saveif")
               /\ UNCHANGED <<reply, discovery>>
      BY <1>7, <2>1, <1>c DEF TypeOK, SaveEnter, Lock, Goto, Labels, Call, Vias, storeVars
    <2>2. CASE MayRebase(t) /\ Lock(write, t)
               /\ call' = [call EXCEPT ![t].via = "rebased"]
               /\ Goto(t, "latest") /\ UNCHANGED <<reply, discovery>>
      BY SMTT(30), <1>7, <2>2, <1>c DEF TypeOK, SaveEnter, Lock, Goto, Labels, Call, Vias, storeVars
    <2>3. CASE RefreshFails(t, "state_changed") /\ UNCHANGED write
      BY <1>7, <2>3, <1>e, RefreshFailsType DEF TypeOK, SaveEnter, storeVars
    <2> QED
      BY <1>7, <2>1, <2>2, <2>3 DEF SaveEnter
  <1>8. ASSUME NEW t \in Thread, LoadLatest(t) PROVE TypeOK'
    <2>1. CASE call' = [call EXCEPT ![t].fence = revision] /\ Goto(t, "saveif")
               /\ UNCHANGED <<reply, discovery, write>>
      BY SMTT(30), <1>8, <2>1 DEF TypeOK, LoadLatest, Goto, Labels, Call, storeVars
    <2>2. CASE RefreshFails(t, "store") /\ Unlock(write, t)
      BY <1>8, <2>2, <1>c, <1>e, RefreshFailsType DEF TypeOK, LoadLatest, Unlock, storeVars
    <2> QED
      BY <1>8, <2>1, <2>2 DEF LoadLatest
  <1>9. ASSUME NEW t \in Thread, Save(t) PROVE TypeOK'
    <2> DEFINE saved == [born |-> call[t].born, via |-> call[t].via]
               r == Answer(call[t].draft, saved, "none", call[t].seen)
    <2>1. CASE /\ record' = call[t].draft /\ revision' = revision + 1 /\ origin' = saved
               /\ RefreshReturns(t, r) /\ Unlock(write, t)
      <3>1. saved \in [born : Nat, via : Vias]
        BY <1>c
      <3>2. call[t].draft \in Evidence
        BY <1>9 DEF Save, Drafted
      <3>3. r \in Reply
        BY <3>1, <3>2, <1>c, <1>e, AnswerType
      <3>4. /\ pc' \in [Thread -> Labels] /\ call' \in [Thread -> Call]
            /\ reply' \in [Thread -> Reply]
            /\ discovery' \in [Proc -> Thread \cup {None}]
        BY <2>1, <3>3, RefreshReturnsType
      <3>5. write' \in [Proc -> Thread \cup {None}]
        BY <2>1, <1>c DEF TypeOK, Unlock
      <3>6. /\ record' \in Evidence \cup {None} /\ revision' \in Nat
            /\ origin' \in [born : Nat, via : Vias]
        <4> HIDE DEF saved
        <4> QED BY <2>1, <3>1, <3>2 DEF TypeOK
      <3>7. UNCHANGED <<epoch, now, hard, soft, op, begun>>
        BY <1>9 DEF Save
      <3> QED
        BY <3>4, <3>5, <3>6, <3>7 DEF TypeOK
    <2>2. CASE Goto(t, "conflict")
               /\ UNCHANGED <<record, revision, origin, call, reply, discovery, write>>
      BY <1>9, <2>2 DEF TypeOK, Save, Goto, Labels
    <2>3. CASE RefreshFails(t, "store") /\ Unlock(write, t)
               /\ UNCHANGED <<record, revision, origin>>
      BY <1>9, <2>3, <1>c, <1>e, RefreshFailsType DEF TypeOK, Save, Unlock
    <2> QED
      BY <1>9, <2>1, <2>2, <2>3 DEF Save
  <1>10. ASSUME NEW t \in Thread, Conflict(t) PROVE TypeOK'
    <2>1. CASE Found(ProcOf[t]) /\ RefreshReturns(t, Stored("none", call[t].seen))
      BY <1>10, <2>1, <1>c, <1>e, StoredType, RefreshReturnsType
         DEF TypeOK, Conflict, Unlock, storeVars
    <2>2. CASE \E e \in Errors : RefreshFails(t, e)
      BY <1>10, <2>2, <1>c, RefreshFailsType DEF TypeOK, Conflict, Unlock, storeVars
    <2> QED
      BY <1>10, <2>1, <2>2, <1>e DEF Conflict
  <1>11. ASSUME NEW t \in Thread, Reload(t) PROVE TypeOK'
    <2>1. ASSUME NEW r \in Reply, Return(t, r) PROVE TypeOK'
      BY <1>11, <2>1, <1>c, ReturnType DEF TypeOK, Reload, Unlock, storeVars
    <2>2. CASE Found(ProcOf[t]) /\ Return(t, Stored(call[t].err, call[t].seen))
      BY <2>1, <2>2, <1>c, StoredType
    <2>3. CASE \E e \in Errors : Return(t, Nothing(e))
      BY <2>1, <2>3, NothingType
    <2> QED
      BY <1>11, <2>2, <2>3, <1>c, <1>e DEF Reload
  <1>12. ASSUME NEW t \in Thread, Cached(t) PROVE TypeOK'
    <2>1. ASSUME NEW r \in Reply, Return(t, r) PROVE TypeOK'
      BY <1>12, <2>1, ReturnType DEF TypeOK, Cached, storeVars, serviceVars
    <2>2. CASE Found(ProcOf[t]) /\ Return(t, Stored("none", epoch))
      BY <2>1, <2>2, <1>e, StoredType DEF TypeOK
    <2>3. CASE \E e \in Errors : Return(t, Nothing(e))
      BY <2>1, <2>3, NothingType
    <2> QED
      BY <1>12, <2>2, <2>3, <1>e DEF Cached
  <1>13. ASSUME NEW t \in Thread, NEW mode \in Modes, Invalidate(t, mode) PROVE TypeOK'
    <2>1. mode \in {"hard", "soft"}
      BY CatalogConstants
    <2> QED
      BY <1>13, <2>1, <1>c DEF TypeOK, Invalidate, Lock, Goto, Labels, storeVars
  <1>14. ASSUME NEW t \in Thread, Forget(t) PROVE TypeOK'
    <2>1. Return(t, Nothing("none")) \/ Return(t, Nothing("store"))
      BY <1>14 DEF Forget
    <2>2. /\ pc' \in [Thread -> Labels] /\ call' \in [Thread -> Call]
          /\ reply' \in [Thread -> Reply]
      BY <2>1, <1>e, NothingType, ReturnType
    <2>3. NotProbed(ProcOf[t]) \in Evidence
      BY <1>c, CatalogConstants DEF NotProbed, Evidence
    <2>4. record' \in Evidence \cup {None} /\ revision' \in Nat /\ epoch' \in Nat
      BY <1>14, <2>3 DEF TypeOK, Forget
    <2> QED
      BY <1>14, <2>2, <2>4, <1>c DEF TypeOK, Forget, Unlock
  <1>15. ASSUME Tick PROVE TypeOK'
    BY <1>15 DEF TypeOK, Tick, storeVars, serviceVars
  <1>16. CASE UNCHANGED vars
    BY <1>16 DEF TypeOK, vars, storeVars, serviceVars
  <1> QED
    BY <1>1, <1>2, <1>3, <1>4, <1>5, <1>6, <1>7, <1>8, <1>9, <1>10, <1>11, <1>12,
       <1>13, <1>14, <1>15, <1>16 DEF Next, Step, Enter, Quiescent

\* A step of one goroutine leaves the place and the locals of the others.
LEMMA Others ==
  ASSUME TypeOK, NEW t \in Thread, NEW u \in Thread, Step(t) \/ Enter(t), u # t
  PROVE  pc'[u] = pc[u] /\ call'[u] = call[u]
  BY DEF TypeOK, Step, Enter, Begin, AcquireDiscovery, Load, StartDiscovery, Discovered,
     DiscoverFails, SaveEnter, LoadLatest, Save, Conflict, Reload, Cached, Invalidate,
     Forget, Goto, Return, RefreshFails, RefreshReturns

\* Every action keeps a draft with each goroutine that is about to save.
LEMMA StepDrafted == TypeOK /\ Drafted /\ [Next]_vars => Drafted'
  <1> SUFFICES ASSUME TypeOK, Drafted, [Next]_vars PROVE Drafted'
    OBVIOUS
  <1>1. ASSUME NEW t \in Thread, Step(t) \/ Enter(t)
        PROVE  pc'[t] \in {"save", "latest", "saveif"} => call'[t].draft \in Evidence
    <2>1. CASE \E rows \in Rows : Discovered(t, rows)
      <3>1. PICK rows \in Rows : Discovered(t, rows)
        BY <2>1
      <3>2. [status |-> IF rows = NoRows THEN "empty" ELSE "discovered",
             rows |-> rows, observed |-> now, schema |-> SchemaOf[ProcOf[t]]] \in Evidence
        BY CatalogConstants DEF Evidence, TypeOK
      <3> QED
        BY <3>1, <3>2 DEF Discovered, TypeOK, Call
    <2>2. CASE SaveEnter(t) \/ LoadLatest(t)
      <3>1. pc[t] \in {"save", "latest"} /\ call[t].draft \in Evidence
        BY <2>2 DEF SaveEnter, LoadLatest, Drafted
      <3>2. \/ \E via : call' = [call EXCEPT ![t].via = via]
            \/ \E fence : call' = [call EXCEPT ![t].fence = fence]
            \/ \E e : RefreshFails(t, e)
        BY <2>2 DEF SaveEnter, LoadLatest
      <3>3. ASSUME NEW e, RefreshFails(t, e) PROVE pc'[t] \notin {"save", "latest", "saveif"}
        BY <3>3 DEF RefreshFails, Return, Goto, TypeOK
      <3> QED
        BY <3>1, <3>2, <3>3 DEF TypeOK, Call
    <2>3. CASE Save(t) \/ Conflict(t) \/ DiscoverFails(t) \/ Reload(t) \/ Forget(t)
               \/ Load(t) \/ AcquireDiscovery(t) \/ StartDiscovery(t) \/ Enter(t)
      BY <2>3 DEF Save, Conflict, DiscoverFails, Reload, Forget, Load, AcquireDiscovery,
         StartDiscovery, Enter, Begin, Cached, Invalidate, RefreshFails, RefreshReturns,
         Return, Goto, TypeOK
    <2> QED
      BY <1>1, <2>1, <2>2, <2>3 DEF Step
  <1>2. ASSUME NEW t \in Thread, Step(t) \/ Enter(t) PROVE Drafted'
    BY <1>1, <1>2, Others DEF Drafted
  <1>3. CASE Tick \/ UNCHANGED vars
    BY <1>3 DEF Tick, vars, Drafted
  <1> QED
    BY <1>2, <1>3 DEF Next, Quiescent

\* Every variable keeps its type: a goroutine never answers with, or stores,
\* anything but a catalog a discovery listed.
THEOREM TypeCorrect == Spec => []TypeOK
  <1>1. Init => Drafted
    BY DEF Init, Drafted
  <1> QED
    BY <1>1, InitTypeOK, StepTypeOK, StepDrafted, PTL DEF Spec

(***************************************************************************)
(* The write mutex: who holds it, from SaveEnter or Invalidate to the end. *)
(***************************************************************************)

Writing == {"latest", "saveif", "conflict", "forget"}

LockInv == \A t \in Thread : pc[t] \in Writing => write[ProcOf[t]] = t

\* What a step does with the write mutex: nothing, take it, or give it back.
LEMMA WriteStep ==
  ASSUME TypeOK, NEW t \in Thread, Step(t) \/ Enter(t)
  PROVE  \/ write' = write /\ (pc'[t] \in Writing => pc[t] \in Writing)
         \/ write[ProcOf[t]] = None /\ write' = [write EXCEPT ![ProcOf[t]] = t]
         \/ /\ pc[t] \in Writing /\ pc'[t] \notin Writing
            /\ write' = [write EXCEPT ![ProcOf[t]] = None]
  <1>1. CASE Enter(t)
    BY <1>1 DEF TypeOK, Enter, Begin, Cached, Invalidate, Lock, Return, Goto, Writing, serviceVars
  <1>2. CASE AcquireDiscovery(t) \/ Load(t) \/ StartDiscovery(t) \/ DiscoverFails(t) \/ Reload(t)
             \/ \E rows \in Rows : Discovered(t, rows)
    BY <1>2 DEF TypeOK, AcquireDiscovery, Load, StartDiscovery, DiscoverFails, Discovered, Reload,
       RefreshFails, Return, Goto, Writing, serviceVars
  <1>3. CASE SaveEnter(t)
    BY <1>3 DEF TypeOK, SaveEnter, RefreshFails, Return, Goto, Lock, Writing
  <1>4. CASE LoadLatest(t) \/ Save(t) \/ Conflict(t) \/ Forget(t)
    BY <1>4 DEF TypeOK, LoadLatest, Save, Conflict, Forget, RefreshFails, RefreshReturns, Return,
       Goto, Unlock, Writing
  <1> QED
    BY <1>1, <1>2, <1>3, <1>4 DEF Step

\* Every action keeps the write mutex with the goroutine inside save or
\* Invalidate, and with no other.
LEMMA StepLockInv == TypeOK /\ LockInv /\ [Next]_vars => LockInv'
  <1> SUFFICES ASSUME TypeOK, LockInv, [Next]_vars PROVE LockInv'
    OBVIOUS
  <1>1. ASSUME NEW t \in Thread, Step(t) \/ Enter(t), NEW u \in Thread, pc'[u] \in Writing
        PROVE  write'[ProcOf[u]] = u
    <2>1. ProcOf[t] \in Proc /\ ProcOf[u] \in Proc /\ u # None /\ t # None
      BY CatalogConstants
    <2>2. CASE u = t
      BY <1>1, <2>1, <2>2, WriteStep DEF TypeOK, LockInv
    <2>3. CASE u # t
      <3>1. write[ProcOf[u]] = u
        BY <1>1, <2>3, Others DEF LockInv
      <3> QED
        BY <1>1, <2>1, <2>3, <3>1, WriteStep DEF TypeOK, LockInv
    <2> QED
      BY <2>2, <2>3
  <1>2. CASE Tick \/ UNCHANGED vars
    BY <1>2 DEF Tick, vars, serviceVars, LockInv
  <1> QED
    BY <1>1, <1>2 DEF Next, Quiescent, LockInv

(***************************************************************************)
(* What the fence must give the store: a save it accepts comes from a      *)
(* discovery begun since the last hard invalidation.                       *)
(***************************************************************************)

SaveSafe ==
  \A t \in Thread : pc[t] = "saveif" /\ Accepts(t) =>
      call[t].born + Excused(call[t].via) >= epoch

SeenInv == \A t \in Thread : call[t].seen <= epoch

\* Every reply is empty, the stored catalog, or the one Save just stored.
LEMMA ReplyStep ==
  ASSUME TypeOK, Drafted, NEW t \in Thread, Step(t) \/ Enter(t)
  PROVE  \/ reply' = reply
         \/ \E e : reply' = [reply EXCEPT ![t] = Nothing(e)]
         \/ \E e : /\ Found(ProcOf[t])
                   /\ reply' = [reply EXCEPT ![t] = Stored(e, call[t].seen)]
         \/ \E e : /\ Found(ProcOf[t])
                   /\ reply' = [reply EXCEPT ![t] = Stored(e, epoch)]
         \/ /\ pc[t] = "saveif" /\ Accepts(t)
            /\ reply' = [reply EXCEPT ![t] =
                   Answer(call[t].draft, [born |-> call[t].born, via |-> call[t].via],
                          "none", call[t].seen)]
  <1>1. CASE Enter(t)
    BY <1>1 DEF Enter, Begin, Cached, Invalidate, Return
  <1>2. CASE AcquireDiscovery(t) \/ Load(t) \/ StartDiscovery(t) \/ DiscoverFails(t) \/ Reload(t)
             \/ \E rows \in Rows : Discovered(t, rows)
    BY <1>2 DEF AcquireDiscovery, Load, StartDiscovery, DiscoverFails, Discovered, Reload,
       RefreshFails, Return
  <1>3. CASE SaveEnter(t) \/ LoadLatest(t) \/ Conflict(t) \/ Forget(t)
    BY <1>3 DEF SaveEnter, LoadLatest, Conflict, Forget, RefreshFails, RefreshReturns, Return
  <1>4. CASE Save(t)
    BY <1>4 DEF Save, RefreshFails, RefreshReturns, Return
  <1> QED
    BY <1>1, <1>2, <1>3, <1>4 DEF Step

\* What a step does to the store: nothing, an accepted save, or a forget.
LEMMA StoreStep ==
  ASSUME TypeOK, NEW t \in Thread, Step(t) \/ Enter(t)
  PROVE  \/ UNCHANGED storeVars
         \/ /\ pc[t] = "saveif" /\ Accepts(t)
            /\ record' = call[t].draft /\ revision' = revision + 1 /\ epoch' = epoch
            /\ origin' = [born |-> call[t].born, via |-> call[t].via]
            /\ pc'[t] \in {"idle", "reload"}
         \/ /\ pc[t] = "forget" /\ pc'[t] = "idle"
            /\ record' = IF Conditional THEN None ELSE NotProbed(ProcOf[t])
            /\ revision' = revision + 1 /\ origin' = origin
            /\ epoch' = IF op[t] = "hard" THEN epoch + 1 ELSE epoch
  <1>1. CASE Save(t)
    BY <1>1 DEF TypeOK, Save, RefreshFails, RefreshReturns, Return, Goto, storeVars
  <1>2. CASE Forget(t)
    BY <1>2 DEF TypeOK, Forget, Return, Goto, storeVars
  <1>3. CASE Enter(t) \/ AcquireDiscovery(t) \/ Load(t) \/ StartDiscovery(t) \/ DiscoverFails(t)
             \/ Reload(t) \/ (\E rows \in Rows : Discovered(t, rows))
             \/ SaveEnter(t) \/ LoadLatest(t) \/ Conflict(t)
    BY <1>3 DEF Enter, Begin, Cached, Invalidate, AcquireDiscovery, Load, StartDiscovery,
       DiscoverFails, Discovered, Reload, SaveEnter, LoadLatest, Conflict
  <1> QED
    BY <1>1, <1>2, <1>3 DEF Step

\* The locals of a call are replaced, or keep the epoch they began at.
LEMMA SeenStep ==
  ASSUME TypeOK, NEW t \in Thread, Step(t) \/ Enter(t)
  PROVE  call'[t].seen \in {0, epoch, call[t].seen}
  <1>0. NoCall.seen = 0 /\ \A e : Opened(e, epoch).seen = epoch
    BY DEF NoCall, Opened
  <1>c. call[t] \in Call
    BY DEF TypeOK
  <1>1. CASE Enter(t)
    BY <1>0, <1>1 DEF TypeOK, Enter, Begin, Cached, Invalidate, Return
  <1>2. CASE AcquireDiscovery(t) \/ Load(t) \/ DiscoverFails(t) \/ Reload(t)
    BY <1>0, <1>2, <1>c DEF TypeOK, Call, AcquireDiscovery, Load, DiscoverFails, Reload,
       RefreshFails, Return
  <1>3. CASE StartDiscovery(t)
    BY <1>3, StartedCall
  <1>4. CASE \E rows \in Rows : Discovered(t, rows)
    BY <1>4, <1>c DEF TypeOK, Call, Discovered
  <1>5. CASE SaveEnter(t) \/ LoadLatest(t)
    <2>1. \/ \E via : call' = [call EXCEPT ![t].via = via]
          \/ \E fence : call' = [call EXCEPT ![t].fence = fence]
          \/ \E e : call' = [call EXCEPT ![t].err = e]
          \/ call' = [call EXCEPT ![t] = NoCall]
      BY <1>5 DEF SaveEnter, LoadLatest, RefreshFails, Return
    <2> QED
      BY <1>0, <2>1, <1>c DEF TypeOK, Call
  <1>6. CASE Save(t) \/ Conflict(t) \/ Forget(t)
    BY <1>0, <1>6, <1>c DEF TypeOK, Call, Save, Conflict, Forget, RefreshFails, RefreshReturns, Return
  <1> QED
    BY <1>1, <1>2, <1>3, <1>4, <1>5, <1>6 DEF Step

\* No call began at an epoch that is yet to come.
LEMMA StepSeenInv == TypeOK /\ SeenInv /\ [Next]_vars => SeenInv'
  <1> SUFFICES ASSUME TypeOK, SeenInv, [Next]_vars PROVE SeenInv'
    OBVIOUS
  <1>1. ASSUME NEW t \in Thread, Step(t) \/ Enter(t) PROVE SeenInv'
    <2>1. epoch' \in Nat /\ epoch' >= epoch
      BY <1>1, StoreStep DEF TypeOK, storeVars
    <2>2. ASSUME NEW u \in Thread PROVE call'[u].seen <= epoch'
      <3>1. call[u].seen \in Nat /\ call[u].seen <= epoch /\ epoch \in Nat
        BY DEF TypeOK, Call, SeenInv
      <3>2. call'[u].seen \in {0, epoch, call[u].seen}
        BY <1>1, SeenStep, Others
      <3> QED
        BY <2>1, <3>1, <3>2
    <2> QED
      BY <2>2 DEF SeenInv
  <1>2. CASE Tick \/ UNCHANGED vars
    BY <1>2 DEF Tick, vars, storeVars, SeenInv
  <1> QED
    BY <1>1, <1>2 DEF Next, Quiescent

\* What NoResurrection needs of an accepted save is SaveSafe.
LEMMA StepNoResurrection ==
  TypeOK /\ SaveSafe /\ NoResurrection /\ [Next]_vars => NoResurrection'
  <1> SUFFICES ASSUME TypeOK, SaveSafe, NoResurrection, [Next]_vars PROVE NoResurrection'
    OBVIOUS
  <1>1. ASSUME NEW t \in Thread, Step(t) \/ Enter(t) PROVE NoResurrection'
    <2>1. CASE UNCHANGED storeVars
      BY <2>1 DEF storeVars, NoResurrection, Usable
    <2>2. CASE /\ pc[t] = "saveif" /\ Accepts(t) /\ epoch' = epoch
               /\ origin' = [born |-> call[t].born, via |-> call[t].via]
      BY <2>2 DEF SaveSafe, NoResurrection
    <2>3. CASE record' = IF Conditional THEN None ELSE NotProbed(ProcOf[t])
      BY <2>3 DEF NoResurrection, Usable, NotProbed
    <2> QED
      BY <1>1, <2>1, <2>2, <2>3, StoreStep
  <1>2. CASE Tick \/ UNCHANGED vars
    BY <1>2 DEF Tick, vars, storeVars, NoResurrection, Usable
  <1> QED
    BY <1>1, <1>2 DEF Next, Quiescent

\* Every answer comes from the store or from the save just made, so what
\* holds of the stored catalog holds of the answers.
LEMMA StepReadAfterInvalidation ==
  TypeOK /\ Drafted /\ SaveSafe /\ SeenInv /\ NoResurrection /\ ReadAfterInvalidation
  /\ [Next]_vars => ReadAfterInvalidation'
  <1> SUFFICES ASSUME TypeOK, Drafted, SaveSafe, SeenInv, NoResurrection,
                      ReadAfterInvalidation, [Next]_vars
               PROVE  ReadAfterInvalidation'
    OBVIOUS
  <1> DEFINE Timely(r) == r.rows # None => r.born + Excused(r.via) >= r.seen
  <1>1. ASSUME NEW t \in Thread, Step(t) \/ Enter(t) PROVE ReadAfterInvalidation'
    <2>0. /\ call[t].seen \in Nat /\ call[t].seen <= epoch /\ epoch \in Nat
          /\ call[t].born \in Nat /\ origin.born \in Nat
          /\ Excused(call[t].via) \in Nat /\ Excused(origin.via) \in Nat
      BY DEF TypeOK, Call, SeenInv, Excused
    <2>1. ASSUME NEW r, reply' = [reply EXCEPT ![t] = r], Timely(r)
          PROVE  ReadAfterInvalidation'
      BY <2>1 DEF TypeOK, ReadAfterInvalidation
    <2>2. \A e : Timely(Nothing(e))
      BY DEF Nothing
    <2>3. ASSUME NEW e, NEW at \in {call[t].seen, epoch}, Found(ProcOf[t])
          PROVE  Timely(Stored(e, at))
      <3>1. origin.born + Excused(origin.via) >= epoch
        BY <2>3, FoundRecord DEF NoResurrection
      <3>2. /\ Stored(e, at).born = origin.born /\ Stored(e, at).via = origin.via
            /\ Stored(e, at).seen = at
        BY DEF Stored, Answer
      <3> QED
        BY <2>0, <3>1, <3>2
    <2>4. ASSUME pc[t] = "saveif", Accepts(t)
          PROVE  Timely(Answer(call[t].draft, [born |-> call[t].born, via |-> call[t].via],
                               "none", call[t].seen))
      <3>1. call[t].born + Excused(call[t].via) >= epoch
        BY <2>4 DEF SaveSafe
      <3> QED
        BY <2>0, <3>1 DEF Answer
    <2>5. CASE reply' = reply
      BY <2>5 DEF ReadAfterInvalidation
    <2> HIDE DEF Timely
    <2> QED
      BY <1>1, <2>1, <2>2, <2>3, <2>4, <2>5, ReplyStep
  <1>2. CASE Tick \/ UNCHANGED vars
    BY <1>2 DEF Tick, vars, ReadAfterInvalidation
  <1> QED
    BY <1>1, <1>2 DEF Next, Quiescent

\* How a goroutine comes to the places where a discovery is fenced.
LEMMA Arrivals ==
  ASSUME TypeOK, NEW t \in Thread, Step(t) \/ Enter(t)
  PROVE  /\ pc'[t] = "generations" =>
              revision' = revision /\ epoch' = epoch /\ call'[t].fence = revision
         /\ pc'[t] = "discover" => StartDiscovery(t)
         /\ pc'[t] = "save" =>
              /\ pc[t] = "discover" /\ call'[t].hard = call[t].hard
              /\ call'[t].soft = call[t].soft /\ call'[t].born = call[t].born
              /\ call'[t].fence = call[t].fence /\ UNCHANGED <<storeVars, serviceVars>>
         /\ pc'[t] = "latest" => SaveEnter(t)
         /\ pc'[t] = "saveif" => SaveEnter(t) \/ LoadLatest(t)
         /\ pc'[t] = "forget" => \E mode \in Modes : Invalidate(t, mode)
  <1>c. call[t] \in Call
    BY DEF TypeOK
  <1>1. CASE Enter(t)
    <2>1. pc'[t] \in {"lock", "idle"} \/ (pc'[t] = "forget" /\ \E mode \in Modes : Invalidate(t, mode))
      BY <1>1 DEF TypeOK, Enter, Begin, Cached, Invalidate, Return, Goto
    <2> QED
      BY <2>1
  <1>2. CASE Load(t)
    BY <1>2, <1>c DEF TypeOK, Call, Load, Return, Goto, storeVars
  <1>3. CASE \E rows \in Rows : Discovered(t, rows)
    <2>1. PICK d : call' = [call EXCEPT ![t].draft = d]
      BY <1>3 DEF Discovered
    <2>2. /\ pc[t] = "discover" /\ pc'[t] = "save" /\ UNCHANGED <<storeVars, serviceVars>>
      BY <1>3 DEF Discovered, Goto, TypeOK
    <2>3. /\ call'[t].hard = call[t].hard /\ call'[t].soft = call[t].soft
          /\ call'[t].born = call[t].born /\ call'[t].fence = call[t].fence
      BY <2>1, <1>c DEF TypeOK, Call
    <2> QED
      BY <2>2, <2>3
  <1>4. CASE AcquireDiscovery(t) \/ StartDiscovery(t) \/ DiscoverFails(t) \/ Reload(t) \/ Forget(t)
    BY <1>4 DEF TypeOK, AcquireDiscovery, StartDiscovery, DiscoverFails, Reload, Forget,
       RefreshFails, Return, Goto
  <1>5. CASE SaveEnter(t) \/ LoadLatest(t)
    BY <1>5 DEF TypeOK, SaveEnter, LoadLatest, RefreshFails, Return, Goto
  <1>6. CASE Save(t) \/ Conflict(t)
    BY <1>6 DEF TypeOK, Save, Conflict, RefreshFails, RefreshReturns, Return, Goto
  <1> QED
    BY <1>1, <1>2, <1>3, <1>4, <1>5, <1>6 DEF Step

(***************************************************************************)
(* One Service, any store: the generations fence the discovery.            *)
(***************************************************************************)

SingleService == \A p, q \in Proc : p = q

\* A hard invalidation counted and not yet at the store.
Pending(p) ==
  IF write[p] \in Thread /\ pc[write[p]] = "forget" /\ op[write[p]] = "hard" THEN 1 ELSE 0

\* The hard invalidations counted since a discovery began are at least those
\* that reached the store since, and the one on its way.
GenerationInv ==
  \A t \in Thread : pc[t] \in {"discover", "save"} =>
      call[t].born + hard[ProcOf[t]] >= epoch + call[t].hard + Pending(ProcOf[t])

\* Past the fence, none is unaccounted for: the write mutex keeps more out.
PassedInv ==
  \A t \in Thread : pc[t] \in {"latest", "saveif"} =>
      call[t].born + Excused(call[t].via) >= epoch

\* No step lets the store get ahead of the generation.
LEMMA GenerationStep ==
  ASSUME SingleService, TypeOK, LockInv, NEW t \in Thread, Step(t) \/ Enter(t)
  PROVE  LET p == ProcOf[t]
         IN  hard'[p] + epoch + Pending(p) >= hard[p] + epoch' + Pending(p)'
  <1> DEFINE p == ProcOf[t]
  <1>0. /\ p \in Proc /\ t # None /\ hard[p] \in Nat /\ epoch \in Nat
        /\ Pending(p) \in {0, 1} /\ Pending(p)' \in {0, 1}
    BY CatalogConstants DEF TypeOK, Pending
  <1>1. CASE \E mode \in Modes : Invalidate(t, mode)
    <2>1. write[p] = None /\ epoch' = epoch
      BY <1>1 DEF Invalidate, Lock, storeVars
    <2>2. Pending(p) = 0
      BY <2>1, CatalogConstants DEF Pending
    <2>3. CASE Invalidate(t, "hard")
      BY <1>0, <2>1, <2>2, <2>3 DEF Invalidate, TypeOK
    <2>4. CASE Invalidate(t, "soft")
      <3>1. write'[p] = t /\ op'[t] = "soft" /\ hard' = hard
        BY <1>0, <2>4 DEF Invalidate, Lock, TypeOK
      <3> QED
        BY <1>0, <2>1, <2>2, <3>1 DEF Pending
    <2> QED
      BY <1>1, <2>3, <2>4, CatalogConstants
  <1>2. CASE Forget(t)
    <2>1. write[p] = t /\ write'[p] = None /\ hard' = hard
      BY <1>0, <1>2 DEF Forget, Unlock, LockInv, Writing, TypeOK
    <2>2. Pending(p)' = 0
      BY <2>1, CatalogConstants DEF Pending
    <2>3. epoch' <= epoch + Pending(p) /\ epoch' \in Nat
      BY <1>0, <1>2, <2>1 DEF Pending, Forget, TypeOK
    <2> QED
      BY <1>0, <2>1, <2>2, <2>3
  <1>3. CASE ~Forget(t) /\ ~\E mode \in Modes : Invalidate(t, mode)
    <2>1. hard' = hard
      BY <1>3 DEF Step, Enter, Begin, AcquireDiscovery, Load, StartDiscovery, Discovered,
         DiscoverFails, SaveEnter, LoadLatest, Save, Conflict, Reload, Cached, serviceVars
    <2>2. epoch' = epoch
      BY <1>3 DEF Step, Enter, Begin, AcquireDiscovery, Load, StartDiscovery, Discovered,
         DiscoverFails, SaveEnter, LoadLatest, Save, Conflict, Reload, Cached, Invalidate, storeVars
    <2>3. \A u \in Thread : u # t => op'[u] = op[u]
      BY DEF TypeOK, Step, Enter, Begin, AcquireDiscovery, Load, StartDiscovery, Discovered,
         DiscoverFails, SaveEnter, LoadLatest, Save, Conflict, Reload, Cached, Invalidate, Forget
    <2>4. pc'[t] # "forget"
      BY <1>3, Arrivals
    <2>5. ASSUME Pending(p)' = 1 PROVE Pending(p) = 1
      <3>1. PICK w \in Thread : write'[p] = w /\ pc'[w] = "forget" /\ op'[w] = "hard"
        BY <2>5 DEF Pending
      <3>2. pc[w] = "forget" /\ op[w] = "hard"
        BY <2>3, <2>4, <3>1, Others
      <3>3. write[p] = w
        BY <3>2, CatalogConstants DEF LockInv, Writing, SingleService
      <3> QED
        BY <3>2, <3>3 DEF Pending
    <2> QED
      BY <1>0, <2>1, <2>2, <2>5
  <1> QED
    BY <1>1, <1>2, <1>3

\* Every action keeps the count of hard invalidations ahead of the store's.
LEMMA StepGenerationInv ==
  ASSUME SingleService
  PROVE  TypeOK /\ LockInv /\ GenerationInv /\ PassedInv /\ [Next]_vars
           => GenerationInv' /\ PassedInv'
  <1> SUFFICES ASSUME TypeOK, LockInv, GenerationInv, PassedInv, [Next]_vars
               PROVE  GenerationInv' /\ PassedInv'
    OBVIOUS
  <1>1. ASSUME NEW t \in Thread, Step(t) \/ Enter(t), NEW u \in Thread
        PROVE  /\ pc'[u] \in {"discover", "save"} =>
                    call'[u].born + hard'[ProcOf[u]]
                      >= epoch' + call'[u].hard + Pending(ProcOf[u])'
               /\ pc'[u] \in {"latest", "saveif"} =>
                    call'[u].born + Excused(call'[u].via) >= epoch'
    <2> DEFINE p == ProcOf[t]
    <2>0. /\ p \in Proc /\ ProcOf[u] = p /\ hard[p] \in Nat /\ epoch \in Nat /\ t # None
          /\ Pending(p) \in {0, 1} /\ Pending(p)' \in {0, 1}
          /\ call[u] \in Call /\ call[u].born \in Nat /\ call[u].hard \in Nat
          /\ call[t] \in Call /\ call[t].born \in Nat /\ call[t].hard \in Nat
      BY CatalogConstants DEF TypeOK, Pending, SingleService, Call
    <2>1. hard'[p] + epoch + Pending(p) >= hard[p] + epoch' + Pending(p)'
      BY <1>1, GenerationStep
    <2>2. epoch' \in Nat /\ hard'[p] \in Nat
      <3>1. epoch' \in Nat
        BY <1>1, StoreStep DEF TypeOK, storeVars
      <3>2. hard' = hard \/ \E mode \in Modes : Invalidate(t, mode)
        BY <1>1 DEF Step, Enter, Begin, AcquireDiscovery, Load, StartDiscovery, Discovered,
           DiscoverFails, SaveEnter, LoadLatest, Save, Conflict, Reload, Cached, Forget, serviceVars
      <3>3. hard'[p] \in Nat
        BY <2>0, <3>2 DEF Invalidate, TypeOK
      <3> QED
        BY <3>1, <3>3
    <2>3. CASE u # t
      <3>1. pc'[u] = pc[u] /\ call'[u] = call[u]
        BY <1>1, <2>3, Others
      <3>2. ASSUME pc[u] \in {"latest", "saveif"} PROVE epoch' = epoch
        <4>1. write[p] = u
          BY <2>0, <3>2 DEF LockInv, Writing
        <4>2. pc[t] # "forget"
          BY <2>3, <4>1 DEF LockInv, Writing
        <4> QED
          BY <1>1, <4>2, StoreStep DEF storeVars
      <3> QED
        BY <2>0, <2>1, <2>2, <3>1, <3>2 DEF GenerationInv, PassedInv
    <2>4. CASE u = t /\ pc'[t] = "discover"
      <3>1. StartDiscovery(t) /\ write[p] = None /\ hard' = hard /\ epoch' = epoch
        BY <1>1, <2>4, Arrivals DEF StartDiscovery, storeVars, serviceVars
      <3>2. call'[t].born = epoch /\ call'[t].hard = hard[p]
        BY <3>1, StartedCall
      <3>3. Pending(p) = 0
        BY <3>1, CatalogConstants DEF Pending
      <3> QED
        BY <2>0, <2>1, <2>4, <3>1, <3>2, <3>3
    <2>5. CASE u = t /\ pc'[t] = "save"
      <3>1. /\ pc[t] = "discover" /\ call'[t].hard = call[t].hard
            /\ call'[t].born = call[t].born
        BY <1>1, <2>5, Arrivals
      <3> QED
        BY <2>0, <2>1, <2>2, <2>5, <3>1 DEF GenerationInv
    <2>6. CASE u = t /\ SaveEnter(t) /\ pc'[t] \in {"latest", "saveif"}
      <3>1. pc[t] = "save" /\ epoch' = epoch /\ write[p] = None
        BY <2>6 DEF SaveEnter, RefreshFails, Return, Goto, Lock, TypeOK, storeVars
      <3>2. call[t].born + hard[p] >= epoch + call[t].hard
        BY <2>0, <3>1 DEF GenerationInv
      <3>3. \/ hard[p] = call[t].hard
            \/ hard[p] = call[t].hard + 1 /\ call' = [call EXCEPT ![t].via = "rebased"]
        BY <2>6 DEF SaveEnter, FenceHolds, MayRebase, RefreshFails, Return, Goto, TypeOK
      <3>4. \E via : call' = [call EXCEPT ![t].via = via]
        BY <2>6 DEF SaveEnter, RefreshFails, Return, Goto, TypeOK
      <3>5. call'[t].born = call[t].born
        BY <2>0, <3>4 DEF TypeOK, Call
      <3>6. CASE hard[p] = call[t].hard
        BY <2>0, <2>6, <3>1, <3>2, <3>5, <3>6 DEF Excused
      <3>7. CASE hard[p] = call[t].hard + 1 /\ call' = [call EXCEPT ![t].via = "rebased"]
        <4>1. call'[t].via = "rebased"
          BY <2>0, <3>7 DEF TypeOK, Call
        <4> QED
          BY <2>0, <2>6, <3>1, <3>2, <3>5, <3>7, <4>1 DEF Excused
      <3> QED
        BY <3>3, <3>6, <3>7
    <2>7. CASE u = t /\ LoadLatest(t) /\ pc'[t] \in {"latest", "saveif"}
      <3>1. /\ pc[t] = "latest" /\ epoch' = epoch
            /\ call' = [call EXCEPT ![t].fence = revision]
        BY <2>7 DEF LoadLatest, RefreshFails, Return, Goto, TypeOK, storeVars
      <3>2. call'[t].born = call[t].born /\ call'[t].via = call[t].via
        BY <2>0, <3>1 DEF TypeOK, Call
      <3> QED
        BY <2>7, <3>1, <3>2 DEF PassedInv
    <2> QED
      BY <1>1, <2>3, <2>4, <2>5, <2>6, <2>7, Arrivals
  <1>2. CASE Tick \/ UNCHANGED vars
    BY <1>2 DEF Tick, vars, storeVars, serviceVars, GenerationInv, PassedInv, Pending
  <1> QED
    BY <1>1, <1>2 DEF Next, Quiescent, GenerationInv, PassedInv

\* One Service: over any store, with soft invalidations and Rebase hooks, a
\* discovery never stores over a hard invalidation that began after it.
THEOREM SingleServiceNoResurrection ==
  ASSUME SingleService
  PROVE  Spec => []Fenced
  <1> DEFINE Inv == /\ TypeOK /\ Drafted /\ LockInv /\ SeenInv /\ GenerationInv /\ PassedInv
                    /\ NoResurrection /\ ReadAfterInvalidation
  <1>1. Init => Inv
    <2>1. ASSUME Init
          PROVE  /\ Drafted /\ LockInv /\ SeenInv /\ GenerationInv /\ PassedInv
                 /\ NoResurrection /\ ReadAfterInvalidation
      BY <2>1 DEF Init, Drafted, LockInv, Writing, SeenInv, GenerationInv, PassedInv,
         NoResurrection, Usable, ReadAfterInvalidation, NoCall, Opened, NoReply, Nothing
    <2> QED
      BY <2>1, InitTypeOK
  <1>2. Inv /\ [Next]_vars => Inv'
    <2> SUFFICES ASSUME Inv, [Next]_vars PROVE Inv'
      OBVIOUS
    <2>1. SaveSafe
      BY DEF PassedInv, SaveSafe
    <2> QED
      BY <2>1, StepTypeOK, StepDrafted, StepLockInv, StepSeenInv, StepGenerationInv,
         StepNoResurrection, StepReadAfterInvalidation
  <1>3. Inv => Fenced
    BY DEF Fenced
  <1> QED
    BY <1>1, <1>2, <1>3, PTL DEF Spec

(***************************************************************************)
(* Several processes over a store that fences: its revisions do.           *)
(***************************************************************************)

RevisionFenced == Conditional /\ "soft" \notin Modes /\ TRUE \notin Rebase

\* No save loads the latest revision.
NoSoft ==
  /\ \A p \in Proc : soft[p] = 0
  /\ \A t \in Thread : /\ pc[t] # "latest"
                       /\ pc[t] \in {"discover", "save"} => call[t].soft = 0

\* A call whose revision is still the store's began after its last hard
\* invalidation.
RevisionInv ==
  \A t \in Thread :
      /\ pc[t] \in {"generations", "discover", "save", "saveif"} => call[t].fence <= revision
      /\ pc[t] \in {"discover", "save", "saveif"} /\ call[t].fence = revision =>
             call[t].born >= epoch

\* Without soft invalidations and Rebase hooks no save reloads its fence.
LEMMA StepNoSoft ==
  ASSUME RevisionFenced
  PROVE  TypeOK /\ NoSoft /\ [Next]_vars => NoSoft'
  <1> SUFFICES ASSUME TypeOK, NoSoft, [Next]_vars PROVE NoSoft'
    OBVIOUS
  <1>1. ASSUME NEW t \in Thread, Step(t) \/ Enter(t) PROVE NoSoft'
    <2>0. ProcOf[t] \in Proc
      BY CatalogConstants
    <2>1. soft' = soft
      <3>1. ASSUME NEW mode \in Modes, Invalidate(t, mode) PROVE soft' = soft
        BY <3>1 DEF Invalidate, RevisionFenced
      <3> QED
        BY <1>1, <3>1 DEF Step, Enter, Begin, AcquireDiscovery, Load, StartDiscovery, Discovered,
           DiscoverFails, SaveEnter, LoadLatest, Save, Conflict, Reload, Cached, Forget, serviceVars
    <2>2. pc'[t] # "latest"
      <3> SUFFICES ASSUME SaveEnter(t), pc'[t] = "latest" PROVE FALSE
        BY <1>1, Arrivals
      <3>1. pc[t] = "save" /\ ~SoftChanged(t)
        BY <2>0 DEF SaveEnter, NoSoft, SoftChanged
      <3> QED
        BY <3>1 DEF SaveEnter, MayRebase, RevisionFenced, RefreshFails, Return, Goto, TypeOK
    <2>3. pc'[t] \in {"discover", "save"} => call'[t].soft = 0
      BY <1>1, <2>0, Arrivals, StartedCall DEF NoSoft
    <2> QED
      BY <1>1, <2>1, <2>2, <2>3, Others DEF NoSoft
  <1>2. CASE Tick \/ UNCHANGED vars
    BY <1>2 DEF Tick, vars, serviceVars, NoSoft
  <1> QED
    BY <1>1, <1>2 DEF Next, Quiescent

\* Every action keeps an unchanged revision a witness that no hard
\* invalidation reached the store since the load.
LEMMA StepRevisionInv ==
  ASSUME RevisionFenced
  PROVE  TypeOK /\ NoSoft /\ RevisionInv /\ [Next]_vars => RevisionInv'
  <1> SUFFICES ASSUME TypeOK, NoSoft, RevisionInv, [Next]_vars PROVE RevisionInv'
    OBVIOUS
  <1> DEFINE Witness(place, c, r, e) ==
               /\ place \in {"generations", "discover", "save", "saveif"} => c.fence <= r
               /\ place \in {"discover", "save", "saveif"} /\ c.fence = r => c.born >= e
  <1>1. ASSUME NEW t \in Thread, Step(t) \/ Enter(t), NEW u \in Thread
        PROVE  Witness(pc'[u], call'[u], revision', epoch')
    <2>0. /\ call[u] \in Call /\ call[u].fence \in Nat /\ call[u].born \in Nat
          /\ revision \in Nat /\ epoch \in Nat /\ Witness(pc[u], call[u], revision, epoch)
      BY DEF TypeOK, Call, RevisionInv
    <2>1. \/ revision' = revision /\ epoch' = epoch
          \/ revision' = revision + 1
      BY <1>1, StoreStep DEF storeVars
    <2>2. CASE u # t
      BY <1>1, <2>0, <2>1, <2>2, Others
    <2>3. CASE u = t /\ pc'[t] = "generations"
      BY <1>1, <2>0, <2>3, Arrivals
    <2>4. CASE u = t /\ pc'[t] = "discover"
      <3>1. StartDiscovery(t) /\ pc[t] = "generations" /\ revision' = revision /\ epoch' = epoch
        BY <1>1, <2>4, Arrivals DEF StartDiscovery, storeVars
      <3> QED
        BY <2>0, <2>4, <3>1, StartedCall
    <2>5. CASE u = t /\ pc'[t] = "save"
      <3>1. /\ pc[t] = "discover" /\ call'[t].fence = call[t].fence
            /\ call'[t].born = call[t].born /\ revision' = revision /\ epoch' = epoch
        BY <1>1, <2>5, Arrivals DEF storeVars
      <3> QED
        BY <2>0, <2>5, <3>1
    <2>6. CASE u = t /\ pc'[t] = "saveif"
      <3>1. SaveEnter(t)
        BY <1>1, <2>6, Arrivals DEF LoadLatest, NoSoft
      <3>2. pc[t] = "save" /\ revision' = revision /\ epoch' = epoch
        BY <3>1 DEF SaveEnter, storeVars
      <3>3. \E via : call' = [call EXCEPT ![t].via = via]
        BY <2>6, <3>1 DEF SaveEnter, RefreshFails, Return, Goto, TypeOK
      <3>4. call'[t].fence = call[t].fence /\ call'[t].born = call[t].born
        BY <2>0, <2>6, <3>3 DEF TypeOK, Call
      <3> QED
        BY <2>0, <2>6, <3>2, <3>4
    <2> QED
      BY <2>2, <2>3, <2>4, <2>5, <2>6
  <1>2. CASE Tick \/ UNCHANGED vars
    BY <1>2 DEF Tick, vars, storeVars, RevisionInv
  <1> QED
    BY <1>1, <1>2 DEF Next, Quiescent, RevisionInv

\* Several processes: over a store that fences writes, without soft
\* invalidations and without Rebase hooks, a discovery in any process never
\* stores over a hard invalidation of any other.
THEOREM CrossProcessNoResurrection ==
  ASSUME RevisionFenced
  PROVE  Spec => []Fenced
  <1> DEFINE Inv == /\ TypeOK /\ Drafted /\ SeenInv /\ NoSoft /\ RevisionInv
                    /\ NoResurrection /\ ReadAfterInvalidation
  <1>1. Init => Inv
    <2>1. ASSUME Init
          PROVE  /\ Drafted /\ SeenInv /\ NoSoft /\ RevisionInv
                 /\ NoResurrection /\ ReadAfterInvalidation
      BY <2>1 DEF Init, Drafted, SeenInv, NoSoft, RevisionInv,
         NoResurrection, Usable, ReadAfterInvalidation, NoCall, Opened, NoReply, Nothing
    <2> QED
      BY <2>1, InitTypeOK
  <1>2. Inv /\ [Next]_vars => Inv'
    <2> SUFFICES ASSUME Inv, [Next]_vars PROVE Inv'
      OBVIOUS
    <2>1. SaveSafe
      <3> SUFFICES ASSUME NEW t \in Thread, pc[t] = "saveif", Accepts(t)
                   PROVE  call[t].born + Excused(call[t].via) >= epoch
        BY DEF SaveSafe
      <3>1. call[t].born >= epoch /\ call[t].born \in Nat /\ epoch \in Nat
        BY DEF RevisionInv, RevisionFenced, Accepts, TypeOK, Call
      <3> QED
        BY <3>1 DEF Excused
    <2> QED
      BY <2>1, StepTypeOK, StepDrafted, StepSeenInv, StepNoSoft, StepRevisionInv,
         StepNoResurrection, StepReadAfterInvalidation
  <1>3. Inv => Fenced
    BY DEF Fenced
  <1> QED
    BY <1>1, <1>2, <1>3, PTL DEF Spec

(***************************************************************************)
(* Whose schema an answer carries, and the order of the discoveries.       *)
(***************************************************************************)

\* Where a call carries the evidence it is about to store.
Saving == {"save", "latest", "saveif"}

\* How a call comes to carry evidence: its discovery has just listed it, now
\* and under the Service's own schema, or it carried it already.
LEMMA DraftStep ==
  ASSUME TypeOK, NEW t \in Thread, Step(t) \/ Enter(t), pc'[t] \in Saving
  PROVE  /\ UNCHANGED storeVars
         /\ \/ pc[t] \in Saving /\ call'[t].draft = call[t].draft
            \/ /\ call'[t].draft.schema = SchemaOf[ProcOf[t]]
               /\ call'[t].draft.observed = now
  <1>c. call[t] \in Call
    BY DEF TypeOK
  <1>1. CASE \E rows \in Rows : Discovered(t, rows)
    <2>1. PICK rows \in Rows : Discovered(t, rows)
      BY <1>1
    <2>2. PICK d : /\ d = [status |-> IF rows = NoRows THEN "empty" ELSE "discovered",
                           rows |-> rows, observed |-> now, schema |-> SchemaOf[ProcOf[t]]]
                   /\ call' = [call EXCEPT ![t].draft = d]
      BY <2>1 DEF Discovered
    <2>3. call'[t].draft = d
      BY <2>2, <1>c DEF TypeOK, Call
    <2> QED
      BY <2>1, <2>2, <2>3 DEF Discovered
  <1>2. CASE SaveEnter(t) \/ LoadLatest(t)
    <2>1. pc[t] \in Saving /\ UNCHANGED storeVars
      BY <1>2 DEF SaveEnter, LoadLatest, Saving
    <2>2. \/ \E via : call' = [call EXCEPT ![t].via = via]
          \/ \E fence : call' = [call EXCEPT ![t].fence = fence]
      BY <1>2 DEF SaveEnter, LoadLatest, RefreshFails, Return, Goto, Saving, TypeOK
    <2> QED
      BY <2>1, <2>2, <1>c DEF TypeOK, Call
  <1>3. CASE Save(t) \/ Conflict(t) \/ DiscoverFails(t) \/ Reload(t) \/ Forget(t)
             \/ Load(t) \/ AcquireDiscovery(t) \/ StartDiscovery(t) \/ Enter(t)
    BY <1>3 DEF Save, Conflict, DiscoverFails, Reload, Forget, Load, AcquireDiscovery,
       StartDiscovery, Enter, Begin, Cached, Invalidate, RefreshFails, RefreshReturns,
       Return, Goto, TypeOK, Saving
  <1> QED
    BY <1>1, <1>2, <1>3 DEF Step

\* What a call is about to store bears the schema of its own Service.
OwnDraft == \A t \in Thread : pc[t] \in Saving => call[t].draft.schema = SchemaOf[ProcOf[t]]

\* Every action keeps the drafts their own process's.
LEMMA StepOwnDraft == TypeOK /\ OwnDraft /\ [Next]_vars => OwnDraft'
  <1> SUFFICES ASSUME TypeOK, OwnDraft, [Next]_vars PROVE OwnDraft'
    OBVIOUS
  <1>1. ASSUME NEW t \in Thread, Step(t) \/ Enter(t) PROVE OwnDraft'
    <2>1. ASSUME NEW u \in Thread, pc'[u] \in Saving
          PROVE  call'[u].draft.schema = SchemaOf[ProcOf[u]]
      BY <1>1, <2>1, DraftStep, Others DEF OwnDraft
    <2> QED
      BY <2>1 DEF OwnDraft
  <1>2. CASE Tick \/ UNCHANGED vars
    BY <1>2 DEF Tick, vars, OwnDraft
  <1> QED
    BY <1>1, <1>2 DEF Next, Quiescent

\* Every answer comes from a record that load found to be of this schema, or
\* from the draft just stored, so it bears the schema of the Service asked.
LEMMA StepSchemaIsolation ==
  TypeOK /\ Drafted /\ OwnDraft /\ SchemaIsolation /\ [Next]_vars => SchemaIsolation'
  <1> SUFFICES ASSUME TypeOK, Drafted, OwnDraft, SchemaIsolation, [Next]_vars
               PROVE  SchemaIsolation'
    OBVIOUS
  <1>1. ASSUME NEW t \in Thread, Step(t) \/ Enter(t) PROVE SchemaIsolation'
    <2> DEFINE Own(r) == r.rows # None => r.schema = SchemaOf[ProcOf[t]]
    <2>1. ASSUME NEW r, reply' = [reply EXCEPT ![t] = r], Own(r)
          PROVE  SchemaIsolation'
      BY <2>1 DEF TypeOK, SchemaIsolation
    <2>2. \A e : Own(Nothing(e))
      BY DEF Nothing
    <2>3. ASSUME NEW e, NEW at, Found(ProcOf[t]) PROVE Own(Stored(e, at))
      BY <2>3 DEF Found, Stored, Answer
    <2>4. ASSUME pc[t] = "saveif", NEW d, NEW at PROVE Own(Answer(call[t].draft, d, "none", at))
      BY <2>4 DEF OwnDraft, Saving, Answer
    <2>5. CASE reply' = reply
      BY <2>5 DEF SchemaIsolation
    <2> HIDE DEF Own
    <2>6. CASE \E e, at : /\ Found(ProcOf[t])
                         /\ reply' = [reply EXCEPT ![t] = Stored(e, at)]
      BY <2>1, <2>3, <2>6
    <2>7. CASE \E e : reply' = [reply EXCEPT ![t] = Nothing(e)]
      BY <2>1, <2>2, <2>7
    <2>8. CASE /\ pc[t] = "saveif"
               /\ \E d, at : reply' = [reply EXCEPT ![t] = Answer(call[t].draft, d, "none", at)]
      BY <2>1, <2>4, <2>8
    <2>9. \/ reply' = reply
          \/ \E e : reply' = [reply EXCEPT ![t] = Nothing(e)]
          \/ \E e, at : Found(ProcOf[t]) /\ reply' = [reply EXCEPT ![t] = Stored(e, at)]
          \/ /\ pc[t] = "saveif"
             /\ \E d, at : reply' = [reply EXCEPT ![t] = Answer(call[t].draft, d, "none", at)]
      BY <1>1, ReplyStep, Zenon
    <2> QED
      BY <2>5, <2>6, <2>7, <2>8, <2>9
  <1>2. CASE Tick \/ UNCHANGED vars
    BY <1>2 DEF Tick, vars, SchemaIsolation
  <1> QED
    BY <1>1, <1>2 DEF Next, Quiescent

\* However many processes of however many schema versions share the store, and
\* whether or not it fences writes, no goroutine is answered with a catalog
\* another version stamped (Service.load, Service.refresh).
THEOREM AnswersOfOwnSchema == Spec => []SchemaIsolation
  <1> DEFINE Inv == TypeOK /\ Drafted /\ OwnDraft /\ SchemaIsolation
  <1>1. Init => Inv
    <2>1. ASSUME Init PROVE Drafted /\ OwnDraft /\ SchemaIsolation
      BY <2>1 DEF Init, Drafted, OwnDraft, Saving, SchemaIsolation, NoReply, Nothing
    <2> QED
      BY <2>1, InitTypeOK
  <1>2. Inv /\ [Next]_vars => Inv'
    BY StepTypeOK, StepDrafted, StepOwnDraft, StepSchemaIsolation
  <1>3. Inv => SchemaIsolation
    OBVIOUS
  <1> QED
    BY <1>1, <1>2, <1>3, PTL DEF Spec

\* The goroutine that is between taking and releasing the discovery mutex of its
\* process is the one that holds it.
HoldInv == \A t \in Thread : Discovering(t) => discovery[ProcOf[t]] = t

\* What a step does with the discovery mutex: nothing, take it, or give it back.
LEMMA DiscoveryStep ==
  ASSUME TypeOK, NEW t \in Thread, Step(t) \/ Enter(t)
  PROVE  \/ discovery' = discovery /\ (Discovering(t)' => Discovering(t))
         \/ discovery[ProcOf[t]] = None /\ discovery' = [discovery EXCEPT ![ProcOf[t]] = t]
         \/ /\ Discovering(t) /\ ~Discovering(t)'
            /\ discovery' = [discovery EXCEPT ![ProcOf[t]] = None]
  <1>1. CASE Enter(t)
    BY <1>1 DEF TypeOK, Enter, Begin, Cached, Invalidate, Return, Goto, Discovering, serviceVars
  <1>2. CASE AcquireDiscovery(t) \/ StartDiscovery(t) \/ (\E rows \in Rows : Discovered(t, rows))
             \/ Forget(t)
    BY <1>2 DEF TypeOK, AcquireDiscovery, StartDiscovery, Discovered, Forget, Lock, Return, Goto,
       Discovering, Labels, serviceVars
  <1>3. CASE Load(t) \/ DiscoverFails(t) \/ Reload(t)
    BY <1>3 DEF TypeOK, Load, DiscoverFails, Reload, RefreshFails, Return, Goto, Unlock,
       Discovering, Labels
  <1>4. CASE SaveEnter(t)
    BY <1>4 DEF TypeOK, SaveEnter, RefreshFails, Return, Goto, Unlock, Discovering, Labels
  <1>5. CASE LoadLatest(t) \/ Save(t) \/ Conflict(t)
    BY <1>5 DEF TypeOK, LoadLatest, Save, Conflict, RefreshFails, RefreshReturns, Return, Goto,
       Unlock, Discovering, Labels
  <1> QED
    BY <1>1, <1>2, <1>3, <1>4, <1>5 DEF Step

\* Every action keeps the discovery mutex with the goroutine that discovers.
LEMMA StepHoldInv == TypeOK /\ HoldInv /\ [Next]_vars => HoldInv'
  <1> SUFFICES ASSUME TypeOK, HoldInv, [Next]_vars PROVE HoldInv'
    OBVIOUS
  <1>1. ASSUME NEW t \in Thread, Step(t) \/ Enter(t), NEW u \in Thread, Discovering(u)'
        PROVE  discovery'[ProcOf[u]] = u
    <2>1. ProcOf[t] \in Proc /\ ProcOf[u] \in Proc /\ u # None /\ t # None
      BY CatalogConstants
    <2>2. CASE u = t
      BY <1>1, <2>1, <2>2, DiscoveryStep DEF TypeOK, HoldInv
    <2>3. CASE u # t
      <3>1. discovery[ProcOf[u]] = u
        BY <1>1, <2>3, Others DEF HoldInv, Discovering
      <3> QED
        BY <1>1, <2>1, <2>3, <3>1, DiscoveryStep DEF TypeOK, HoldInv
    <2> QED
      BY <2>2, <2>3
  <1>2. CASE Tick \/ UNCHANGED vars
    BY <1>2 DEF Tick, vars, serviceVars, HoldInv, Discovering
  <1> QED
    BY <1>1, <1>2 DEF Next, Quiescent, HoldInv

\* No evidence is dated later than the clock.
Dated ==
  /\ Usable => record.observed <= now
  /\ \A t \in Thread : pc[t] \in Saving => call[t].draft.observed <= now

\* Every action keeps the evidence dated, and the clock never goes back.
LEMMA StepDated == TypeOK /\ Drafted /\ Dated /\ [Next]_vars => Dated' /\ now' >= now
  <1> SUFFICES ASSUME TypeOK, Drafted, Dated, [Next]_vars PROVE Dated' /\ now' >= now
    OBVIOUS
  <1>0. now \in Nat
    BY DEF TypeOK
  <1>1. ASSUME NEW t \in Thread, Step(t) \/ Enter(t) PROVE Dated' /\ now' = now
    <2>1. now' = now
      BY <1>1 DEF Step, Enter, Begin, AcquireDiscovery, Load, StartDiscovery, Discovered,
         DiscoverFails, SaveEnter, LoadLatest, Save, Conflict, Reload, Cached, Invalidate, Forget
    <2>2. ASSUME NEW u \in Thread, pc'[u] \in Saving PROVE call'[u].draft.observed <= now
      BY <1>0, <1>1, <2>2, DraftStep, Others DEF Dated
    <2>3. Usable' => record'.observed <= now
      BY <1>1, StoreStep DEF Dated, Usable, Saving, NotProbed, storeVars
    <2> QED
      BY <2>1, <2>2, <2>3 DEF Dated
  <1>2. CASE Tick
    <2>1. /\ now' = now + 1 /\ record' = record /\ pc' = pc /\ call' = call
          /\ (Usable => record.observed \in Nat)
          /\ \A t \in Thread : pc[t] \in Saving => call[t].draft.observed \in Nat
      BY <1>2 DEF Tick, storeVars, TypeOK, Evidence, Drafted, Saving, Usable
    <2> QED
      BY <1>0, <2>1 DEF Dated, Usable
  <1>3. CASE UNCHANGED vars
    BY <1>0, <1>3 DEF vars, storeVars, Dated, Usable
  <1> QED
    BY <1>0, <1>1, <1>2, <1>3 DEF Next, Quiescent

\* What the order needs of an accepted save: it observed no earlier than what it
\* replaces.
SaveOrdered ==
  \A t \in Thread : pc[t] = "saveif" /\ Accepts(t) /\ Usable =>
      record.observed <= call[t].draft.observed

\* A save that is in order is the only step that replaces a catalog.
LEMMA StepObservedAdvances ==
  TypeOK /\ Drafted /\ SaveOrdered /\ [Next]_vars => ObservedAdvances
  <1> SUFFICES ASSUME TypeOK, Drafted, SaveOrdered, [Next]_vars, Usable, Usable'
               PROVE  record'.observed >= record.observed
    BY DEF ObservedAdvances
  <1>0. record.observed \in Nat
    BY DEF TypeOK, Usable, Evidence
  <1>1. ASSUME NEW t \in Thread, Step(t) \/ Enter(t) PROVE record'.observed >= record.observed
    <2>1. CASE UNCHANGED storeVars
      BY <1>0, <2>1 DEF storeVars
    <2>2. CASE pc[t] = "saveif" /\ Accepts(t) /\ record' = call[t].draft
      <3>1. call[t].draft.observed \in Nat
        BY <2>2 DEF Drafted, Evidence
      <3> QED
        BY <1>0, <2>2, <3>1 DEF SaveOrdered
    <2>3. CASE record' = IF Conditional THEN None ELSE NotProbed(ProcOf[t])
      BY <2>3 DEF Usable, NotProbed
    <2> QED
      BY <1>1, <2>1, <2>2, <2>3, StoreStep
  <1>2. CASE Tick \/ UNCHANGED vars
    BY <1>0, <1>2 DEF Tick, vars, storeVars
  <1> QED
    BY <1>1, <1>2 DEF Next, Quiescent

\* One Service: while a call carries evidence, no other discovery stores any, so
\* nothing stored is later than it.
SerialInv ==
  \A t \in Thread : pc[t] \in Saving /\ Usable => record.observed <= call[t].draft.observed

\* Every action of one Service keeps what is carried the latest evidence.
LEMMA StepSerialInv ==
  ASSUME SingleService
  PROVE  TypeOK /\ Dated /\ HoldInv /\ SerialInv /\ [Next]_vars => SerialInv'
  <1> SUFFICES ASSUME TypeOK, Dated, HoldInv, SerialInv, [Next]_vars PROVE SerialInv'
    OBVIOUS
  <1>1. ASSUME NEW t \in Thread, Step(t) \/ Enter(t),
               NEW u \in Thread, pc'[u] \in Saving, Usable'
        PROVE  record'.observed <= call'[u].draft.observed
    <2>1. CASE u = t
      <3>1. record' = record /\ Usable
        BY <1>1, <2>1, DraftStep DEF storeVars, Usable
      <3> QED
        BY <1>1, <2>1, <3>1, DraftStep DEF SerialInv, Dated
    <2>2. CASE u # t
      <3>1. pc[u] \in Saving /\ call'[u] = call[u]
        BY <1>1, <2>2, Others
      <3>2. pc[t] # "saveif"
        <4> SUFFICES ASSUME pc[t] = "saveif" PROVE FALSE
          OBVIOUS
        <4>1. Discovering(t) /\ Discovering(u)
          BY <3>1 DEF Discovering, Labels, Saving
        <4>2. ProcOf[t] = ProcOf[u]
          BY CatalogConstants DEF SingleService
        <4> QED
          BY <2>2, <4>1, <4>2 DEF HoldInv
      <3>3. record' = record /\ Usable
        BY <1>1, <3>2, StoreStep DEF storeVars, Usable, NotProbed
      <3> QED
        BY <3>1, <3>3 DEF SerialInv
    <2> QED
      BY <2>1, <2>2
  <1>2. CASE Tick \/ UNCHANGED vars
    BY <1>2 DEF Tick, vars, storeVars, SerialInv, Usable
  <1> QED
    BY <1>1, <1>2 DEF Next, Quiescent, SerialInv

\* One Service over any store, fenced or not, with soft invalidations and Rebase
\* hooks: its discoveries run one at a time and what one observed is never
\* overwritten by an earlier observation (keyState.discovery, Service.save).
THEOREM SingleServiceOrdered ==
  ASSUME SingleService
  PROVE  Spec => DiscoveriesOrdered
  <1> DEFINE Inv == TypeOK /\ Drafted /\ Dated /\ HoldInv /\ SerialInv
  <1>1. Init => Inv
    <2>1. ASSUME Init PROVE Drafted /\ Dated /\ HoldInv /\ SerialInv
      BY <2>1 DEF Init, Drafted, Dated, HoldInv, SerialInv, Saving, Discovering, Usable
    <2> QED
      BY <2>1, InitTypeOK
  <1>2. Inv /\ [Next]_vars => Inv'
    BY StepTypeOK, StepDrafted, StepDated, StepHoldInv, StepSerialInv
  <1>3. Inv => SerializedDiscovery
    <2>1. ASSUME HoldInv PROVE SerializedDiscovery
      BY <2>1 DEF HoldInv, SerializedDiscovery
    <2> QED
      BY <2>1
  <1>4. Inv /\ [Next]_vars => ObservedAdvances
    <2>1. SerialInv => SaveOrdered
      BY DEF SerialInv, SaveOrdered, Saving
    <2> QED
      BY <2>1, StepObservedAdvances
  <1> HIDE DEF Inv
  <1> QED
    BY <1>1, <1>2, <1>3, <1>4, PTL DEF Spec, DiscoveriesOrdered

\* Several processes: while the revision a call loaded is still the store's,
\* nothing stored is later than the evidence the call carries.
OvertakenInv ==
  \A t \in Thread : pc[t] \in Saving /\ call[t].fence = revision /\ Usable =>
      record.observed <= call[t].draft.observed

\* Every action keeps an unchanged revision a witness that no later evidence
\* reached the store since the load.
LEMMA StepOvertakenInv ==
  ASSUME RevisionFenced
  PROVE  TypeOK /\ NoSoft /\ RevisionInv /\ Dated /\ OvertakenInv /\ [Next]_vars
           => OvertakenInv'
  <1> SUFFICES ASSUME TypeOK, NoSoft, RevisionInv, Dated, OvertakenInv, [Next]_vars
               PROVE  OvertakenInv'
    OBVIOUS
  <1>1. ASSUME NEW t \in Thread, Step(t) \/ Enter(t), NEW u \in Thread, pc'[u] \in Saving,
               call'[u].fence = revision', Usable'
        PROVE  record'.observed <= call'[u].draft.observed
    <2>1. CASE u = t
      <3>1. record' = record /\ revision' = revision /\ Usable
        BY <1>1, <2>1, DraftStep DEF storeVars, Usable
      <3>2. CASE call'[t].draft.observed = now
        BY <2>1, <3>1, <3>2 DEF Dated
      <3>3. CASE pc[t] \in Saving /\ call'[t].draft = call[t].draft
        <4>1. SaveEnter(t)
          BY <1>1, <2>1, <3>3, Arrivals DEF Saving, NoSoft, LoadLatest
        <4>2. \E via : call' = [call EXCEPT ![t].via = via]
          BY <1>1, <2>1, <4>1 DEF SaveEnter, RefreshFails, Return, Goto, Saving, TypeOK
        <4>3. call'[t].fence = call[t].fence
          BY <4>2 DEF TypeOK, Call
        <4> QED
          BY <1>1, <2>1, <3>1, <3>3, <4>3 DEF OvertakenInv
      <3> QED
        BY <1>1, <2>1, <3>2, <3>3, DraftStep
    <2>2. CASE u # t
      <3>1. pc[u] \in {"save", "saveif"} /\ call'[u] = call[u]
        BY <1>1, <2>2, Others DEF NoSoft, Saving
      <3>2. call[u].fence <= revision /\ call[u].fence \in Nat /\ revision \in Nat
        BY <3>1 DEF RevisionInv, TypeOK, Call
      <3>3. revision' = revision /\ record' = record /\ Usable
        BY <1>1, <3>1, <3>2, StoreStep DEF storeVars, Usable
      <3> QED
        BY <1>1, <3>1, <3>3 DEF OvertakenInv, Saving
    <2> QED
      BY <2>1, <2>2
  <1>2. CASE Tick \/ UNCHANGED vars
    BY <1>2 DEF Tick, vars, storeVars, OvertakenInv, Usable
  <1> QED
    BY <1>1, <1>2 DEF Next, Quiescent, OvertakenInv

\* Several processes over a store that fences writes, without soft invalidations
\* and Rebase hooks: a discovery another process overtook does not overwrite what
\* overtook it (SaveIf).
THEOREM CrossProcessOrdered ==
  ASSUME RevisionFenced
  PROVE  Spec => ObservedNeverRegresses
  <1> DEFINE Inv == TypeOK /\ Drafted /\ Dated /\ NoSoft /\ RevisionInv /\ OvertakenInv
  <1>1. Init => Inv
    <2>1. ASSUME Init PROVE Drafted /\ Dated /\ NoSoft /\ RevisionInv /\ OvertakenInv
      BY <2>1 DEF Init, Drafted, Dated, NoSoft, RevisionInv, OvertakenInv, Saving, Usable
    <2> QED
      BY <2>1, InitTypeOK
  <1>2. Inv /\ [Next]_vars => Inv'
    BY StepTypeOK, StepDrafted, StepDated, StepNoSoft, StepRevisionInv, StepOvertakenInv
  <1>3. Inv /\ [Next]_vars => ObservedAdvances
    <2>1. OvertakenInv => SaveOrdered
      BY DEF OvertakenInv, SaveOrdered, Saving, Accepts, RevisionFenced
    <2> QED
      BY <2>1, StepObservedAdvances
  <1> QED
    BY <1>1, <1>2, <1>3, PTL DEF Spec, ObservedNeverRegresses
=============================================================================
