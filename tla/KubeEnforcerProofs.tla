------------------------- MODULE KubeEnforcerProofs -------------------------
(***************************************************************************)
(* Proofs about KubeEnforcer for every platform, number of replicas and    *)
(* bound on failed calls, restarts and deletions by others.                *)
(***************************************************************************)
EXTENDS KubeEnforcer, TLAPS

\* The two orders, spelled out.
LEMMA Orders ==
  /\ Len(InstallOrder) = 7 /\ DOMAIN InstallOrder = 1 .. 7
  /\ \A i \in 1 .. 7 : InstallOrder[i] \in Objects
  /\ InstallOrder[7] = "deployment"
  /\ Len(FinalizeOrder) = 5 /\ DOMAIN FinalizeOrder = 1 .. 5
  /\ ClusterScoped = {"validating", "mutating", "binding", "reader", "clusterRole"}
  /\ \A i \in 1 .. 5 : FinalizeOrder[i] \in ClusterScoped
  /\ \A o \in ClusterScoped : \E i \in 1 .. 5 : o = FinalizeOrder[i]
  /\ ClusterScoped \subseteq Objects
<1>1. Len(InstallOrder) = 7 /\ DOMAIN InstallOrder = 1 .. 7
  BY DEF InstallOrder
<1>2. Len(FinalizeOrder) = 5 /\ DOMAIN FinalizeOrder = 1 .. 5
  BY DEF FinalizeOrder
<1>3. \A i \in 1 .. 7 : InstallOrder[i] \in Objects
  BY <1>1 DEF Objects
<1>4. InstallOrder[7] = "deployment"
  BY DEF InstallOrder
<1>5. ClusterScoped = {"validating", "mutating", "binding", "reader", "clusterRole"}
  <2>1. ClusterScoped = {FinalizeOrder[i] : i \in 1 .. 5}
    BY <1>2 DEF ClusterScoped
  <2>2. 1 .. 5 = {1, 2, 3, 4, 5}
    OBVIOUS
  <2> QED  BY <2>1, <2>2 DEF FinalizeOrder
<1>6. \A i \in 1 .. 5 : FinalizeOrder[i] \in ClusterScoped
  BY <1>2 DEF ClusterScoped
<1>7. \A o \in ClusterScoped : \E i \in 1 .. 5 : o = FinalizeOrder[i]
  BY <1>2 DEF ClusterScoped
<1>8. ClusterScoped \subseteq Objects
  <2>1. Objects = {InstallOrder[i] : i \in 1 .. 7}
    BY <1>1 DEF Objects
  <2>2. 1 .. 7 = {1, 2, 3, 4, 5, 6, 7}
    OBVIOUS
  <2>3. Objects = {"clusterRole", "reader", "binding", "validating", "mutating", "ssl",
                   "deployment"}
    BY <2>1, <2>2 DEF InstallOrder
  <2> QED  BY <1>5, <2>3
<1> QED  BY <1>1, <1>2, <1>3, <1>4, <1>5, <1>6, <1>7, <1>8

-----------------------------------------------------------------------------
(* Types. *)

PassTypes ==
  /\ queued \in BOOLEAN /\ instFresh \in BOOLEAN /\ inst \in CR
  /\ pc \in {"idle", "finalizer", "pending", "install", "finalize", "release"}
  /\ at \in 1 .. Len(InstallOrder)

\* The end of a pass, and the way to its next part, keep the types of the pass.
LEMMA PassMoves ==
  ASSUME TypeOK
  PROVE  /\ \A r \in BOOLEAN : Finish(r) => PassTypes'
         /\ \A step \in {"pending", "finalize", "release"} : GoTo(step) => PassTypes'
         /\ at < Len(InstallOrder) /\ Advance => PassTypes'
<1>1. \A r \in BOOLEAN : Finish(r) => PassTypes'
  <2> SUFFICES ASSUME NEW r \in BOOLEAN, Finish(r)
               PROVE  PassTypes'
    OBVIOUS
  <2>1. queued' \in BOOLEAN
    BY DEF TypeOK, Finish
  <2>2. instFresh' \in BOOLEAN /\ inst' \in CR
    BY DEF TypeOK, Finish
  <2>3. pc' = "idle" /\ at' \in 1 .. Len(InstallOrder)
    BY Orders DEF Finish
  <2> QED  BY <2>1, <2>2, <2>3 DEF PassTypes
<1>2. \A step \in {"pending", "finalize", "release"} : GoTo(step) => PassTypes'
  <2> SUFFICES ASSUME NEW step \in {"pending", "finalize", "release"}, GoTo(step)
               PROVE  PassTypes'
    OBVIOUS
  <2>1. at' \in 1 .. Len(InstallOrder)
    BY Orders DEF GoTo
  <2> QED  BY <2>1 DEF TypeOK, PassTypes, GoTo
<1>3. at < Len(InstallOrder) /\ Advance => PassTypes'
  <2> SUFFICES ASSUME at < Len(InstallOrder), Advance
               PROVE  PassTypes'
    OBVIOUS
  <2>1. at' \in 1 .. Len(InstallOrder)
    BY Orders DEF TypeOK, Advance
  <2> QED  BY <2>1 DEF TypeOK, PassTypes, Advance
<1> QED  BY <1>1, <1>2, <1>3

\* Arithmetic of the bounds: what is within reach of f is within reach of a larger g.
LEMMA Ranges ==
  ASSUME NEW m \in Nat, NEW f \in 0 .. m, NEW c \in 1 .. f + 1, NEW g \in f .. m
  PROVE  c \in 1 .. g + 1 /\ g \in 0 .. m
OBVIOUS

\* Faults are only ever added up, which is all that the certificates depend on.
LEMMA Counters ==
  ASSUME TypeOK, UNCHANGED certs, faults' \in faults .. MaxFaults
  PROVE  certs' \in 1 .. faults' + 1 /\ faults' \in 0 .. MaxFaults
<1>1. MaxFaults \in Nat
  BY KubeEnforcerAssumption
<1>2. faults \in 0 .. MaxFaults /\ certs \in 1 .. faults + 1
  BY DEF TypeOK
<1>3. certs \in 1 .. faults' + 1 /\ faults' \in 0 .. MaxFaults
  BY <1>1, <1>2, Ranges, Zenon
<1> QED  BY <1>3, Zenon

\* A write of the resource, whatever comes of it.
LEMMA WriteTypes ==
  ASSUME TypeOK, NEW new \in CR, Store(new) \/ Conflict \/ CallFails
  PROVE  cr' \in CR /\ fresh' \in BOOLEAN /\ faults' \in faults .. MaxFaults
<1>1. MaxFaults \in Nat
  BY KubeEnforcerAssumption
<1>2. cr' \in CR /\ fresh' \in BOOLEAN
  BY DEF TypeOK, Store, Conflict, CallFails
<1>3. faults' \in faults .. MaxFaults
  BY <1>1 DEF TypeOK, Store, Conflict, CallFails, Fault
<1> QED  BY <1>2, <1>3

\* Creating an object, or failing to, keeps the types.
LEMMA GetOrCreateTypes ==
  ASSUME TypeOK, NEW o \in Objects, GetOrCreate(o)
  PROVE  objs' \in [Objects -> 0 .. MaxFaults + 1] /\ faults' \in faults .. MaxFaults
<1>1. MaxFaults \in Nat
  BY KubeEnforcerAssumption
<1>2. Content(o) \in 0 .. MaxFaults + 1
  BY <1>1 DEF Content, TypeOK
<1> QED  BY <1>1, <1>2 DEF TypeOK, GetOrCreate, Fault

\* The first state has the types.
LEMMA TypeInit == Init => TypeOK
<1>1. MaxFaults \in Nat
  BY KubeEnforcerAssumption
<1> SUFFICES ASSUME Init PROVE TypeOK
  OBVIOUS
<1>2. cr \in CR /\ seen \in CR /\ inst \in CR
  BY DEF Init, CR, State
<1>3. objs \in [Objects -> 0 .. MaxFaults + 1] /\ objsSeen \in [Objects -> 0 .. MaxFaults + 1]
  <2>1. objs = [o \in Objects |-> 0] /\ objsSeen = objs
    BY Zenon DEF Init
  <2> QED  BY <1>1, <2>1
<1>4. pods \in Pods /\ podsSeen \in Pods
  <2>1. pods = NoPods /\ podsSeen = pods
    BY DEF Init
  <2> QED  BY <2>1 DEF NoPods, Pods
<1>5. certs \in 1 .. faults + 1 /\ faults \in 0 .. MaxFaults /\ at \in 1 .. Len(InstallOrder)
  <2>1. certs = 1 /\ faults = 0 /\ at = 1
    BY DEF Init
  <2> QED  BY <1>1, <2>1, Orders
<1>6. fresh \in BOOLEAN /\ queued \in BOOLEAN /\ instFresh \in BOOLEAN /\ finalized \in BOOLEAN
  BY DEF Init
<1> QED  BY <1>2, <1>3, <1>4, <1>5, <1>6 DEF Init, TypeOK

\* Every step keeps the types.
LEMMA TypeStep == TypeOK /\ [Next]_vars => TypeOK'
<1> SUFFICES ASSUME TypeOK, [Next]_vars
             PROVE  TypeOK'
  OBVIOUS
<1>0. MaxFaults \in Nat
  BY KubeEnforcerAssumption
<1>1. CASE Fetch
  <2>1. PassTypes'
    <3>1. queued' \in BOOLEAN /\ instFresh' \in BOOLEAN /\ inst' \in CR
      BY <1>1 DEF Fetch, TypeOK
    <3>2. pc' \in {"idle", "finalizer", "finalize"} /\ at' \in 1 .. Len(InstallOrder)
      BY <1>1, Orders DEF Fetch
    <3> QED  BY <3>1, <3>2 DEF PassTypes
  <2> QED  BY <1>1, <2>1 DEF Fetch, TypeOK, PassTypes, clusterVars, copyVars
<1>2. CASE AddFinalizer
  <2>1. [cr EXCEPT !.finalizer = TRUE] \in CR /\ [inst EXCEPT !.finalizer = TRUE] \in CR
    BY DEF TypeOK, CR
  <2>2. cr' \in CR /\ fresh' \in BOOLEAN /\ faults' \in faults .. MaxFaults
    <3>1. CASE inst.finalizer
      <4>1. UNCHANGED <<cr, fresh, faults>>
        BY <1>2, <3>1, Zenon DEF AddFinalizer
      <4> QED  BY <1>0, <4>1 DEF TypeOK
    <3>2. CASE ~inst.finalizer
      <4>1. Store([cr EXCEPT !.finalizer = TRUE]) \/ Conflict \/ CallFails
        BY <1>2, <3>2, Zenon DEF AddFinalizer
      <4> QED  BY <2>1, <4>1, WriteTypes, Zenon
    <3> QED  BY <3>1, <3>2
  <2>3. PassTypes'
    BY <1>2, <2>1, PassMoves DEF AddFinalizer, TypeOK, PassTypes
  <2>4. certs' \in 1 .. faults' + 1 /\ faults' \in 0 .. MaxFaults
    BY <1>2, <2>2, Counters DEF AddFinalizer
  <2> QED  BY <1>2, <2>2, <2>3, <2>4 DEF AddFinalizer, TypeOK, PassTypes
<1>3. CASE MarkPending
  <2>1. [cr EXCEPT !.state = "Pending"] \in CR /\ [inst EXCEPT !.state = "Pending"] \in CR
    BY DEF TypeOK, CR, State
  <2>2. cr' \in CR /\ fresh' \in BOOLEAN /\ faults' \in faults .. MaxFaults
    BY <1>3, <2>1, WriteTypes DEF MarkPending, StoreState, TypeOK
  <2>3. PassTypes'
    BY <1>3, <2>1, Orders DEF MarkPending, TypeOK, PassTypes
  <2>4. certs' \in 1 .. faults' + 1 /\ faults' \in 0 .. MaxFaults
    BY <1>3, <2>2, Counters DEF MarkPending
  <2> QED  BY <1>3, <2>2, <2>3, <2>4 DEF MarkPending, TypeOK, PassTypes
<1>4. CASE InstallObject
  <2>1. InstallOrder[at] \in Objects
    BY Orders DEF TypeOK
  <2>2. objs' \in [Objects -> 0 .. MaxFaults + 1] /\ faults' \in faults .. MaxFaults
    BY <1>4, <2>1, GetOrCreateTypes DEF InstallObject
  <2>3. PassTypes'
    BY <1>4, PassMoves DEF InstallObject
  <2>4. certs' \in 1 .. faults' + 1 /\ faults' \in 0 .. MaxFaults
    BY <1>4, <2>2, Counters DEF InstallObject
  <2> QED  BY <1>4, <2>2, <2>3, <2>4 DEF InstallObject, TypeOK, PassTypes, copyVars
<1>5. CASE InstallDeployment
  <2>1. \A p, s : s \in State => StateFor(p, s) \in State
    BY DEF StateFor, State, Settled
  <2>2. [cr EXCEPT !.state = StateFor(podsSeen, inst.state)] \in CR
    BY <2>1 DEF TypeOK, CR
  <2>3. "deployment" \in Objects
    BY Orders
  <2>4. /\ objs' \in [Objects -> 0 .. MaxFaults + 1] /\ faults' \in faults .. MaxFaults
        /\ cr' \in CR /\ fresh' \in BOOLEAN
    BY <1>5, <2>2, <2>3, GetOrCreateTypes, WriteTypes DEF InstallDeployment, StoreState, TypeOK
  <2>5. PassTypes'
    BY <1>5, PassMoves DEF InstallDeployment
  <2>6. certs' \in 1 .. faults' + 1 /\ faults' \in 0 .. MaxFaults
    BY <1>5, <2>4, Counters DEF InstallDeployment
  <2> QED  BY <1>5, <2>4, <2>5, <2>6 DEF InstallDeployment, TypeOK, PassTypes
<1>6. CASE KubeEnforcerFinalizer
  <2>1. /\ objs' \in [Objects -> 0 .. MaxFaults + 1] /\ faults' \in faults .. MaxFaults
        /\ finalized' \in BOOLEAN
    <3>1. \/ objs' = [objs EXCEPT ![FinalizeOrder[at]] = 0] /\ finalized' = TRUE
          \/ UNCHANGED <<objs, finalized>>
      BY <1>6, Zenon DEF KubeEnforcerFinalizer, DeleteObject, DeleteFails
    <3>2. UNCHANGED faults \/ (faults < MaxFaults /\ faults' = faults + 1)
      BY <1>6, Zenon DEF KubeEnforcerFinalizer, DeleteObject, DeleteFails, Fault
    <3>3. objs' \in [Objects -> 0 .. MaxFaults + 1]
      <4>1. objs \in [Objects -> 0 .. MaxFaults + 1]
        BY DEF TypeOK
      <4> QED  BY <1>0, <3>1, <4>1
    <3>4. finalized' \in BOOLEAN
      BY <3>1, Zenon DEF TypeOK
    <3>5. faults' \in faults .. MaxFaults
      BY <1>0, <3>2 DEF TypeOK
    <3> QED  BY <3>3, <3>4, <3>5
  <2>2. PassTypes'
    <3>1. at < Len(FinalizeOrder) => at < Len(InstallOrder)
      BY Orders DEF TypeOK
    <3> QED  BY <1>6, <3>1, PassMoves DEF KubeEnforcerFinalizer, NextFinalized
  <2>4. certs' \in 1 .. faults' + 1 /\ faults' \in 0 .. MaxFaults
    BY <1>6, <2>1, Counters DEF KubeEnforcerFinalizer
  <2> QED  BY <1>6, <2>1, <2>2, <2>4 DEF KubeEnforcerFinalizer, TypeOK, PassTypes, copyVars
<1>7. CASE RemoveFinalizer
  <2>1. [cr EXCEPT !.phase = "gone", !.finalizer = FALSE] \in CR
    BY DEF TypeOK, CR
  <2>2. cr' \in CR /\ fresh' \in BOOLEAN /\ faults' \in faults .. MaxFaults
    BY <1>7, <2>1, WriteTypes DEF RemoveFinalizer
  <2>3. PassTypes'
    BY <1>7, PassMoves DEF RemoveFinalizer
  <2>4. certs' \in 1 .. faults' + 1 /\ faults' \in 0 .. MaxFaults
    BY <1>7, <2>2, Counters DEF RemoveFinalizer
  <2> QED  BY <1>7, <2>2, <2>3, <2>4 DEF RemoveFinalizer, TypeOK, PassTypes
<1>8. CASE Delete
  BY <1>8 DEF Delete, TypeOK, CR
<1>9. CASE GarbageCollect
  BY <1>0, <1>9 DEF GarbageCollect, TypeOK, NoPods, Pods, copyVars, passVars
<1>10. CASE PodsChange
  BY <1>10 DEF PodsChange, TypeOK, Pods, copyVars, passVars
<1>11. CASE DeliverCR
  BY <1>11 DEF DeliverCR, TypeOK, clusterVars
<1>12. CASE \E o \in Objects : DeliverObject(o)
  BY <1>12 DEF DeliverObject, TypeOK, clusterVars
<1>13. CASE Restart
  <2>1. certs' = certs + 1 /\ faults < MaxFaults /\ faults' = faults + 1
    BY <1>13, Zenon DEF Restart, Fault
  <2>2. certs' \in 1 .. faults' + 1 /\ faults' \in 0 .. MaxFaults
    <3>1. faults \in 0 .. MaxFaults /\ certs \in 1 .. faults + 1
      BY DEF TypeOK
    <3> QED  BY <1>0, <2>1, <3>1
  <2>3. PassTypes'
    <3>1. at' \in 1 .. Len(InstallOrder)
      BY <1>13, Orders DEF Restart
    <3> QED  BY <1>13, <3>1 DEF Restart, TypeOK, PassTypes
  <2> QED  BY <1>13, <2>2, <2>3 DEF Restart, TypeOK, PassTypes, clusterVars
<1>14. CASE Resync
  BY <1>14 DEF Resync, TypeOK, clusterVars, copyVars
<1>15. CASE RemoveClusterScoped
  <2>1. PICK o \in ClusterScoped : objs' = [objs EXCEPT ![o] = 0]
    BY <1>15, KubeEnforcerAssumption, Zenon DEF RemoveClusterScoped
  <2>2. objs' \in [Objects -> 0 .. MaxFaults + 1]
    <3>1. objs \in [Objects -> 0 .. MaxFaults + 1] /\ 0 \in 0 .. MaxFaults + 1
      BY <1>0 DEF TypeOK
    <3> QED  BY <2>1, <3>1, Zenon
  <2>3. UNCHANGED certs /\ faults' \in faults .. MaxFaults
    BY <1>0, <1>15 DEF RemoveClusterScoped, Fault, TypeOK
  <2>4. certs' \in 1 .. faults' + 1 /\ faults' \in 0 .. MaxFaults
    BY <2>3, Counters
  <2> QED  BY <1>15, <2>2, <2>4 DEF RemoveClusterScoped, TypeOK, copyVars, passVars
<1>16. CASE UNCHANGED vars
  BY <1>16 DEF TypeOK, vars, clusterVars, copyVars, passVars
<1> QED
  BY <1>1, <1>2, <1>3, <1>4, <1>5, <1>6, <1>7, <1>8, <1>9, <1>10, <1>11, <1>12, <1>13,
     <1>14, <1>15, <1>16 DEF Next, Reconcile

\* The variables of the kube-enforcer's controller keep their types.
THEOREM TypeCorrect == Spec => []TypeOK
BY TypeInit, TypeStep, PTL DEF Spec

-----------------------------------------------------------------------------
(* The finalizer. *)

\* Nothing is installed or deleted at first.
LEMMA FinalizerInit == Init => FinalizerInv
<1> SUFFICES ASSUME Init PROVE FinalizerInv
  OBVIOUS
<1>1. cr.phase = "live" /\ ~cr.finalizer /\ seen = cr /\ inst = cr
  BY DEF Init
<1>2. \A o \in Objects : objs[o] = 0
  BY DEF Init
<1>3. ClusterScoped \subseteq Objects
  BY Orders
<1>4. pc = "idle" /\ ~instFresh /\ ~finalized
  BY Zenon DEF Init
<1>5. NoOrphans
  BY <1>2, <1>3 DEF NoOrphans
<1> QED  BY <1>1, <1>4, <1>5 DEF FinalizerInv

\* A write of the state leaves alone what the finalizer goes by.
LEMMA StateWrite ==
  ASSUME TypeOK, NEW s, StoreState(s)
  PROVE  cr'.phase = cr.phase /\ cr'.finalizer = cr.finalizer /\ (fresh' => fresh /\ cr' = cr)
<1>1. cr' = [cr EXCEPT !.state = s] \/ cr' = cr
  BY Zenon DEF StoreState, Store, Conflict, CallFails
<1>2. fresh' => fresh /\ cr' = cr
  <2>1. CASE Store([cr EXCEPT !.state = s])
    BY <2>1, Zenon DEF Store
  <2>2. CASE Conflict \/ CallFails
    BY <2>2, Zenon DEF Conflict, CallFails
  <2> QED  BY <2>1, <2>2, Zenon DEF StoreState
<1>3. cr \in CR
  BY DEF TypeOK
<1> QED  BY <1>1, <1>2, <1>3 DEF CR

\* The end of a pass, with the resource and its objects as they were.
LEMMA FinishInv ==
  ASSUME TypeOK, FinalizerInv, NEW r, Finish(r),
         UNCHANGED <<seen, objs, finalized>>,
         cr'.phase = cr.phase /\ cr'.finalizer = cr.finalizer /\ (fresh' => fresh /\ cr' = cr)
  PROVE  FinalizerInv'
BY Zenon DEF FinalizerInv, Finish, NoOrphans, Held

\* A step that leaves alone what the invariant is about.
LEMMA Untouched ==
  ASSUME TypeOK, FinalizerInv, UNCHANGED <<cr, seen, fresh, inst, instFresh, pc, at, finalized>>,
         \A o \in ClusterScoped : objs'[o] = objs[o]
  PROVE  FinalizerInv'
<1>1. \A i \in DOMAIN FinalizeOrder : objs'[FinalizeOrder[i]] = objs[FinalizeOrder[i]]
  BY Orders
<1> QED  BY <1>1, Zenon DEF FinalizerInv, NoOrphans, Held

\* Every step keeps the finalizer's invariant.
LEMMA FinalizerStep == TypeOK /\ FinalizerInv /\ [Next]_vars => FinalizerInv'
<1> SUFFICES ASSUME TypeOK, FinalizerInv, [Next]_vars
             PROVE  FinalizerInv'
  OBVIOUS
<1>1. CASE Fetch
  <2>1. /\ UNCHANGED <<cr, objs, seen, fresh, finalized>>
        /\ inst' = seen /\ (instFresh' => fresh) /\ at' = 1
        /\ \/ seen.phase = "live" /\ pc' = "finalizer"
           \/ seen.phase = "deleting" /\ pc' = "finalize"
           \/ seen.phase = "gone" /\ pc' = "idle"
    BY <1>1, Zenon DEF Fetch, clusterVars, copyVars
  <2>2. \A i \in DOMAIN FinalizeOrder : ~(i < 1)
    BY Orders
  <2> QED  BY <2>1, <2>2 DEF FinalizerInv, NoOrphans, Held
<1>2. CASE AddFinalizer
  <2>1. UNCHANGED <<objs, seen, finalized>> /\ ~finalized /\ inst.phase = "live" /\ pc = "finalizer"
    BY <1>2 DEF AddFinalizer, FinalizerInv
  <2>2. CASE inst.finalizer /\ GoTo("pending") /\ UNCHANGED <<cr, fresh, faults>>
    BY <2>1, <2>2 DEF GoTo, FinalizerInv, NoOrphans, Held
  <2>3. CASE /\ ~inst.finalizer /\ Store([cr EXCEPT !.finalizer = TRUE])
             /\ inst' = [inst EXCEPT !.finalizer = TRUE]
             /\ pc' = "pending" /\ UNCHANGED <<queued, at, instFresh>>
    <3>1. instFresh /\ cr' = [cr EXCEPT !.finalizer = TRUE] /\ (fresh' => fresh /\ cr' = cr)
      BY <2>3, Zenon DEF Store
    <3>2. cr.phase = "live"
      BY <2>1, <3>1 DEF FinalizerInv
    <3>3. cr'.phase = cr.phase /\ cr'.finalizer /\ inst'.phase = inst.phase
      BY <2>3, <3>1 DEF TypeOK, CR
    <3>4. Held'
      BY <3>2, <3>3 DEF Held
    <3> QED  BY <2>1, <2>3, <3>1, <3>2, <3>3, <3>4 DEF FinalizerInv, NoOrphans
  <2>4. CASE (Conflict \/ CallFails) /\ Finish(TRUE)
    <3>1. UNCHANGED <<cr, fresh>>
      BY <2>4 DEF Conflict, CallFails
    <3> QED  BY <2>1, <2>4, <3>1, FinishInv
  <2> QED  BY <1>2, <2>2, <2>3, <2>4, Zenon DEF AddFinalizer
<1>3. CASE MarkPending
  <2>1. /\ UNCHANGED <<objs, seen, finalized, instFresh>> /\ pc = "pending" /\ pc' = "install"
        /\ inst' = inst \/ inst' = [inst EXCEPT !.state = "Pending"]
        /\ StoreState("Pending") \/ UNCHANGED <<cr, fresh>>
    BY <1>3, Zenon DEF MarkPending
  <2>2. cr'.phase = cr.phase /\ cr'.finalizer = cr.finalizer /\ (fresh' => fresh /\ cr' = cr)
    BY <2>1, StateWrite
  <2>3. inst'.phase = inst.phase
    BY <2>1 DEF TypeOK, CR
  <2> QED  BY <2>1, <2>2, <2>3 DEF FinalizerInv, NoOrphans, Held
<1>4. CASE InstallObject
  <2>1. UNCHANGED <<cr, seen, fresh, finalized, inst, instFresh, pc>> /\ pc = "install"
    BY <1>4 DEF InstallObject, Advance, copyVars
  <2> QED  BY <2>1 DEF FinalizerInv, NoOrphans, Held
<1>5. CASE InstallDeployment
  <2>1. UNCHANGED <<seen, finalized>> /\ pc = "install" /\ Finish(FALSE)
    BY <1>5 DEF InstallDeployment
  <2>2. StoreState(StateFor(podsSeen, inst.state)) \/ UNCHANGED <<cr, fresh>>
    BY <1>5, Zenon DEF InstallDeployment
  <2>3. cr'.phase = cr.phase /\ cr'.finalizer = cr.finalizer /\ (fresh' => fresh /\ cr' = cr)
    BY <2>2, StateWrite
  <2> QED  BY <2>1, <2>3, Zenon DEF Finish, FinalizerInv, NoOrphans, Held
<1>6. CASE KubeEnforcerFinalizer
  <2>1. UNCHANGED <<cr, seen, fresh>> /\ pc = "finalize" /\ seen.phase # "live"
    BY <1>6 DEF KubeEnforcerFinalizer, copyVars, FinalizerInv
  <2>2. CASE DeleteObject(FinalizeOrder[at]) /\ NextFinalized
    <3>1. UNCHANGED <<inst, instFresh>> /\ objs' = [objs EXCEPT ![FinalizeOrder[at]] = 0]
      BY <2>2, Zenon DEF DeleteObject, NextFinalized, Advance, GoTo
    <3>2. \A o \in Objects : objs'[o] = IF o = FinalizeOrder[at] THEN 0 ELSE objs[o]
      BY <3>1 DEF TypeOK
    <3>3. NoOrphans'
      BY <2>1, <3>2, Orders DEF FinalizerInv, NoOrphans, Held
    <3>4. CASE at < Len(FinalizeOrder)
      <4>1. pc' = pc /\ at' = at + 1
        BY <2>2, <3>4 DEF NextFinalized, Advance
      <4>2. \A i \in 1 .. 5 : i < at + 1 => i < at \/ i = at
        BY Orders DEF TypeOK
      <4>3. \A i \in DOMAIN FinalizeOrder : i < at' => objs'[FinalizeOrder[i]] = 0
        BY <2>1, <3>2, <4>1, <4>2, Orders DEF FinalizerInv
      <4> QED  BY <2>1, <3>1, <3>3, <4>1, <4>3 DEF FinalizerInv, Held
    <3>5. CASE ~(at < Len(FinalizeOrder))
      <4>1. pc' = "release"
        BY <2>2, <3>5 DEF NextFinalized, GoTo
      <4>2. \A i \in 1 .. 5 : i < at \/ i = at
        BY <3>5, Orders DEF TypeOK
      <4>3. \A i \in 1 .. 5 : objs'[FinalizeOrder[i]] = 0
        BY <2>1, <3>2, <4>2, Orders DEF FinalizerInv
      <4>4. \A o \in ClusterScoped : objs'[o] = 0
        BY <4>3, Orders
      <4> QED  BY <2>1, <3>1, <3>3, <4>1, <4>4 DEF FinalizerInv, Held
    <3> QED  BY <3>4, <3>5
  <2>3. CASE DeleteFails(FinalizeOrder[at]) /\ Finish(TRUE)
    BY <2>1, <2>3, FinishInv DEF DeleteFails
  <2> QED  BY <1>6, <2>2, <2>3, Zenon DEF KubeEnforcerFinalizer
<1>7. CASE RemoveFinalizer
  <2>1. UNCHANGED <<objs, seen, finalized>> /\ pc = "release" /\ Finish(TRUE)
    BY <1>7 DEF RemoveFinalizer
  <2>2. CASE Store([cr EXCEPT !.phase = "gone", !.finalizer = FALSE])
    <3>1. cr' = [cr EXCEPT !.phase = "gone", !.finalizer = FALSE] /\ (fresh' => fresh /\ cr' = cr)
      BY <2>2, Zenon DEF Store
    <3>2. cr'.phase = "gone"
      BY <3>1 DEF TypeOK, CR
    <3>3. pc' = "idle" /\ ~instFresh' /\ inst' = seen
      BY <2>1, Zenon DEF Finish
    <3>4. NoOrphans'
      BY <2>1 DEF FinalizerInv, NoOrphans
    <3> QED  BY <2>1, <3>1, <3>2, <3>3, <3>4 DEF FinalizerInv, Held
  <2>3. CASE Conflict \/ CallFails
    <3>1. UNCHANGED <<cr, fresh>>
      BY <2>3 DEF Conflict, CallFails
    <3> QED  BY <2>1, <3>1, FinishInv
  <2> QED  BY <1>7, <2>2, <2>3 DEF RemoveFinalizer
<1>8. CASE Delete
  <2>1. /\ cr.phase = "live"
        /\ cr' = [cr EXCEPT !.phase = IF cr.finalizer THEN "deleting" ELSE "gone"]
        /\ ~fresh' /\ ~instFresh' /\ UNCHANGED <<objs, seen, pc, at, inst, finalized>>
    BY <1>8, Zenon DEF Delete
  <2>2. cr'.phase # "live" /\ (Held => Held')
    BY <2>1 DEF Held, TypeOK, CR
  <2> QED  BY <2>1, <2>2, Zenon DEF FinalizerInv, NoOrphans
<1>9. CASE GarbageCollect
  <2>1. \A o \in ClusterScoped : objs'[o] = objs[o]
    BY <1>9, Orders DEF GarbageCollect, Namespaced
  <2> QED  BY <1>9, <2>1, Untouched DEF GarbageCollect, copyVars, passVars
<1>10. CASE PodsChange
  BY <1>10, Untouched DEF PodsChange, copyVars, passVars
<1>11. CASE DeliverCR
  <2>1. seen' = cr /\ UNCHANGED <<cr, objs, inst, instFresh, pc, at, finalized>>
    BY <1>11, Zenon DEF DeliverCR, clusterVars
  <2> QED  BY <2>1, Zenon DEF FinalizerInv, NoOrphans, Held
<1>12. CASE \E o \in Objects : DeliverObject(o)
  BY <1>12, Untouched DEF DeliverObject, clusterVars
<1>13. CASE Restart
  <2>1. /\ UNCHANGED <<cr, objs, finalized>>
        /\ seen' = cr /\ inst' = cr /\ ~instFresh' /\ pc' = "idle"
    BY <1>13, Zenon DEF Restart, clusterVars
  <2> QED  BY <2>1, Zenon DEF FinalizerInv, NoOrphans, Held
<1>14. CASE Resync
  BY <1>14, Untouched DEF Resync, clusterVars, copyVars
<1>15. CASE RemoveClusterScoped
  <2>1. PICK o \in ClusterScoped : objs' = [objs EXCEPT ![o] = 0]
    BY <1>15, KubeEnforcerAssumption, Zenon DEF RemoveClusterScoped
  <2>2. \A p \in ClusterScoped : objs'[p] = objs[p] \/ objs'[p] = 0
    BY <2>1, Orders DEF TypeOK
  <2>3. NoOrphans' /\ (pc = "release" => \A p \in ClusterScoped : objs'[p] = 0)
    BY <1>15, <2>2 DEF RemoveClusterScoped, FinalizerInv, NoOrphans, Held
  <2>4. pc = "finalize" => \A i \in DOMAIN FinalizeOrder : i < at => objs'[FinalizeOrder[i]] = 0
    <3>1. \A i \in DOMAIN FinalizeOrder : FinalizeOrder[i] \in ClusterScoped
      BY Orders
    <3> QED  BY <2>2, <3>1, Zenon DEF FinalizerInv
  <2>5. UNCHANGED <<cr, seen, fresh, inst, instFresh, pc, at, finalized>>
    BY <1>15, Zenon DEF RemoveClusterScoped, copyVars, passVars
  <2> QED  BY <2>3, <2>4, <2>5, Zenon DEF FinalizerInv, Held
<1>16. CASE UNCHANGED vars
  BY <1>16, Untouched DEF vars, clusterVars, copyVars, passVars
<1> QED
  BY <1>1, <1>2, <1>3, <1>4, <1>5, <1>6, <1>7, <1>8, <1>9, <1>10, <1>11, <1>12, <1>13,
     <1>14, <1>15, <1>16 DEF Next, Reconcile

\* The finalizer's invariant holds, whatever is deleted, fails, restarts or is out of date.
THEOREM FinalizerInvariant == Spec => []FinalizerInv
<1>1. Init => TypeOK /\ FinalizerInv
  BY TypeInit, FinalizerInit
<1>2. TypeOK /\ FinalizerInv /\ [Next]_vars => (TypeOK /\ FinalizerInv)'
  BY TypeStep, FinalizerStep
<1> QED  BY <1>1, <1>2, PTL DEF Spec

\* No webhook or RBAC object of the cluster outlives the resource and its finalizer.
THEOREM NothingLeftBehind == Spec => []NoOrphans
<1>1. FinalizerInv => NoOrphans
  BY DEF FinalizerInv
<1> QED  BY <1>1, FinalizerInvariant, PTL

\* After the finalizer's first deletion no step creates an object of the cluster.
THEOREM NothingComesBack == Spec => NoRecreation
<1> DEFINE Stays == finalized => \A o \in ClusterScoped : objs[o] = 0 => objs'[o] = 0
<1>1. TypeOK /\ FinalizerInv /\ [Next]_vars => [Stays]_vars
  <2> SUFFICES ASSUME TypeOK, FinalizerInv, Next, finalized, NEW o \in ClusterScoped, objs[o] = 0
               PROVE  objs'[o] = 0
    BY Zenon
  <2>1. pc # "install"
    BY DEF FinalizerInv
  <2>2. CASE UNCHANGED objs
    BY <2>2
  <2>3. CASE KubeEnforcerFinalizer
    BY <2>3, Orders DEF KubeEnforcerFinalizer, DeleteObject, DeleteFails, TypeOK
  <2>4. CASE GarbageCollect
    BY <2>4, Orders DEF GarbageCollect, Namespaced
  <2>5. CASE RemoveClusterScoped
    BY <2>5, Orders DEF RemoveClusterScoped, TypeOK
  <2>6. KubeEnforcerFinalizer \/ GarbageCollect \/ RemoveClusterScoped \/ UNCHANGED objs
    BY <2>1, Zenon DEF Next, Reconcile, Fetch, AddFinalizer, MarkPending, InstallObject,
       InstallDeployment, RemoveFinalizer, Delete, PodsChange, DeliverCR, DeliverObject, Restart,
       Resync, clusterVars
  <2> QED  BY <2>2, <2>3, <2>4, <2>5, <2>6
<1>2. Spec => []TypeOK /\ []FinalizerInv
  BY TypeCorrect, FinalizerInvariant
<1> QED  BY <1>1, <1>2, PTL DEF Spec, NoRecreation
=============================================================================
