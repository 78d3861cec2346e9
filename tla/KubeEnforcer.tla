---------------------------- MODULE KubeEnforcer ----------------------------
(***************************************************************************)
(* The controller of KhulnasoftKubeEnforcer, the admission webhook of the   *)
(* product: what it installs beside its Deployment, and how it takes it     *)
(* away again.  The webhook configurations and the RBAC objects are         *)
(* cluster-scoped: no owner reference removes them with the resource, so    *)
(* a finalizer does.  The webhooks' CA bundle and the SSL secret hold one    *)
(* server certificate, which the operator makes anew each time it starts;   *)
(* every object is created once, when it is not found.                      *)
(*                                                                         *)
(* Not modelled: the ServiceAccount, Role, RoleBinding, ConfigMap, token    *)
(* secret, Service and KhulnasoftStarboard, which are got or created the    *)
(* same way, without a say in what is modelled; edits of the spec and their *)
(* approval, which follow module Operand; a second resource of that kind.   *)
(***************************************************************************)
EXTENDS Naturals, Sequences

CONSTANTS
  Reader,     \* the platform is OpenShift and has the cluster-reader role
  Replicas,   \* of the spec's deploy section, 0 when there is none
  MayDelete,  \* the user may delete the resource
  Removable,  \* the cluster-scoped objects that someone else may delete
  MaxFaults   \* bound on failed calls, restarts and such deletions

\* The objects of a pass, in the order it makes them, and those the finalizer deletes.
InstallOrder ==
  <<"clusterRole", "reader", "binding", "validating", "mutating", "ssl", "deployment">>
FinalizeOrder == <<"validating", "mutating", "binding", "reader", "clusterRole">>

Objects       == {InstallOrder[i] : i \in DOMAIN InstallOrder}
ClusterScoped == {FinalizeOrder[i] : i \in DOMAIN FinalizeOrder}
Namespaced    == Objects \ ClusterScoped

ASSUME KubeEnforcerAssumption ==
  /\ Reader \in BOOLEAN /\ Replicas \in Nat /\ MayDelete \in BOOLEAN /\ MaxFaults \in Nat
  /\ Removable \subseteq ClusterScoped

Certified     == {"validating", "mutating", "ssl"}
Wanted        == IF Reader THEN Objects ELSE Objects \ {"reader"}

Settled == {"Running", "EnforcerUpdateInProgress", "PendingApproval"}
State   == Settled \union {"", "Pending"}

\* Pods of the Deployment: Status.Replicas and Status.ReadyReplicas.
Pods == [total : 0 .. 1, ready : 0 .. 1]

VARIABLES
  cr,          \* the resource: phase, finalizer, state
  objs,        \* start of the operator whose certificates an object holds, 0: none
  pods,        \* of the Deployment
  seen, fresh, objsSeen, podsSeen,   \* the informers' copies
  certs,       \* which start of the operator this is: its certificates
  queued, pc, at, inst, instFresh,   \* the pass: at is its place in the order
  finalized,   \* history: the finalizer has deleted an object
  faults

clusterVars == <<cr, objs, pods>>
copyVars    == <<seen, fresh, objsSeen, podsSeen>>
passVars    == <<queued, pc, at, inst, instFresh>>
vars == <<clusterVars, copyVars, certs, passVars, finalized, faults>>

CR == [phase : {"live", "deleting", "gone"}, finalizer : BOOLEAN, state : State]

TypeOK ==
  /\ cr \in CR /\ seen \in CR /\ inst \in CR
  /\ objs \in [Objects -> 0 .. MaxFaults + 1] /\ objsSeen \in [Objects -> 0 .. MaxFaults + 1]
  /\ pods \in Pods /\ podsSeen \in Pods
  /\ certs \in 1 .. faults + 1  \* each restart is a fault
  /\ fresh \in BOOLEAN /\ queued \in BOOLEAN /\ instFresh \in BOOLEAN
  /\ pc \in {"idle", "finalizer", "pending", "install", "finalize", "release"}
  /\ at \in 1 .. Len(InstallOrder)
  /\ finalized \in BOOLEAN
  /\ faults \in 0 .. MaxFaults

NoPods == [total |-> 0, ready |-> 0]

Init ==
  /\ cr = [phase |-> "live", finalizer |-> FALSE, state |-> ""]
  /\ objs = [o \in Objects |-> 0] /\ pods = NoPods
  /\ seen = cr /\ fresh = TRUE /\ objsSeen = objs /\ podsSeen = pods
  /\ certs = 1
  /\ queued = TRUE /\ pc = "idle" /\ at = 1 /\ inst = cr /\ instFresh = FALSE
  /\ finalized = FALSE /\ faults = 0

-----------------------------------------------------------------------------
Fault == faults < MaxFaults /\ faults' = faults + 1

Finish(requeue) ==
  /\ pc' = "idle" /\ at' = 1 /\ queued' = (queued \/ requeue)
  /\ inst' = seen /\ instFresh' = FALSE

GoTo(step) == pc' = step /\ at' = 1 /\ UNCHANGED <<queued, inst, instFresh>>
Advance    == at' = at + 1 /\ UNCHANGED <<pc, queued, inst, instFresh>>

\* A write of the resource goes through when no one has written it since it was read.
Store(new) == instFresh /\ cr' = new /\ fresh' = (fresh /\ new = cr) /\ UNCHANGED faults
Conflict   == ~instFresh /\ UNCHANGED <<cr, fresh, faults>>
CallFails  == Fault /\ UNCHANGED <<cr, fresh>>

\* ... with its error ignored.
StoreState(s) == Store([cr EXCEPT !.state = s]) \/ Conflict \/ CallFails

Fetch ==
  /\ pc = "idle" /\ queued
  /\ inst' = seen /\ instFresh' = fresh /\ at' = 1 /\ queued' = FALSE
  /\ \/ seen.phase = "live" /\ pc' = "finalizer"
     \/ seen.phase = "deleting" /\ pc' = "finalize"
     \/ seen.phase = "gone" /\ pc' = "idle"
  /\ UNCHANGED <<clusterVars, copyVars, certs, finalized, faults>>

\* Mutant: an error of the write is only logged.
AddFinalizer_Unchecked ==
  /\ pc = "finalizer"
  /\ \/ ~inst.finalizer /\ (Store([cr EXCEPT !.finalizer = TRUE]) \/ Conflict \/ CallFails)
     \/ inst.finalizer /\ UNCHANGED <<cr, fresh, faults>>
  /\ inst' = [inst EXCEPT !.finalizer = TRUE]
  /\ pc' = "pending" /\ UNCHANGED <<queued, at, instFresh>>
  /\ UNCHANGED <<objs, pods, seen, objsSeen, podsSeen, certs, finalized>>

\* controllerutil.AddFinalizer and r.Update: an error ends the pass.
AddFinalizer ==
  /\ pc = "finalizer"
  /\ \/ /\ inst.finalizer
        /\ GoTo("pending") /\ UNCHANGED <<cr, fresh, faults>>
     \/ /\ ~inst.finalizer /\ Store([cr EXCEPT !.finalizer = TRUE])
        /\ inst' = [inst EXCEPT !.finalizer = TRUE]
        /\ pc' = "pending" /\ UNCHANGED <<queued, at, instFresh>>
     \/ ~inst.finalizer /\ (Conflict \/ CallFails) /\ Finish(TRUE)
  /\ UNCHANGED <<objs, pods, seen, objsSeen, podsSeen, certs, finalized>>

MarkPending ==
  /\ pc = "pending"
  /\ IF inst.state \in Settled
       THEN UNCHANGED <<cr, fresh, faults, inst>>
       ELSE StoreState("Pending") /\ inst' = [inst EXCEPT !.state = "Pending"]
  /\ pc' = "install" /\ at' = 1
  /\ UNCHANGED <<objs, pods, seen, objsSeen, podsSeen, certs, queued, instFresh, finalized>>

-----------------------------------------------------------------------------
(* Installing. *)

\* What a new object holds; only some hold certificates.
Content(o) == IF o \in Certified THEN certs ELSE 1

\* Mutant: the mutating webhook is looked up under the validating one's name.
LookUp_Copied(o) == IF o = "mutating" THEN objsSeen["validating"] ELSE objsSeen[o]

\* Client.Get, from the informer's copy.
LookUp(o) == objsSeen[o]

\* Get or create.  The error of a failed Create is dropped: Reconcile ignores the
\* result that asks for another pass.
GetOrCreate(o) ==
  \/ /\ o \in Wanted /\ LookUp(o) = 0 /\ objs[o] = 0
     /\ objs' = [objs EXCEPT ![o] = Content(o)] /\ UNCHANGED faults
  \/ /\ o \in Wanted /\ LookUp(o) = 0
     /\ (objs[o] # 0 /\ UNCHANGED faults) \/ Fault
     /\ UNCHANGED objs
  \/ (o \in Wanted => LookUp(o) # 0) /\ UNCHANGED <<objs, faults>>

\* Everything that comes before the Deployment.
InstallObject ==
  /\ pc = "install" /\ at < Len(InstallOrder)
  /\ GetOrCreate(InstallOrder[at]) /\ Advance
  /\ UNCHANGED <<cr, pods, copyVars, certs, finalized>>

\* IsDeploymentReady; the Deployment leaves its replicas to the API server.
Ready(p) == p.total = p.ready /\ p.ready = Replicas

\* Mutant: the state of a Deployment is reported as by the other controllers.
StateFor_Deployment(p, current) ==
  CASE Ready(p) -> "Running"
    [] ~Ready(p) /\ current # "Pending" -> "UpdateInProgress"
    [] OTHER -> current

\* Mutant: nothing ends a progress.
StateFor_Sticky(p, current) ==
  CASE Ready(p) /\ current \notin {"Pending", "EnforcerUpdateInProgress"} -> "Running"
    [] ~Ready(p) /\ current # "Pending" -> "EnforcerUpdateInProgress"
    [] OTHER -> current

StateFor(p, current) ==
  CASE Ready(p) -> "Running"
    [] ~Ready(p) /\ current # "Pending" -> "EnforcerUpdateInProgress"
    [] OTHER -> current

\* addKEDeployment: get or create, else report the state.  The pass is over.
InstallDeployment ==
  /\ pc = "install" /\ at = Len(InstallOrder)
  /\ IF LookUp("deployment") = 0
       THEN GetOrCreate("deployment") /\ UNCHANGED <<cr, fresh>>
       ELSE /\ IF StateFor(podsSeen, inst.state) # inst.state
                 THEN StoreState(StateFor(podsSeen, inst.state))
                 ELSE UNCHANGED <<cr, fresh, faults>>
            /\ UNCHANGED objs
  /\ Finish(FALSE)
  /\ UNCHANGED <<pods, seen, objsSeen, podsSeen, certs, finalized>>

-----------------------------------------------------------------------------
(* Finalizing. *)

DeleteObject(o) ==
  /\ LookUp(o) # 0 /\ objs[o] # 0
  /\ objs' = [objs EXCEPT ![o] = 0] /\ finalized' = TRUE /\ UNCHANGED faults

\* An object that was not found is deleted all the same, by its empty name.
DeleteFails(o) ==
  /\ ((LookUp(o) = 0 \/ objs[o] = 0) /\ UNCHANGED faults) \/ Fault
  /\ UNCHANGED <<objs, finalized>>

NextFinalized ==
  IF at < Len(FinalizeOrder) THEN Advance ELSE GoTo("release")

\* Mutant: the errors of the finalizer are only logged.
KubeEnforcerFinalizer_Unchecked ==
  /\ pc = "finalize"
  /\ DeleteObject(FinalizeOrder[at]) \/ DeleteFails(FinalizeOrder[at])
  /\ NextFinalized
  /\ UNCHANGED <<cr, pods, copyVars, certs>>

\* Mutant: after an error of the finalizer the pass goes on as for a live resource.
KubeEnforcerFinalizer_FallsThrough ==
  /\ pc = "finalize"
  /\ \/ DeleteObject(FinalizeOrder[at]) /\ NextFinalized
     \/ DeleteFails(FinalizeOrder[at]) /\ GoTo("pending")
  /\ UNCHANGED <<cr, pods, copyVars, certs>>

\* Client.Get and Client.Delete of one object after the other; an error ends the pass.
KubeEnforcerFinalizer ==
  /\ pc = "finalize"
  /\ \/ DeleteObject(FinalizeOrder[at]) /\ NextFinalized
     \/ DeleteFails(FinalizeOrder[at]) /\ Finish(TRUE)
  /\ UNCHANGED <<cr, pods, copyVars, certs>>

\* controllerutil.RemoveFinalizer and r.Update; the API server lets the resource go.
RemoveFinalizer ==
  /\ pc = "release"
  /\ \/ Store([cr EXCEPT !.phase = "gone", !.finalizer = FALSE])
     \/ Conflict \/ CallFails
  /\ Finish(TRUE)
  /\ UNCHANGED <<objs, pods, seen, objsSeen, podsSeen, certs, finalized>>

Reconcile ==
  \/ Fetch \/ AddFinalizer \/ MarkPending \/ InstallObject \/ InstallDeployment
  \/ KubeEnforcerFinalizer \/ RemoveFinalizer

-----------------------------------------------------------------------------
(* The user, the cluster, the informers, and what goes wrong. *)

\* Without the finalizer the resource is gone at once.
Delete ==
  /\ MayDelete /\ cr.phase = "live"
  /\ cr' = [cr EXCEPT !.phase = IF cr.finalizer THEN "deleting" ELSE "gone"]
  /\ fresh' = FALSE /\ instFresh' = FALSE
  /\ UNCHANGED <<objs, pods, seen, objsSeen, podsSeen, certs, queued, pc, at, inst,
                 finalized, faults>>

\* Owner references remove what has a namespace.
GarbageCollect ==
  /\ cr.phase = "gone" /\ \E o \in Namespaced : objs[o] # 0
  /\ objs' = [o \in Objects |-> IF o \in Namespaced THEN 0 ELSE objs[o]]
  /\ pods' = NoPods
  /\ UNCHANGED <<cr, copyVars, certs, passVars, finalized, faults>>

\* Someone else deletes a webhook or an RBAC object of the cluster.  No request for the
\* resource comes of it.
RemoveClusterScoped ==
  /\ Fault /\ \E o \in Removable : objs[o] # 0 /\ objs' = [objs EXCEPT ![o] = 0]
  /\ UNCHANGED <<cr, pods, copyVars, certs, passVars, finalized>>

\* One replica: the Deployment names no number.
PodsChange ==
  /\ objs["deployment"] # 0
  /\ \E r \in 0 .. 1 : pods' = [total |-> 1, ready |-> r]
  /\ pods' # pods
  /\ UNCHANGED <<cr, objs, copyVars, certs, passVars, finalized, faults>>

DeliverCR ==
  /\ ~fresh /\ seen' = cr /\ fresh' = TRUE /\ queued' = TRUE
  /\ UNCHANGED <<clusterVars, objsSeen, podsSeen, certs, pc, at, inst, instFresh,
                 finalized, faults>>

\* A cluster-scoped object's event names a request without a namespace, which finds
\* no resource.
DeliverObject(o) ==
  /\ objsSeen[o] # objs[o] \/ (o = "deployment" /\ podsSeen # pods)
  /\ objsSeen' = [objsSeen EXCEPT ![o] = objs[o]]
  /\ podsSeen' = IF o = "deployment" THEN pods ELSE podsSeen
  /\ queued' = (queued \/ o \in Namespaced)
  /\ UNCHANGED <<clusterVars, seen, fresh, certs, pc, at, inst, instFresh,
                 finalized, faults>>

\* The operator starts anew: with current copies and new certificates.
Restart ==
  /\ Fault
  /\ certs' = certs + 1
  /\ seen' = cr /\ fresh' = TRUE /\ objsSeen' = objs /\ podsSeen' = pods
  /\ pc' = "idle" /\ at' = 1 /\ queued' = TRUE /\ inst' = cr /\ instFresh' = FALSE
  /\ UNCHANGED <<clusterVars, finalized>>

Resync ==
  /\ ~queued /\ queued' = TRUE
  /\ UNCHANGED <<clusterVars, copyVars, certs, pc, at, inst, instFresh,
                 finalized, faults>>

Next ==
  \/ Reconcile
  \/ Delete \/ GarbageCollect \/ RemoveClusterScoped \/ PodsChange
  \/ DeliverCR \/ (\E o \in Objects : DeliverObject(o))
  \/ Restart \/ Resync

Spec == Init /\ [][Next]_vars

FairSpec == Spec /\ WF_vars(Reconcile) /\ WF_vars(DeliverCR) /\ WF_vars(Resync)
                 /\ \A o \in Objects : WF_vars(DeliverObject(o))

-----------------------------------------------------------------------------
(* Properties. *)

Held == cr.phase # "gone" /\ cr.finalizer

\* Nothing is left behind: while a webhook or an RBAC object of the cluster exists,
\* so does the resource, with the finalizer that takes them away.
NoOrphans == (\E o \in ClusterScoped : objs[o] # 0) => Held

\* The inductive invariant behind it: which copies, and which places of a pass, vouch
\* for the finalizer, and which come only after the deletion.
FinalizerInv ==
  /\ NoOrphans
  /\ fresh => seen = cr
  /\ instFresh => inst.phase = cr.phase
  /\ seen.phase # "live" => cr.phase # "live"
  /\ seen.phase = "live" /\ seen.finalizer => Held
  /\ pc = "finalizer" => inst.phase = "live" /\ (inst.finalizer => Held)
  /\ pc \in {"pending", "install"} => Held
  /\ pc \in {"finalize", "release"} => seen.phase # "live"
  /\ pc = "finalize" => \A i \in DOMAIN FinalizeOrder : i < at => objs[FinalizeOrder[i]] = 0
  /\ pc = "release" => \A o \in ClusterScoped : objs[o] = 0
  /\ finalized => seen.phase # "live" /\ pc \in {"idle", "finalize", "release"}

\* Once the finalizer has begun, no pass under way or to come makes an object of the
\* cluster again.
NoRecreation ==
  [][finalized => \A o \in ClusterScoped : objs[o] = 0 => objs'[o] = 0]_vars

\* A resource that stays gets all its objects, whatever Creates failed and whoever
\* deleted one: no event of a cluster-scoped object asks for a pass, so the resync does.
InstallConverges ==
  <>[](cr.phase = "live") => <>[](\A o \in Wanted : objs[o] # 0)

\* Once the pods are ready and stay ready, the state becomes Running and stays it.
StateSettles ==
  <>[](cr.phase = "live" /\ pods.total = 1 /\ pods.ready = 1) => <>[](cr.state = "Running")

\* What the comments of Reconcile say of a deletion ("so that we can retry during the
\* next reconciliation", "the object will be deleted"): it ends.
DeletionCompletes == cr.phase = "deleting" ~> cr.phase = "gone"

\* What createKECerts makes, one CA and one server certificate ("set up our CA
\* certificate", "set up our server certificate"), is what the objects hold: the
\* webhooks trust the certificate that the SSL secret gives the server.
CertsMatch ==
  \A o, p \in Certified : objs[o] # 0 /\ objs[p] # 0 => objs[o] = objs[p]
=============================================================================
