------------------------------ MODULE Starboard -----------------------------
(***************************************************************************)
(* The KhulnasoftStarboard controller.  A pass of Reconcile fills in the    *)
(* defaults of the spec, marks the resource Pending and gets or creates the *)
(* RBAC objects, two ConfigMaps, the token secret and the deployment, three *)
(* of which it also compares and updates.  Most of its creations return a  *)
(* request to requeue instead of their error, which Reconcile does not look *)
(* at, and the ConfigMaps are created one a pass, so that what is missing   *)
(* is left to a later pass that some watch has to start.                    *)
(*                                                                         *)
(* The KhulnasoftKubeEnforcer controller stores the specs of the resource,  *)
(* over and over and without the defaults, and it makes a binding that the  *)
(* guard of this controller's own cluster reader binding looks at.  New     *)
(* versions of the operator want other contents of the objects compared.    *)
(*                                                                         *)
(* Not modelled: Status.Nodes; the deletion of the resource; deletion or    *)
(* changes of the objects by users; CreateImagePullSecret, never called.    *)
(***************************************************************************)
EXTENDS Naturals, FiniteSets

CONSTANTS
  OpenShift,   \* the platform, where the cluster role cluster-reader exists
  OtherReader, \* the kube-enforcer's cluster reader binding exists from the start
  Wants,       \* what the specs may ask of the deployment
  FirstWants,  \* ... and the first of them
  MaxEvents    \* bound on the specs stored, new versions, failed calls and restarts

ASSUME StarboardAssumption ==
  /\ OpenShift \in BOOLEAN /\ OtherReader \in BOOLEAN
  /\ FirstWants \subseteq Wants /\ 0 \notin Wants
  /\ MaxEvents \in Nat

ClusterScoped == {"clusterRole", "reader", "binding"}
Namespaced    == {"sa", "policies", "config", "secret", "deployment"}
Object        == ClusterScoped \union Namespaced
Compared      == {"clusterRole", "config"}   \* by content; the deployment with its spec

\* What a pass looks at after each object.
After == [clusterRole |-> "sa", sa |-> "reader", reader |-> "binding",
          binding |-> "policies", policies |-> "config", config |-> "secret",
          secret |-> "deployment"]

Settled == {"Running", "UpdateInProgress"}
State   == Settled \union {"", "Pending"}

CR == [want : Wants, filled : BOOLEAN, state : State]

\* A deployment: the version of the operator whose template and ConfigMap checksum it
\* has, and the spec it was made for.
Template(version, want) == [version |-> version, want |-> want]
NoTemplate == [version |-> 0, want |-> 0]

VARIABLES
  \* --- in the API server and the cluster
  cr,        \* the KhulnasoftStarboard
  made,      \* the version of the operator that an object's content is of, 0: none
  dep,       \* the deployment's template
  ready,     \* IsDeploymentReady of its status
  \* --- the informers' copies
  seen, fresh, madeSeen, depSeen, readySeen,
  \* --- the controller
  version, queued, pc, inst, instFresh,
  \* --- bookkeeping
  changes, faults

clusterVars == <<cr, made, dep, ready>>
copyVars    == <<seen, fresh, madeSeen, depSeen, readySeen>>
passVars    == <<queued, pc, inst, instFresh>>
vars == <<clusterVars, copyVars, passVars, version, changes, faults>>

Version == 0 .. MaxEvents + 1

TypeOK ==
  /\ cr \in CR /\ seen \in CR /\ inst \in CR
  /\ made \in [Object -> Version] /\ madeSeen \in [Object -> Version]
  /\ dep \in {NoTemplate} \union [version : Version, want : Wants]
  /\ depSeen \in {NoTemplate} \union [version : Version, want : Wants]
  /\ {ready, readySeen} \subseteq BOOLEAN
  /\ {fresh, queued, instFresh} \subseteq BOOLEAN
  /\ version \in Version \ {0}
  /\ pc \in {"idle", "defaults", "pending"} \union Object
  /\ changes \in 0 .. MaxEvents /\ faults \in 0 .. MaxEvents

Init ==
  /\ cr \in [want : FirstWants, filled : {FALSE}, state : {""}]
  /\ made = [o \in Object |-> 0] /\ dep = NoTemplate /\ ready = FALSE
  /\ seen = cr /\ fresh = TRUE /\ madeSeen = made /\ depSeen = dep /\ readySeen = ready
  /\ version = 1
  /\ queued = TRUE /\ pc = "idle" /\ inst = cr /\ instFresh = FALSE
  /\ changes = 0 /\ faults = 0

-----------------------------------------------------------------------------
(* Writes. *)

MoreEvents == changes + faults < MaxEvents
Fault == MoreEvents /\ faults' = faults + 1

\* Mutant: writes carry no resource version and always go through.
StoreCR_Unversioned(new) ==
  cr' = new /\ fresh' = (fresh /\ new = cr) /\ UNCHANGED faults

\* A write of the resource whose error is ignored.
StoreCR(new) ==
  \/ instFresh /\ cr' = new /\ fresh' = (fresh /\ new = cr) /\ UNCHANGED faults
  \/ ~instFresh /\ UNCHANGED <<cr, fresh, faults>>
  \/ Fault /\ UNCHANGED <<cr, fresh>>

StoreState(s) == StoreCR([cr EXCEPT !.state = s])

Finish(requeue) ==
  /\ pc' = "idle" /\ queued' = (queued \/ requeue)
  /\ inst' = seen /\ instFresh' = FALSE

GoTo(step) == pc' = step /\ UNCHANGED <<queued, inst, instFresh>>

\* Creation is refused when the object exists though the copy does not show it yet.
Created(o)     == made[o] = 0 /\ made' = [made EXCEPT ![o] = version] /\ UNCHANGED faults
CreateFails(o) == ((made[o] # 0 /\ UNCHANGED faults) \/ Fault) /\ UNCHANGED made

Updated(o)     == made' = [made EXCEPT ![o] = version] /\ UNCHANGED faults
UpdateFails(o) == Fault /\ UNCHANGED made

-----------------------------------------------------------------------------
(* The steps of Reconcile. *)

Fetch ==
  /\ pc = "idle" /\ queued
  /\ inst' = seen /\ instFresh' = fresh
  /\ queued' = FALSE /\ pc' = "defaults"
  /\ UNCHANGED <<clusterVars, copyVars, version, changes, faults>>

\* updateStarboardObject and r.Client.Update(instance): the whole spec goes back.
FillDefaults ==
  /\ pc = "defaults"
  /\ StoreCR([inst EXCEPT !.filled = TRUE, !.state = cr.state])
  /\ inst' = [inst EXCEPT !.filled = TRUE]
  /\ pc' = "pending"
  /\ UNCHANGED <<made, dep, ready, seen, madeSeen, depSeen, readySeen, queued, instFresh, version, changes>>

MarkPending ==
  /\ pc = "pending"
  /\ IF inst.state \in Settled
       THEN UNCHANGED <<cr, fresh, faults, inst>>
       ELSE StoreState("Pending") /\ inst' = [inst EXCEPT !.state = "Pending"]
  /\ pc' = "clusterRole"
  /\ UNCHANGED <<made, dep, ready, seen, madeSeen, depSeen, readySeen, queued, instFresh, version, changes>>

\* A step that is about objects other than the deployment.
Rest == UNCHANGED <<cr, dep, ready, copyVars, version, changes>>

\* Mutant: an object that an older operator has made is left as it is.
CreateOrUpdate_Once(o) ==
  \/ madeSeen[o] = 0 /\ (Created(o) \/ CreateFails(o)) /\ GoTo(After[o])
  \/ madeSeen[o] # 0 /\ GoTo(After[o]) /\ UNCHANGED <<made, faults>>

\* Get or create, whose error is dropped, or compare and update, whose error is not.
CreateOrUpdate(o) ==
  \/ madeSeen[o] = 0 /\ (Created(o) \/ CreateFails(o)) /\ GoTo(After[o])
  \/ madeSeen[o] \notin {0, version} /\ Updated(o) /\ GoTo(After[o])
  \/ madeSeen[o] \notin {0, version} /\ UpdateFails(o) /\ Finish(TRUE)
  \/ madeSeen[o] = version /\ GoTo(After[o]) /\ UNCHANGED <<made, faults>>

AddClusterRole == pc = "clusterRole" /\ CreateOrUpdate(pc) /\ Rest

\* Here an error of the creation ends the pass.
CreateServiceAccount ==
  /\ pc = "sa" /\ Rest
  /\ \/ madeSeen[pc] = 0 /\ Created(pc) /\ GoTo(After[pc])
     \/ madeSeen[pc] = 0 /\ CreateFails(pc) /\ Finish(TRUE)
     \/ madeSeen[pc] # 0 /\ GoTo(After[pc]) /\ UNCHANGED <<made, faults>>

\* The guard asks whether the KUBE-ENFORCER's binding exists.
ReaderWanted == OpenShift /\ ~OtherReader

CreateClusterReaderRoleBinding ==
  /\ pc = "reader" /\ Rest /\ GoTo(After[pc])
  /\ \/ ReaderWanted /\ madeSeen[pc] = 0 /\ (Created(pc) \/ CreateFails(pc))
     \/ (ReaderWanted => madeSeen[pc] # 0) /\ UNCHANGED <<made, faults>>

\* The cluster role binding and the secret: an error of the creation is dropped.
AddOnce ==
  /\ pc \in {"binding", "secret"} /\ Rest /\ GoTo(After[pc])
  /\ \/ madeSeen[pc] = 0 /\ (Created(pc) \/ CreateFails(pc))
     \/ madeSeen[pc] # 0 /\ UNCHANGED <<made, faults>>

\* The first ConfigMap, which has no data to compare.  When it is missing the function
\* returns, with an error or without, before it comes to the second.
AddPoliciesConfigMap ==
  /\ pc = "policies" /\ Rest
  /\ \/ madeSeen[pc] = 0 /\ (Created(pc) \/ CreateFails(pc)) /\ GoTo("secret")
     \/ madeSeen[pc] # 0 /\ GoTo(After[pc]) /\ UNCHANGED <<made, faults>>

AddConfigMap == pc = "config" /\ CreateOrUpdate(pc) /\ Rest

\* What the pass wants the deployment to be, its checksum included.
WantedDeployment == Template(version, inst.want)

StoreDeployment ==
  /\ dep' = WantedDeployment /\ ready' = FALSE
  /\ made' = [made EXCEPT !["deployment"] = version]

CreateDeployment ==
  /\ madeSeen["deployment"] = 0
  /\ \/ made["deployment"] = 0 /\ StoreDeployment /\ UNCHANGED faults
     \/ CreateFails("deployment") /\ UNCHANGED <<dep, ready>>
  /\ Finish(FALSE) /\ UNCHANGED <<cr, fresh>>

UpdateDeployment ==
  /\ madeSeen["deployment"] # 0 /\ depSeen # WantedDeployment
  /\ \/ StoreDeployment /\ Finish(FALSE) /\ UNCHANGED faults
     \/ Fault /\ Finish(TRUE) /\ UNCHANGED <<made, dep, ready>>
  /\ UNCHANGED <<cr, fresh>>

\* Mutant: the tests the other way round, so that nothing ends a progress.
StateFor_Sticky(isReady, current) ==
  IF current \in {"Pending", "UpdateInProgress"} THEN current
    ELSE IF isReady THEN "Running" ELSE "UpdateInProgress"

\* Mutant: once Running, always Running.
StateFor_Optimist(isReady, current) ==
  IF isReady \/ current = "Running" THEN "Running"
    ELSE IF current \in {"Pending", "UpdateInProgress"} THEN current ELSE "UpdateInProgress"

\* Mutant: the state of the enforcers' controllers.
StateFor_Enforcer(isReady, current) ==
  IF isReady THEN "Running"
    ELSE IF current = "Pending" THEN current ELSE "EnforcerUpdateInProgress"

StateFor(isReady, current) ==
  IF isReady THEN "Running"
    ELSE IF current \in {"Pending", "UpdateInProgress"} THEN current ELSE "UpdateInProgress"

ReportState ==
  /\ madeSeen["deployment"] # 0 /\ depSeen = WantedDeployment
  /\ IF StateFor(readySeen, inst.state) # inst.state
       THEN StoreState(StateFor(readySeen, inst.state))
       ELSE UNCHANGED <<cr, fresh, faults>>
  /\ Finish(FALSE) /\ UNCHANGED <<made, dep, ready>>

AddDeployment ==
  /\ pc = "deployment"
  /\ CreateDeployment \/ UpdateDeployment \/ ReportState
  /\ UNCHANGED <<seen, madeSeen, depSeen, readySeen,
                 version, changes>>

Reconcile ==
  \/ Fetch \/ FillDefaults \/ MarkPending
  \/ AddClusterRole \/ CreateServiceAccount \/ CreateClusterReaderRoleBinding \/ AddOnce
  \/ AddPoliciesConfigMap \/ AddConfigMap \/ AddDeployment

-----------------------------------------------------------------------------
(* The other controllers, the cluster and the informers, and what goes wrong. *)

\* installKhulnasoftStarboard stores another replica count, or its whole spec, which
\* has no defaults and so differs from the stored one whenever it looks; or a user does.
StoreSpec ==
  /\ MoreEvents /\ changes' = changes + 1
  /\ \E w \in Wants, f \in {FALSE, cr.filled} :
       /\ <<w, f>> # <<cr.want, cr.filled>>
       /\ cr' = [cr EXCEPT !.want = w, !.filled = f]
  /\ fresh' = FALSE /\ instFresh' = FALSE
  /\ UNCHANGED <<made, dep, ready, seen, madeSeen, depSeen, readySeen, queued, pc, inst, version, faults>>

PodsChange ==
  /\ made["deployment"] # 0 /\ ready' = ~ready
  /\ UNCHANGED <<cr, made, dep, copyVars, passVars, version, changes, faults>>

Delivered == UNCHANGED <<clusterVars, pc, inst, instFresh, version, changes, faults>>

DeliverCR ==
  /\ ~fresh /\ seen' = cr /\ fresh' = TRUE /\ queued' = TRUE
  /\ Delivered /\ UNCHANGED <<madeSeen, depSeen, readySeen>>

\* Mutant: the controller does not own its ConfigMaps, and has no watch on them.
Wakes_NoConfigMaps(o) == o \in Namespaced \ {"policies", "config"}

\* The event of an object of the cluster asks for its owner in no namespace, which
\* no pass finds.
Wakes(o) == o \in Namespaced

\* An informer has the objects of one kind, and its copies are of one moment.
Kind == {{"clusterRole"}, {"reader", "binding"}, {"sa"}, {"policies", "config"}, {"secret"}}

DeliverKind(kind) ==
  LET news == {o \in kind : madeSeen[o] # made[o]} IN
  /\ news # {}
  /\ madeSeen' = [o \in Object |-> IF o \in kind THEN made[o] ELSE madeSeen[o]]
  /\ queued' = (queued \/ \E o \in news : Wakes(o))
  /\ Delivered /\ UNCHANGED <<seen, fresh, depSeen, readySeen>>

DeliverDeployment ==
  /\ <<madeSeen["deployment"], depSeen, readySeen>> # <<made["deployment"], dep, ready>>
  /\ madeSeen' = [madeSeen EXCEPT !["deployment"] = made["deployment"]]
  /\ depSeen' = dep /\ readySeen' = ready /\ queued' = TRUE
  /\ Delivered /\ UNCHANGED <<seen, fresh>>

Started ==
  /\ seen' = cr /\ fresh' = TRUE /\ madeSeen' = made /\ depSeen' = dep /\ readySeen' = ready
  /\ pc' = "idle" /\ queued' = TRUE /\ inst' = cr /\ instFresh' = FALSE
  /\ UNCHANGED clusterVars

Restart == Fault /\ Started /\ UNCHANGED <<version, changes>>
Upgrade ==
  /\ MoreEvents /\ changes' = changes + 1 /\ version' = version + 1
  /\ Started /\ UNCHANGED faults

Resync == ~queued /\ queued' = TRUE /\ Delivered /\ UNCHANGED copyVars

Next ==
  \/ Reconcile
  \/ StoreSpec \/ PodsChange
  \/ DeliverCR \/ (\E kind \in Kind : DeliverKind(kind)) \/ DeliverDeployment
  \/ Restart \/ Upgrade \/ Resync

Spec == Init /\ [][Next]_vars

\* The work queue and the watches go on; nothing is asked of users or pods.
FairSpec == Spec /\ WF_vars(Reconcile) /\ WF_vars(Resync)
                 /\ WF_vars(DeliverCR) /\ WF_vars(DeliverDeployment)
                 /\ \A kind \in Kind : WF_vars(DeliverKind(kind))

-----------------------------------------------------------------------------
(* Properties. *)

AtRest ==
  /\ pc = "idle" /\ ~queued /\ fresh /\ madeSeen = made /\ depSeen = dep
  /\ readySeen = ready

Installed ==
  /\ \A o \in Object \ {"reader"} : made[o] # 0
  /\ \A o \in Compared : made[o] = version
  /\ dep = Template(version, cr.want)

\* At rest every object is there and is that of the operator's version and of the
\* stored spec, which has its defaults: each creation that was refused, and the second
\* ConfigMap, which the first pass does not come to, was made good by a pass that some
\* watch has started.  (A call that fails otherwise is made good by the resync alone.)
RestMeansInstalled == AtRest /\ faults = 0 => Installed /\ cr.filled

\* ... and the state is the one the deployment's status asks for.
RestMeansReported ==
  AtRest /\ faults = 0 =>
    IF ready THEN cr.state = "Running" ELSE cr.state \in {"Pending", "UpdateInProgress"}

\* The controller stores a whole spec with its defaults while another controller keeps
\* storing its own, and yet never takes back what that one has asked for.
NoLostSpec == [][cr'.want # cr.want => changes' = changes + 1]_vars

\* The installation ends, whatever calls failed, and so does an upgrade.
InstallConverges == <>[]Installed

\* Once the deployment stays ready, the state becomes Running for good.
StateSettles == <>[](Installed /\ ready) => <>[](cr.state = "Running")

\* "KhulnasoftStarboardSAClusterReaderRoleBind is Openshift cluster role binding between
\* khulnasoft-starboard-sa and ClusterReaderRole": on OpenShift, at rest, there is one.
RestMeansReader == AtRest /\ faults = 0 /\ OpenShift => made["reader"] # 0
=============================================================================
