--------------------------- MODULE StarboardProofs ---------------------------
(* What holds of the Starboard controller on either platform, for every set *)
(* of specs and every number of edits, upgrades and faults.                  *)
EXTENDS Starboard, TLAPS

-----------------------------------------------------------------------------
(* Types. *)

\* The operator starts in a new version by one of the changes.
CountInv == version <= changes + 1

Steps == {"defaults", "pending"} \union Object

ResourceTypes == cr \in CR /\ fresh \in BOOLEAN
PassTypes == queued \in BOOLEAN /\ pc \in {"idle"} \union Steps /\ inst \in CR /\ instFresh \in BOOLEAN
ObjectTypes == made \in [Object -> Version]
CountTypes == faults \in 0 .. MaxEvents

Deployments == {NoTemplate} \union [version : Version, want : Wants]

LEMMA FaultType ==
  ASSUME TypeOK, Fault \/ UNCHANGED faults
  PROVE  CountTypes'
<1>1. MaxEvents \in Nat
  BY StarboardAssumption
<1> QED  BY <1>1 DEF TypeOK, Fault, MoreEvents, CountTypes

\* A write of the resource, whatever comes of it.
LEMMA StoreType ==
  ASSUME TypeOK, NEW new \in CR, StoreCR(new)
  PROVE  ResourceTypes' /\ CountTypes'
<1>1. cr' \in CR /\ fresh' \in BOOLEAN
  BY DEF TypeOK, StoreCR
<1>2. Fault \/ UNCHANGED faults
  BY DEF StoreCR
<1> QED  BY <1>1, <1>2, FaultType DEF ResourceTypes

LEMMA StoreStateType ==
  ASSUME TypeOK, NEW s \in State, StoreState(s)
  PROVE  ResourceTypes' /\ CountTypes'
<1>1. [cr EXCEPT !.state = s] \in CR
  BY DEF TypeOK, CR
<1> QED  BY <1>1, StoreType DEF StoreState

LEMMA PassType ==
  ASSUME TypeOK
  PROVE  /\ \A r \in BOOLEAN : Finish(r) => PassTypes'
         /\ \A step \in Steps : GoTo(step) => PassTypes'
BY DEF TypeOK, Finish, GoTo, PassTypes, Steps

\* Where the pass goes on.
LEMMA AfterType ==
  /\ DOMAIN After = Object \ {"deployment"}
  /\ \A o \in Object \ {"deployment"} : After[o] \in Object \ {"clusterRole"}
  /\ "secret" \in Steps /\ "clusterRole" \in Steps /\ Object \subseteq Steps
BY DEF After, Object, ClusterScoped, Namespaced, Steps

\* Any step that is about one object other than the deployment.
Single(o) ==
  /\ (Created(o) \/ CreateFails(o) \/ Updated(o) \/ UpdateFails(o) \/ UNCHANGED <<made, faults>>)
  /\ (GoTo(After[o]) \/ GoTo("secret") \/ Finish(TRUE))
  /\ Rest

LEMMA SingleSteps ==
  ASSUME AddClusterRole \/ CreateServiceAccount \/ CreateClusterReaderRoleBinding
           \/ AddOnce \/ AddPoliciesConfigMap \/ AddConfigMap
  PROVE  pc \in Object \ {"deployment"} /\ Single(pc)
<1>1. CASE AddClusterRole
  BY <1>1 DEF AddClusterRole, CreateOrUpdate, Single, Object, ClusterScoped
<1>2. CASE CreateServiceAccount
  BY <1>2 DEF CreateServiceAccount, Single, Object, Namespaced
<1>3. CASE CreateClusterReaderRoleBinding
  BY <1>3 DEF CreateClusterReaderRoleBinding, Single, Object, ClusterScoped
<1>4. CASE AddOnce
  BY <1>4 DEF AddOnce, Single, Object, ClusterScoped, Namespaced
<1>5. CASE AddPoliciesConfigMap
  BY <1>5 DEF AddPoliciesConfigMap, Single, Object, Namespaced
<1>6. CASE AddConfigMap
  BY <1>6 DEF AddConfigMap, CreateOrUpdate, Single, Object, Namespaced
<1> QED  BY <1>1, <1>2, <1>3, <1>4, <1>5, <1>6

LEMMA SingleType ==
  ASSUME TypeOK, NEW o \in Object \ {"deployment"}, Single(o)
  PROVE  ObjectTypes' /\ PassTypes' /\ CountTypes'
<1>1. ObjectTypes'
  BY DEF TypeOK, Single, Created, CreateFails, Updated, UpdateFails, ObjectTypes
<1>2. Fault \/ UNCHANGED faults
  BY DEF Single, Created, CreateFails, Updated, UpdateFails
<1>3. PassTypes'
  BY PassType, AfterType DEF Single
<1> QED  BY <1>1, <1>2, <1>3, FaultType

LEMMA DeploymentType ==
  ASSUME TypeOK, AddDeployment
  PROVE  /\ ResourceTypes' /\ CountTypes' /\ PassTypes' /\ ObjectTypes'
         /\ dep' \in Deployments /\ ready' \in BOOLEAN
<1>1. "deployment" \in Object /\ WantedDeployment \in Deployments /\ dep \in Deployments
  BY DEF TypeOK, Object, Namespaced, WantedDeployment, Template, Deployments, CR
<1>2. Finish(TRUE) \/ Finish(FALSE)
  BY DEF AddDeployment, CreateDeployment, UpdateDeployment, ReportState
<1>3. PassTypes'
  BY <1>2, PassType
<1>4. CASE CreateDeployment \/ UpdateDeployment
  <2>1. Fault \/ UNCHANGED faults
    BY <1>4 DEF CreateDeployment, UpdateDeployment, CreateFails
  <2>2. StoreDeployment \/ UNCHANGED <<made, dep, ready>>
    BY <1>4 DEF CreateDeployment, UpdateDeployment, CreateFails
  <2>3. ObjectTypes' /\ dep' \in Deployments /\ ready' \in BOOLEAN
    BY <1>1, <2>2 DEF StoreDeployment, TypeOK, ObjectTypes
  <2>4. ResourceTypes'
    BY <1>4 DEF CreateDeployment, UpdateDeployment, TypeOK, ResourceTypes
  <2> QED  BY <1>3, <2>1, <2>3, <2>4, FaultType
<1>5. CASE ReportState
  <2>1. StateFor(readySeen, inst.state) \in State
    BY DEF StateFor, TypeOK, CR, State, Settled
  <2>2. ResourceTypes' /\ CountTypes'
    BY <1>5, <2>1, StoreStateType DEF ReportState, TypeOK, ResourceTypes, CountTypes
  <2> QED  BY <1>1, <1>3, <1>5, <2>2 DEF ReportState, TypeOK, ObjectTypes
<1> QED  BY <1>4, <1>5 DEF AddDeployment

LEMMA TypeInit == Init => TypeOK /\ CountInv
<1> SUFFICES ASSUME Init
             PROVE  TypeOK /\ CountInv
  OBVIOUS
<1>1. cr \in CR
  BY StarboardAssumption DEF Init, CR, State
<1>2. made \in [Object -> Version] /\ version \in Version \ {0} /\ 0 \in 0 .. MaxEvents
  <2>1. 0 \in Version /\ 1 \in Version \ {0} /\ 0 \in 0 .. MaxEvents
    BY StarboardAssumption DEF Version
  <2>2. made = [o \in Object |-> 0] /\ version = 1
    BY DEF Init
  <2> QED  BY <2>1, <2>2
<1>3. seen \in CR /\ inst \in CR /\ madeSeen \in [Object -> Version]
  BY <1>1, <1>2 DEF Init
<1>4. /\ dep = NoTemplate /\ depSeen = NoTemplate
      /\ {ready, readySeen} \subseteq BOOLEAN /\ {fresh, queued, instFresh} \subseteq BOOLEAN
      /\ pc = "idle" /\ changes = 0 /\ faults = 0
  BY DEF Init
<1>5. version = 1
  BY DEF Init
<1> QED  BY <1>1, <1>2, <1>3, <1>4, <1>5, StarboardAssumption DEF TypeOK, CountInv

LEMMA TypeStep == TypeOK /\ CountInv /\ [Next]_vars => TypeOK' /\ CountInv'
<1> SUFFICES ASSUME TypeOK, CountInv, [Next]_vars
             PROVE  TypeOK' /\ CountInv'
  OBVIOUS
<1> USE DEF clusterVars, copyVars, passVars
<1>1. CASE Fetch
  BY <1>1 DEF TypeOK, CountInv, Fetch
<1>2. CASE FillDefaults
  <2>1. [inst EXCEPT !.filled = TRUE, !.state = cr.state] \in CR /\ inst' \in CR
    BY <1>2 DEF TypeOK, FillDefaults, CR
  <2>2. ResourceTypes' /\ CountTypes'
    BY <1>2, <2>1, StoreType DEF FillDefaults
  <2> QED  BY <1>2, <2>1, <2>2 DEF TypeOK, CountInv, FillDefaults, ResourceTypes, CountTypes
<1>3. CASE MarkPending
  <2>1. inst' \in CR
    BY <1>3 DEF TypeOK, MarkPending, CR, State
  <2>2. "Pending" \in State
    BY DEF State
  <2>3. ResourceTypes' /\ CountTypes'
    BY <1>3, <2>2, StoreStateType DEF MarkPending, ResourceTypes, CountTypes, TypeOK
  <2> QED  BY <1>3, <2>1, <2>3 DEF TypeOK, CountInv, MarkPending, ResourceTypes, CountTypes, Object, ClusterScoped
<1>4. CASE AddClusterRole \/ CreateServiceAccount \/ CreateClusterReaderRoleBinding
             \/ AddOnce \/ AddPoliciesConfigMap \/ AddConfigMap
  <2>1. pc \in Object \ {"deployment"} /\ Single(pc)
    BY <1>4, SingleSteps
  <2>2. ObjectTypes' /\ PassTypes' /\ CountTypes'
    BY <2>1, SingleType
  <2>3. Rest
    BY <2>1 DEF Single
  <2> QED  BY <2>2, <2>3 DEF TypeOK, CountInv, Rest, ObjectTypes, PassTypes, CountTypes, Steps
<1>5. CASE AddDeployment
  <2>1. UNCHANGED <<seen, madeSeen, depSeen, readySeen, version, changes>>
    BY <1>5 DEF AddDeployment
  <2> QED  BY <1>5, <2>1, DeploymentType
           DEF TypeOK, CountInv, ResourceTypes, CountTypes, PassTypes, ObjectTypes, Deployments, Steps
<1>6. CASE StoreSpec
  <2>1. cr' \in CR
    BY <1>6 DEF StoreSpec, TypeOK, CR
  <2>2. changes' \in 0 .. MaxEvents /\ changes' = changes + 1 /\ version \in Nat
    BY <1>6, StarboardAssumption DEF StoreSpec, MoreEvents, TypeOK, Version
  <2>3. fresh' = FALSE /\ instFresh' = FALSE
        /\ UNCHANGED <<made, dep, ready, seen, madeSeen, depSeen, readySeen, queued, pc, inst, version, faults>>
    BY <1>6 DEF StoreSpec
  <2>4. CountInv'
    <3>1. changes \in Nat
      BY DEF TypeOK
    <3> QED  BY <2>2, <2>3, <3>1 DEF CountInv
  <2> QED  BY <2>1, <2>2, <2>3, <2>4 DEF TypeOK
<1>7. CASE PodsChange
  BY <1>7 DEF PodsChange, TypeOK, CountInv
<1>8. CASE DeliverCR \/ DeliverDeployment \/ Resync
  BY <1>8 DEF DeliverCR, DeliverDeployment, Resync, Delivered, TypeOK, CountInv
<1>9. ASSUME NEW kind \in Kind, DeliverKind(kind)
      PROVE  TypeOK' /\ CountInv'
  <2>1. madeSeen' \in [Object -> Version]
    BY <1>9 DEF DeliverKind, TypeOK
  <2>2. queued' \in BOOLEAN
    BY <1>9 DEF DeliverKind
  <2>3. UNCHANGED <<seen, fresh, depSeen, readySeen, clusterVars, pc, inst, instFresh, version, changes, faults>>
    BY <1>9 DEF DeliverKind, Delivered
  <2> QED  BY <2>1, <2>2, <2>3 DEF TypeOK, CountInv
<1>10. CASE Restart
  <2>1. CountTypes'
    BY <1>10, FaultType DEF Restart
  <2> QED  BY <1>10, <2>1 DEF Restart, Started, TypeOK, CountInv, CountTypes
<1>11. CASE Upgrade
  <2>1. changes' \in 0 .. MaxEvents /\ changes' = changes + 1 /\ version' = version + 1
    BY <1>11, StarboardAssumption DEF Upgrade, MoreEvents, TypeOK
  <2>2. version' \in Version \ {0} /\ version' <= changes' + 1
    BY <2>1, StarboardAssumption DEF TypeOK, CountInv, Version
  <2> QED  BY <1>11, <2>1, <2>2 DEF Upgrade, Started, TypeOK, CountInv
<1>12. CASE UNCHANGED vars
  BY <1>12 DEF vars, TypeOK, CountInv
<1> QED
  BY <1>1, <1>2, <1>3, <1>4, <1>5, <1>6, <1>7, <1>8, <1>9, <1>10, <1>11, <1>12 DEF Next, Reconcile

\* The variables of the Starboard controller keep their types.
THEOREM TypeCorrect == Spec => []TypeOK
BY TypeInit, TypeStep, PTL DEF Spec

-----------------------------------------------------------------------------
(* The inductive invariant. *)

\* A copy that is not that of the object stored is late for what this version has made.
VersionInv == \A o \in Object : madeSeen[o] # made[o] => made[o] = version

\* What the versions say: an informer's copy that is fresh is the stored resource, and an
\* instance whose writes go through asks for what is stored.
FreshInv ==
  /\ fresh => seen = cr
  /\ instFresh => inst.want = cr.want

\* The object is there and of this version, or the pass went round it because of the
\* first ConfigMap, whose event is still to come.
Made(o) ==
  \/ made[o] # 0 /\ (o \in Compared => made[o] = version)
  \/ o = "config" /\ madeSeen["policies"] # made["policies"]

\* The objects behind each step.
Behind(step) ==
  CASE step = "sa" -> {"clusterRole"}
    [] step \in {"reader", "binding"} -> {"clusterRole", "sa"}
    [] step = "policies" -> {"clusterRole", "sa", "binding"}
    [] step = "config" -> {"clusterRole", "sa", "binding", "policies"}
    [] step = "secret" -> {"clusterRole", "sa", "binding", "policies", "config"}
    [] step = "deployment" -> {"clusterRole", "sa", "binding", "policies", "config", "secret"}
    [] OTHER -> {}

\* While nothing has happened that another pass would be queued for, this one goes by the
\* stored resource, and the steps behind it have left their objects.
PassInv ==
  pc # "idle" /\ ~queued /\ fresh /\ faults = 0 =>
    /\ instFresh /\ inst = cr
    /\ pc # "defaults" => inst.filled
    /\ \A o \in Behind(pc) : Made(o)

\* The state tells the deployment's status.
Told(isReady) ==
  IF isReady THEN cr.state = "Running" ELSE cr.state \in {"Pending", "UpdateInProgress"}

DeploymentSeen == madeSeen["deployment"] = made["deployment"] /\ depSeen = dep

\* ... and so it is when the pass is over.
RestInv ==
  pc = "idle" /\ ~queued /\ fresh /\ faults = 0 =>
    /\ cr.filled
    /\ \A o \in Behind("deployment") : Made(o)
    /\ DeploymentSeen => /\ made["deployment"] # 0 /\ dep = Template(version, cr.want)
                         /\ Told(readySeen)

IInv == CountInv /\ VersionInv /\ FreshInv /\ PassInv /\ RestInv

LEMMA InitInv == Init => VersionInv /\ FreshInv /\ PassInv /\ RestInv
BY DEF Init, VersionInv, FreshInv, PassInv, RestInv

LEMMA NoFault ==
  ASSUME TypeOK, faults' = 0
  PROVE  ~Fault
BY DEF TypeOK, Fault

\* A write of the resource changes what the informer shows, or nothing.
LEMMA StoreEffect ==
  ASSUME TypeOK, NEW new \in CR, StoreCR(new)
  PROVE  /\ fresh' => fresh /\ cr' = cr
         /\ cr' = cr \/ (instFresh /\ cr' = new)
         /\ faults' = 0 => faults = 0 /\ (instFresh => cr' = new)
<1>1. CASE instFresh /\ cr' = new /\ fresh' = (fresh /\ new = cr) /\ UNCHANGED faults
  <2>1. fresh' => fresh /\ new = cr
    BY <1>1, Zenon
  <2> QED  BY <1>1, <2>1
<1>2. CASE ~instFresh /\ UNCHANGED <<cr, fresh, faults>>
  BY <1>2
<1>3. CASE Fault /\ UNCHANGED <<cr, fresh>>
  BY <1>3, NoFault
<1> QED  BY <1>1, <1>2, <1>3 DEF StoreCR

LEMMA StoreStateEffect ==
  ASSUME TypeOK, NEW s \in State, StoreState(s)
  PROVE  /\ fresh' => fresh /\ cr' = cr
         /\ cr'.want = cr.want /\ cr'.filled = cr.filled
         /\ faults' = 0 => faults = 0 /\ (instFresh => cr'.state = s /\ cr' = [cr EXCEPT !.state = s])
<1> DEFINE new == [cr EXCEPT !.state = s]
<1>1. cr \in CR
  BY DEF TypeOK
<1>2. new \in CR /\ new.want = cr.want /\ new.filled = cr.filled /\ new.state = s
  BY <1>1 DEF CR
<1>3. StoreCR(new)
  BY DEF StoreState
<1> HIDE DEF new
<1>4. /\ fresh' => fresh /\ cr' = cr
      /\ cr' = cr \/ (instFresh /\ cr' = new)
      /\ faults' = 0 => faults = 0 /\ (instFresh => cr' = new)
  BY <1>2, <1>3, StoreEffect
<1>5. cr'.want = cr.want /\ cr'.filled = cr.filled
  BY <1>2, <1>4
<1>6. faults' = 0 /\ instFresh => cr'.state = s /\ cr' = new
  BY <1>2, <1>4
<1> QED  BY <1>4, <1>5, <1>6 DEF new

LEMMA FillDefaultsEffect ==
  ASSUME TypeOK, FreshInv, FillDefaults
  PROVE  /\ fresh' => fresh /\ cr' = cr
         /\ cr'.want = cr.want /\ inst'.want = inst.want
         /\ inst'.filled
         /\ faults' = 0 => faults = 0 /\ (instFresh /\ inst = cr => inst' = cr')
<1> DEFINE new == [inst EXCEPT !.filled = TRUE, !.state = cr.state]
<1>1. cr \in CR /\ inst \in CR
  BY DEF TypeOK
<1>2. new \in CR /\ new.want = inst.want
  BY <1>1 DEF CR
<1>3. StoreCR(new) /\ inst' = [inst EXCEPT !.filled = TRUE]
  BY DEF FillDefaults
<1>4. inst'.want = inst.want /\ inst'.filled
  BY <1>1, <1>3 DEF CR
<1>5. inst = cr => new = inst'
  BY <1>1, <1>3 DEF CR
<1> HIDE DEF new
<1>6. /\ fresh' => fresh /\ cr' = cr
      /\ cr' = cr \/ (instFresh /\ cr' = new)
      /\ faults' = 0 => faults = 0 /\ (instFresh => cr' = new)
  BY <1>2, <1>3, StoreEffect
<1> QED  BY <1>2, <1>4, <1>5, <1>6 DEF FreshInv

LEMMA MarkPendingEffect ==
  ASSUME TypeOK, MarkPending
  PROVE  /\ fresh' => fresh /\ cr' = cr
         /\ cr'.want = cr.want /\ inst'.want = inst.want /\ inst'.filled = inst.filled
         /\ faults' = 0 => faults = 0 /\ (instFresh /\ inst = cr => inst' = cr')
<1>1. CASE inst.state \in Settled
  BY <1>1 DEF MarkPending
<1>2. CASE inst.state \notin Settled
  <2>1. StoreState("Pending") /\ inst' = [inst EXCEPT !.state = "Pending"] /\ "Pending" \in State
    BY <1>2 DEF MarkPending, State
  <2>2. inst'.want = inst.want /\ inst'.filled = inst.filled
    BY <2>1 DEF TypeOK, CR
  <2> QED  BY <2>1, <2>2, StoreStateEffect
<1> QED  BY <1>1, <1>2

-----------------------------------------------------------------------------
(* What becomes of the specs. *)

\* The steps of a pass that do not write the resource.
LEMMA OnlyObjects ==
  ASSUME Fetch \/ Rest \/ PodsChange \/ DeliverDeployment \/ Resync
           \/ (\E kind \in Kind : DeliverKind(kind))
  PROVE  UNCHANGED <<cr, seen, fresh>>
BY DEF Fetch, Rest, PodsChange, DeliverKind, DeliverDeployment, Resync, Delivered, clusterVars, copyVars

LEMMA RestSteps ==
  AddClusterRole \/ CreateServiceAccount \/ CreateClusterReaderRoleBinding
    \/ AddOnce \/ AddPoliciesConfigMap \/ AddConfigMap => Rest
BY SingleSteps DEF Single

LEMMA DeploymentEffect ==
  ASSUME TypeOK, AddDeployment
  PROVE  /\ seen' = seen
         /\ fresh' => fresh /\ cr' = cr
         /\ cr'.want = cr.want /\ cr'.filled = cr.filled
         /\ pc' = "idle" /\ instFresh' = FALSE
<1>1. Finish(TRUE) \/ Finish(FALSE)
  BY DEF AddDeployment, CreateDeployment, UpdateDeployment, ReportState
<1>2. CASE CreateDeployment \/ UpdateDeployment
  BY <1>1, <1>2 DEF AddDeployment, CreateDeployment, UpdateDeployment, Finish
<1>3. CASE ReportState
  <2>1. StateFor(readySeen, inst.state) \in State
    BY DEF StateFor, TypeOK, CR, State, Settled
  <2>2. fresh' => fresh /\ cr' = cr
    BY <1>3, <2>1, StoreStateEffect DEF ReportState
  <2>3. cr'.want = cr.want /\ cr'.filled = cr.filled
    BY <1>3, <2>1, StoreStateEffect DEF ReportState
  <2> QED  BY <1>1, <2>2, <2>3 DEF AddDeployment, Finish
<1> QED  BY <1>2, <1>3 DEF AddDeployment

LEMMA FreshStep == TypeOK /\ FreshInv /\ [Next]_vars => FreshInv'
<1> SUFFICES ASSUME TypeOK, FreshInv, [Next]_vars
             PROVE  FreshInv'
  OBVIOUS
<1> USE DEF FreshInv
<1>1. CASE Fetch
  BY <1>1 DEF Fetch, clusterVars, copyVars
<1>2. CASE FillDefaults
  BY <1>2, FillDefaultsEffect DEF FillDefaults
<1>3. CASE MarkPending
  BY <1>3, MarkPendingEffect DEF MarkPending
<1>4. CASE AddClusterRole \/ CreateServiceAccount \/ CreateClusterReaderRoleBinding
             \/ AddOnce \/ AddPoliciesConfigMap \/ AddConfigMap
  <2>1. UNCHANGED <<cr, seen, fresh>>
    BY <1>4, RestSteps, OnlyObjects
  <2>2. UNCHANGED <<inst, instFresh>> \/ instFresh' = FALSE
    BY <1>4, SingleSteps DEF Single, GoTo, Finish
  <2> QED  BY <2>1, <2>2
<1>5. CASE AddDeployment
  <2>1. /\ seen' = seen /\ (fresh' => fresh /\ cr' = cr)
        /\ instFresh' = FALSE
    BY <1>5, DeploymentEffect
  <2> QED  BY <2>1, Zenon
<1>6. CASE StoreSpec
  BY <1>6 DEF StoreSpec
<1>7. CASE PodsChange \/ DeliverDeployment \/ Resync
  <2>1. UNCHANGED <<inst, instFresh>>
    BY <1>7 DEF PodsChange, DeliverDeployment, Resync, Delivered, passVars
  <2> QED  BY <1>7, <2>1, OnlyObjects
<1>8. CASE \E kind \in Kind : DeliverKind(kind)
  <2>1. UNCHANGED <<inst, instFresh>>
    BY <1>8 DEF DeliverKind, Delivered
  <2> QED  BY <1>8, <2>1, OnlyObjects
<1>9. CASE DeliverCR
  BY <1>9 DEF DeliverCR, Delivered, clusterVars
<1>10. CASE Restart \/ Upgrade
  BY <1>10 DEF Restart, Upgrade, Started, clusterVars
<1>11. CASE UNCHANGED vars
  BY <1>11 DEF vars, clusterVars, copyVars, passVars
<1> QED
  BY <1>1, <1>2, <1>3, <1>4, <1>5, <1>6, <1>7, <1>8, <1>9, <1>10, <1>11 DEF Next, Reconcile

-----------------------------------------------------------------------------
(* What becomes of the objects. *)

\* A step of a pass leaves its object as it was or makes it one of this version.
LEMMA SingleEffect ==
  ASSUME TypeOK, NEW o \in Object \ {"deployment"}, Single(o)
  PROVE  /\ made' = made \/ made' = [made EXCEPT ![o] = version]
         /\ UNCHANGED <<version, madeSeen, depSeen, dep>>
BY DEF Single, Created, CreateFails, Updated, UpdateFails, Rest, copyVars

LEMMA DeploymentMade ==
  ASSUME TypeOK, AddDeployment
  PROVE  /\ made' = made \/ made' = [made EXCEPT !["deployment"] = version]
         /\ UNCHANGED <<version, madeSeen>>
BY DEF AddDeployment, CreateDeployment, UpdateDeployment, ReportState, StoreDeployment, CreateFails

LEMMA VersionStep == TypeOK /\ VersionInv /\ [Next]_vars => VersionInv'
<1> SUFFICES ASSUME TypeOK, VersionInv, [Next]_vars
             PROVE  VersionInv'
  OBVIOUS
<1> USE DEF VersionInv
<1>1. ASSUME NEW o \in Object, UNCHANGED <<version, madeSeen>>,
             made' = made \/ made' = [made EXCEPT ![o] = version]
      PROVE  VersionInv'
  BY <1>1 DEF TypeOK
<1>2. CASE AddClusterRole \/ CreateServiceAccount \/ CreateClusterReaderRoleBinding
             \/ AddOnce \/ AddPoliciesConfigMap \/ AddConfigMap
  BY <1>1, <1>2, SingleSteps, SingleEffect
<1>3. CASE AddDeployment
  <2>1. "deployment" \in Object
    BY DEF Object, Namespaced
  <2> QED  BY <1>1, <1>3, <2>1, DeploymentMade
<1>4. CASE UNCHANGED <<made, madeSeen, version>>
  BY <1>4
<1>5. CASE Fetch \/ FillDefaults \/ MarkPending \/ StoreSpec \/ PodsChange \/ DeliverCR \/ Resync \/ UNCHANGED vars
  <2>1. UNCHANGED <<made, madeSeen, version>>
    BY <1>5 DEF Fetch, FillDefaults, MarkPending, StoreSpec, PodsChange, DeliverCR, Resync, Delivered,
                vars, clusterVars, copyVars
  <2> QED  BY <1>4, <2>1
<1>6. ASSUME NEW kind \in Kind, DeliverKind(kind)
      PROVE  VersionInv'
  BY <1>6 DEF DeliverKind, Delivered, clusterVars
<1>7. CASE DeliverDeployment
  BY <1>7 DEF DeliverDeployment, Delivered, clusterVars, TypeOK
<1>8. CASE Restart \/ Upgrade
  BY <1>8 DEF Restart, Upgrade, Started, clusterVars
<1> QED  BY <1>2, <1>3, <1>5, <1>6, <1>7, <1>8 DEF Next, Reconcile

-----------------------------------------------------------------------------
(* What a pass leaves behind. *)

\* An object that is there stays so.
LEMMA MadeStays ==
  ASSUME TypeOK, VersionInv, NEW o \in Object, NEW x \in Object, Made(x),
         made' = made \/ made' = [made EXCEPT ![o] = version], UNCHANGED <<madeSeen, version>>
  PROVE  Made(x)'
<1>1. version # 0 /\ "policies" \in Object
  BY DEF TypeOK, Object, Namespaced
<1>2. made[x] # 0 => made'[x] # 0
  BY <1>1 DEF TypeOK
<1>3. made[x] = version => made'[x] = version
  BY DEF TypeOK
<1>4. madeSeen["policies"] # made["policies"] => madeSeen["policies"] # made'["policies"]
  BY <1>1 DEF TypeOK, VersionInv
<1> QED  BY <1>2, <1>3, <1>4 DEF Made

\* What a step that goes on to the next has done.
LEMMA CreateEffect ==
  ASSUME TypeOK, VersionInv, faults' = 0, UNCHANGED version, NEW o \in Object, madeSeen[o] = 0,
         Created(o) \/ CreateFails(o)
  PROVE  made'[o] = version /\ made'[o] # 0 /\ madeSeen[o] # made'[o]
BY NoFault DEF TypeOK, VersionInv, Created, CreateFails

LEMMA CreateOrUpdateEffect ==
  ASSUME TypeOK, VersionInv, faults' = 0, UNCHANGED version, NEW o \in Object, CreateOrUpdate(o)
  PROVE  GoTo(After[o]) /\ made'[o] = version /\ made'[o] # 0
<1>1. version # 0
  BY DEF TypeOK
<1>2. CASE madeSeen[o] = 0
  BY <1>1, <1>2, CreateEffect DEF CreateOrUpdate
<1>3. CASE madeSeen[o] \notin {0, version}
  BY <1>1, <1>3, NoFault DEF CreateOrUpdate, Updated, UpdateFails, TypeOK
<1>4. CASE madeSeen[o] = version
  BY <1>1, <1>4 DEF CreateOrUpdate, VersionInv
<1> QED  BY <1>2, <1>3, <1>4

LEMMA Order ==
  /\ After["clusterRole"] = "sa" /\ After["sa"] = "reader" /\ After["reader"] = "binding"
  /\ After["binding"] = "policies" /\ After["policies"] = "config" /\ After["config"] = "secret"
  /\ After["secret"] = "deployment"
BY DEF After

\* Each step either ends the pass with a request for another, or has its object made and
\* goes on to the next; without the first ConfigMap it goes past the second.
LEMMA SingleDone ==
  ASSUME TypeOK, VersionInv, faults' = 0,
         AddClusterRole \/ CreateServiceAccount \/ CreateClusterReaderRoleBinding
           \/ AddOnce \/ AddPoliciesConfigMap \/ AddConfigMap
  PROVE  \/ Finish(TRUE)
         \/ pc = "clusterRole" /\ GoTo("sa") /\ Made("clusterRole")'
         \/ pc = "sa" /\ GoTo("reader") /\ Made("sa")'
         \/ pc = "reader" /\ GoTo("binding")
         \/ pc = "binding" /\ GoTo("policies") /\ Made("binding")'
         \/ pc = "policies" /\ GoTo("config") /\ Made("policies")'
         \/ pc = "policies" /\ GoTo("secret") /\ Made("policies")' /\ Made("config")'
         \/ pc = "config" /\ GoTo("secret") /\ Made("config")'
         \/ pc = "secret" /\ GoTo("deployment") /\ Made("secret")'
<1>a. pc \in Object \ {"deployment"} /\ UNCHANGED <<version, madeSeen>> /\ version # 0
  BY SingleSteps, SingleEffect DEF TypeOK
<1>b. ASSUME madeSeen[pc] # 0, made' = made
       PROVE  made'[pc] # 0
  BY <1>a, <1>b DEF VersionInv
<1>1. CASE AddClusterRole
  <2>1. pc = "clusterRole" /\ CreateOrUpdate(pc)
    BY <1>1 DEF AddClusterRole
  <2>2. GoTo(After[pc]) /\ made'[pc] = version /\ made'[pc] # 0
    BY <1>a, <2>1, CreateOrUpdateEffect
  <2>3. Made("clusterRole")'
    BY <1>a, <2>1, <2>2 DEF Made
  <2> QED  BY <2>1, <2>2, <2>3, Order
<1>2. CASE CreateServiceAccount
  <2>1. pc = "sa"
    BY <1>2 DEF CreateServiceAccount
  <2>2. CASE madeSeen[pc] = 0 /\ CreateFails(pc) /\ Finish(TRUE)
    BY <2>2
  <2>3. CASE madeSeen[pc] = 0 /\ Created(pc) /\ GoTo(After[pc])
    <3>1. made'[pc] # 0
      BY <1>a, <2>3, CreateEffect
    <3>2. Made("sa")'
      BY <2>1, <3>1 DEF Made, Compared
    <3> QED  BY <2>1, <2>3, <3>2, Order
  <2>4. CASE madeSeen[pc] # 0 /\ GoTo(After[pc]) /\ UNCHANGED <<made, faults>>
    <3>1. made'[pc] # 0
      BY <1>b, <2>4
    <3>2. Made("sa")'
      BY <2>1, <3>1 DEF Made, Compared
    <3> QED  BY <2>1, <2>4, <3>2, Order
  <2> QED  BY <1>2, <2>2, <2>3, <2>4 DEF CreateServiceAccount
<1>3. CASE CreateClusterReaderRoleBinding
  BY <1>3, Order DEF CreateClusterReaderRoleBinding
<1>4. CASE AddOnce
  <2>1. pc \in {"binding", "secret"} /\ GoTo(After[pc])
    BY <1>4 DEF AddOnce
  <2>2. ASSUME madeSeen[pc] = 0, Created(pc) \/ CreateFails(pc)
        PROVE  made'[pc] # 0
    BY <1>a, <2>2, CreateEffect
  <2>3. ASSUME madeSeen[pc] # 0, UNCHANGED <<made, faults>>
        PROVE  made'[pc] # 0
    BY <1>b, <2>3
  <2>4. made'[pc] # 0
    BY <1>4, <2>2, <2>3 DEF AddOnce
  <2>5. pc = "binding" => Made("binding")'
    BY <2>4 DEF Made, Compared
  <2>6. pc = "secret" => Made("secret")'
    BY <2>4 DEF Made, Compared
  <2> QED  BY <2>1, <2>5, <2>6, Order
<1>5. CASE AddPoliciesConfigMap
  <2>1. pc = "policies"
    BY <1>5 DEF AddPoliciesConfigMap
  <2>2. CASE madeSeen[pc] = 0 /\ (Created(pc) \/ CreateFails(pc)) /\ GoTo("secret")
    <3>1. made'[pc] # 0 /\ madeSeen[pc] # made'[pc]
      BY <1>a, <2>2, CreateEffect
    <3>2. Made("policies")' /\ Made("config")'
      BY <1>a, <2>1, <3>1 DEF Made, Compared
    <3> QED  BY <2>1, <2>2, <3>2
  <2>3. CASE madeSeen[pc] # 0 /\ GoTo(After[pc]) /\ UNCHANGED <<made, faults>>
    <3>1. made'[pc] # 0
      BY <1>b, <2>3
    <3>2. Made("policies")'
      BY <2>1, <3>1 DEF Made, Compared
    <3> QED  BY <2>1, <2>3, <3>2, Order
  <2> QED  BY <1>5, <2>2, <2>3 DEF AddPoliciesConfigMap
<1>6. CASE AddConfigMap
  <2>1. pc = "config" /\ CreateOrUpdate(pc)
    BY <1>6 DEF AddConfigMap
  <2>2. GoTo(After[pc]) /\ made'[pc] = version /\ made'[pc] # 0
    BY <1>a, <2>1, CreateOrUpdateEffect
  <2>3. Made("config")'
    BY <1>a, <2>1, <2>2 DEF Made
  <2> QED  BY <2>1, <2>2, <2>3, Order
<1> QED  BY <1>1, <1>2, <1>3, <1>4, <1>5, <1>6

LEMMA BehindType ==
  /\ \A step \in Object : Behind(step) \subseteq Object
  /\ \A step \in {"idle", "defaults", "pending", "clusterRole"} : Behind(step) = {}
BY DEF Behind, Object, ClusterScoped, Namespaced

LEMMA BehindGrows ==
  /\ Behind("sa") = Behind("clusterRole") \union {"clusterRole"}
  /\ Behind("reader") = Behind("sa") \union {"sa"}
  /\ Behind("binding") = Behind("reader")
  /\ Behind("policies") = Behind("binding") \union {"binding"}
  /\ Behind("config") = Behind("policies") \union {"policies"}
  /\ Behind("secret") = Behind("config") \union {"config"}
  /\ Behind("deployment") = Behind("secret") \union {"secret"}
BY DEF Behind

\* The step after has no more behind it than this one, itself and what it went past.
LEMMA SinglePass ==
  ASSUME TypeOK, VersionInv, PassInv, faults' = 0, ~queued', fresh',
         AddClusterRole \/ CreateServiceAccount \/ CreateClusterReaderRoleBinding
           \/ AddOnce \/ AddPoliciesConfigMap \/ AddConfigMap
  PROVE  PassInv'
<1>1. pc \in Object \ {"deployment"} /\ Single(pc)
  BY SingleSteps
<1>2. /\ UNCHANGED <<cr, seen, fresh, madeSeen, version>>
      /\ made' = made \/ made' = [made EXCEPT ![pc] = version]
  BY <1>1, RestSteps, OnlyObjects, SingleEffect
<1>3. ~Finish(TRUE)
  BY DEF Finish
<1>4. faults = 0
  <2>1. Fault \/ UNCHANGED faults
    BY <1>1 DEF Single, Created, CreateFails, Updated, UpdateFails
  <2> QED  BY <2>1, NoFault
<1>5. \A step \in Steps : GoTo(step) => pc' = step /\ UNCHANGED <<queued, inst, instFresh>>
  BY DEF GoTo
<1>6. UNCHANGED <<queued, inst, instFresh>>
  BY <1>3, <1>5, SingleDone, AfterType DEF Object, ClusterScoped, Namespaced
<1>7. instFresh /\ inst = cr /\ inst.filled /\ \A o \in Behind(pc) : Made(o)
  <2>1. pc # "idle" /\ pc # "defaults" /\ ~queued /\ fresh
    BY <1>1, <1>2, <1>6 DEF Object, ClusterScoped, Namespaced
  <2> QED  BY <1>4, <2>1 DEF PassInv
<1>8. \A o \in Behind(pc) : Made(o)'
  BY <1>1, <1>2, <1>7, MadeStays, BehindType
<1>9. \A o \in Behind(pc') : Made(o)'
  <2>1. \/ pc = "clusterRole" /\ pc' = "sa" /\ Made("clusterRole")'
        \/ pc = "sa" /\ pc' = "reader" /\ Made("sa")'
        \/ pc = "reader" /\ pc' = "binding"
        \/ pc = "binding" /\ pc' = "policies" /\ Made("binding")'
        \/ pc = "policies" /\ pc' = "config" /\ Made("policies")'
        \/ pc = "policies" /\ pc' = "secret" /\ Made("policies")' /\ Made("config")'
        \/ pc = "config" /\ pc' = "secret" /\ Made("config")'
        \/ pc = "secret" /\ pc' = "deployment" /\ Made("secret")'
    BY <1>3, <1>5, SingleDone DEF Steps, Object, ClusterScoped, Namespaced
  <2>2. \A o \in Behind(pc') : o \in Behind(pc) \/ Made(o)'
    BY <2>1, BehindGrows
  <2> QED  BY <1>8, <2>2
<1>10. instFresh' /\ inst' = cr' /\ inst'.filled
  BY <1>2, <1>6, <1>7, Zenon
<1> QED  BY <1>9, <1>10 DEF PassInv

LEMMA PassStep == TypeOK /\ VersionInv /\ FreshInv /\ PassInv /\ [Next]_vars => PassInv'
<1> SUFFICES ASSUME TypeOK, VersionInv, FreshInv, PassInv, [Next]_vars,
                    pc' # "idle", ~queued', fresh', faults' = 0
             PROVE  PassInv'
  BY DEF PassInv
<1>1. CASE Fetch
  <2>1. fresh /\ inst' = seen /\ cr' = cr /\ instFresh' = fresh /\ pc' = "defaults"
    BY <1>1 DEF Fetch, copyVars, clusterVars
  <2>2. instFresh' /\ inst' = cr'
    BY <2>1, Zenon DEF FreshInv
  <2> QED  BY <2>1, <2>2, BehindType DEF PassInv
<1>2. CASE FillDefaults
  <2>1. pc = "defaults" /\ pc' = "pending" /\ UNCHANGED <<queued, instFresh>>
    BY <1>2 DEF FillDefaults
  <2>2. fresh /\ faults = 0
    BY <1>2, FillDefaultsEffect
  <2>3. ~queued
    BY <2>1, Zenon
  <2>4. instFresh /\ inst = cr
    BY <2>1, <2>2, <2>3 DEF PassInv
  <2>5. inst' = cr' /\ inst'.filled
    BY <1>2, <2>4, FillDefaultsEffect
  <2>6. instFresh'
    BY <2>1, <2>4, Zenon
  <2> QED  BY <2>1, <2>5, <2>6, BehindType DEF PassInv
<1>3. CASE MarkPending
  <2>1. pc = "pending" /\ pc' = "clusterRole" /\ UNCHANGED <<queued, instFresh>>
    BY <1>3 DEF MarkPending
  <2>2. fresh /\ faults = 0
    BY <1>3, MarkPendingEffect
  <2>3. ~queued
    BY <2>1, Zenon
  <2>4. instFresh /\ inst = cr /\ inst.filled
    BY <2>1, <2>2, <2>3 DEF PassInv
  <2>5. inst' = cr' /\ inst'.filled
    BY <1>3, <2>4, MarkPendingEffect
  <2>6. instFresh'
    BY <2>1, <2>4, Zenon
  <2> QED  BY <2>1, <2>5, <2>6, BehindType DEF PassInv
<1>4. CASE AddClusterRole \/ CreateServiceAccount \/ CreateClusterReaderRoleBinding
             \/ AddOnce \/ AddPoliciesConfigMap \/ AddConfigMap
  BY <1>4, SinglePass
<1>5. CASE AddDeployment
  BY <1>5, DeploymentEffect
<1>6. CASE StoreSpec
  BY <1>6 DEF StoreSpec
<1>7. CASE PodsChange
  <2>1. UNCHANGED <<cr, made, copyVars, passVars, version, faults>>
    BY <1>7 DEF PodsChange
  <2> QED  BY <2>1 DEF PassInv, Made, copyVars, passVars
<1>8. CASE DeliverCR \/ DeliverDeployment \/ Resync
  BY <1>8 DEF DeliverCR, DeliverDeployment, Resync
<1>9. ASSUME NEW kind \in Kind, DeliverKind(kind)
      PROVE  PassInv'
  <2>1. UNCHANGED <<cr, made, fresh, pc, inst, instFresh, version, faults>>
    BY <1>9 DEF DeliverKind, Delivered, clusterVars
  <2>2. ~queued /\ madeSeen'["policies"] = madeSeen["policies"]
    <3>1. "policies" \in Object /\ Wakes("policies")
      BY DEF Object, Namespaced, Wakes
    <3>2. ~queued /\ \A o \in kind : madeSeen[o] # made[o] => ~Wakes(o)
      BY <1>9 DEF DeliverKind
    <3> QED  BY <1>9, <3>1, <3>2 DEF DeliverKind
  <2> QED  BY <2>1, <2>2 DEF PassInv, Made
<1>10. CASE Restart \/ Upgrade
  BY <1>10 DEF Restart, Upgrade, Started
<1>11. CASE UNCHANGED vars
  BY <1>11 DEF vars, clusterVars, copyVars, passVars, PassInv, Made
<1> QED
  BY <1>1, <1>2, <1>3, <1>4, <1>5, <1>6, <1>7, <1>8, <1>9, <1>10, <1>11 DEF Next, Reconcile

-----------------------------------------------------------------------------
(* What holds at rest. *)

\* What the last step of a pass leaves: a deployment that will have an event, or one that
\* is as it was wanted, with its state told.
LEMMA LastStep ==
  ASSUME TypeOK, VersionInv, AddDeployment, faults' = 0, instFresh, inst = cr, DeploymentSeen'
  PROVE  /\ made'["deployment"] # 0 /\ depSeen' = Template(version, inst.want)
         /\ cr'.state = StateFor(readySeen, inst.state)
<1>1. UNCHANGED <<madeSeen, depSeen, readySeen, version>> /\ ~Fault
  BY NoFault DEF AddDeployment
<1>2. version # 0 /\ "deployment" \in Object
  BY DEF TypeOK, Object, Namespaced
<1>3. ~CreateDeployment
  <2> SUFFICES ASSUME CreateDeployment
               PROVE  FALSE
    OBVIOUS
  <2>1. madeSeen["deployment"] = 0
    BY DEF CreateDeployment
  <2>2. made'["deployment"] # 0
    BY <1>1, <1>2 DEF CreateDeployment, CreateFails, StoreDeployment, TypeOK
  <2> QED  BY <1>1, <2>1, <2>2 DEF DeploymentSeen
<1>4. ~UpdateDeployment
  BY <1>1 DEF UpdateDeployment, StoreDeployment, DeploymentSeen
<1>5. ReportState
  BY <1>3, <1>4 DEF AddDeployment
<1>6. made'["deployment"] # 0 /\ depSeen' = Template(version, inst.want)
  BY <1>1, <1>2, <1>5 DEF ReportState, VersionInv, WantedDeployment
<1> DEFINE told == StateFor(readySeen, inst.state)
<1>7. told \in State
  BY DEF StateFor, TypeOK, CR, State, Settled
<1>8. (told # inst.state /\ StoreState(told)) \/ (told = inst.state /\ cr' = cr)
  BY <1>5 DEF ReportState
<1> HIDE DEF told
<1>9. cr'.state = told
  BY <1>7, <1>8, StoreStateEffect
<1> QED  BY <1>6, <1>9 DEF told

LEMMA RestAfterPass ==
  ASSUME TypeOK, VersionInv, PassInv, AddDeployment, ~queued', fresh', faults' = 0
  PROVE  RestInv'
<1>1. /\ fresh /\ cr' = cr /\ UNCHANGED <<version, madeSeen>>
      /\ made' = made \/ made' = [made EXCEPT !["deployment"] = version]
  BY DeploymentEffect, DeploymentMade
<1>2. ~queued /\ faults = 0 /\ pc = "deployment"
  <2>1. ~queued
    BY DEF AddDeployment, CreateDeployment, UpdateDeployment, ReportState, Finish
  <2>2. Fault \/ faults' = faults \/ faults = 0
    <3>1. StateFor(readySeen, inst.state) \in State
      BY DEF StateFor, TypeOK, CR, State, Settled
    <3> QED  BY <3>1, StoreStateEffect
             DEF AddDeployment, CreateDeployment, UpdateDeployment, ReportState, CreateFails
  <2> QED  BY <2>1, <2>2, NoFault DEF AddDeployment
<1>3. instFresh /\ inst = cr /\ inst.filled /\ \A o \in Behind("deployment") : Made(o)
  BY <1>1, <1>2 DEF PassInv
<1>4. \A o \in Behind("deployment") : Made(o)'
  <2>1. "deployment" \in Object
    BY DEF Object, Namespaced
  <2> QED  BY <1>1, <1>3, <2>1, MadeStays, BehindType
<1>5. ASSUME DeploymentSeen'
      PROVE  /\ made'["deployment"] # 0 /\ dep' = Template(version', cr'.want)
             /\ Told(readySeen)'
  <2>1. /\ made'["deployment"] # 0 /\ depSeen' = Template(version, inst.want)
        /\ cr'.state = StateFor(readySeen, inst.state)
    BY <1>3, <1>5, LastStep
  <2>2. readySeen' = readySeen
    BY DEF AddDeployment
  <2>3. Told(readySeen)'
    BY <2>1, <2>2 DEF Told, StateFor
  <2> QED  BY <1>1, <1>3, <1>5, <2>1, <2>3 DEF DeploymentSeen
<1> QED  BY <1>1, <1>3, <1>4, <1>5 DEF RestInv

LEMMA RestStep == TypeOK /\ VersionInv /\ PassInv /\ RestInv /\ [Next]_vars => RestInv'
<1> SUFFICES ASSUME TypeOK, VersionInv, PassInv, RestInv, [Next]_vars,
                    pc' = "idle", ~queued', fresh', faults' = 0
             PROVE  RestInv'
  BY DEF RestInv
<1>1. CASE Fetch \/ FillDefaults \/ MarkPending
  BY <1>1 DEF Fetch, FillDefaults, MarkPending
<1>2. CASE AddClusterRole \/ CreateServiceAccount \/ CreateClusterReaderRoleBinding
             \/ AddOnce \/ AddPoliciesConfigMap \/ AddConfigMap
  BY <1>2, SingleDone DEF GoTo, Finish
<1>3. CASE AddDeployment
  BY <1>3, RestAfterPass
<1>4. CASE StoreSpec
  BY <1>4 DEF StoreSpec
<1>5. CASE PodsChange
  <2>1. UNCHANGED <<cr, made, dep, copyVars, passVars, version, faults>>
    BY <1>5 DEF PodsChange
  <2> QED  BY <2>1 DEF RestInv, Made, DeploymentSeen, Told, copyVars, passVars
<1>6. CASE DeliverCR \/ DeliverDeployment \/ Resync
  BY <1>6 DEF DeliverCR, DeliverDeployment, Resync
<1>7. ASSUME NEW kind \in Kind, DeliverKind(kind)
      PROVE  RestInv'
  <2>1. UNCHANGED <<cr, made, dep, fresh, depSeen, readySeen, pc, version, faults>>
    BY <1>7 DEF DeliverKind, Delivered, clusterVars
  <2>2. /\ ~queued /\ madeSeen'["policies"] = madeSeen["policies"]
        /\ madeSeen'["deployment"] = madeSeen["deployment"]
    <3>1. "policies" \in Object /\ Wakes("policies") /\ "deployment" \in Object /\ "deployment" \notin kind
      BY DEF Object, Namespaced, Wakes, Kind
    <3>2. ~queued /\ \A o \in kind : madeSeen[o] # made[o] => ~Wakes(o)
      BY <1>7 DEF DeliverKind
    <3> QED  BY <1>7, <3>1, <3>2 DEF DeliverKind
  <2> QED  BY <2>1, <2>2 DEF RestInv, Made, DeploymentSeen, Told
<1>8. CASE Restart \/ Upgrade
  BY <1>8 DEF Restart, Upgrade, Started
<1>9. CASE UNCHANGED vars
  BY <1>9 DEF vars, clusterVars, copyVars, passVars, RestInv, Made, DeploymentSeen, Told
<1> QED
  BY <1>1, <1>2, <1>3, <1>4, <1>5, <1>6, <1>7, <1>8, <1>9 DEF Next, Reconcile

LEMMA IInvStep == TypeOK /\ IInv /\ [Next]_vars => TypeOK' /\ IInv'
BY TypeStep, VersionStep, FreshStep, PassStep, RestStep DEF IInv

\* What the copies, the pass under way and the pass that is over say of what is stored.
THEOREM IInvInvariant == Spec => [](TypeOK /\ IInv)
<1>1. Init => TypeOK /\ IInv
  BY TypeInit, InitInv DEF IInv
<1> QED  BY <1>1, IInvStep, PTL DEF Spec

\* At rest everything is installed in the operator's version and for the stored spec,
\* though creations are refused, with the error dropped, when copies are late, and the
\* ConfigMaps take two passes; unless a call has failed otherwise.
THEOREM InstalledAtRest == Spec => []RestMeansInstalled
<1>1. TypeOK /\ IInv => RestMeansInstalled
  <2> SUFFICES ASSUME TypeOK, IInv, AtRest, faults = 0
               PROVE  Installed /\ cr.filled
    BY DEF RestMeansInstalled
  <2>1. pc = "idle" /\ ~queued /\ fresh /\ DeploymentSeen
    BY DEF AtRest, DeploymentSeen
  <2>2. /\ cr.filled /\ \A o \in Behind("deployment") : Made(o)
        /\ made["deployment"] # 0 /\ dep = Template(version, cr.want)
    BY <2>1 DEF IInv, RestInv
  <2>3. madeSeen["policies"] = made["policies"]
    BY DEF AtRest
  <2>4. \A o \in Behind("deployment") : made[o] # 0 /\ (o \in Compared => made[o] = version)
    BY <2>2, <2>3 DEF Made
  <2>5. Behind("deployment") = {"clusterRole", "sa", "binding", "policies", "config", "secret"}
    BY DEF Behind
  <2> QED  BY <2>2, <2>4, <2>5 DEF Installed, Object, ClusterScoped, Namespaced, Compared
<1> QED  BY <1>1, IInvInvariant, PTL

\* At rest the state is that of the deployment, though errors of status writes are dropped.
THEOREM ReportsTruly == Spec => []RestMeansReported
<1>1. TypeOK /\ IInv => RestMeansReported
  <2> SUFFICES ASSUME TypeOK, IInv, AtRest, faults = 0
               PROVE  IF ready THEN cr.state = "Running" ELSE cr.state \in {"Pending", "UpdateInProgress"}
    BY DEF RestMeansReported
  <2>1. pc = "idle" /\ ~queued /\ fresh /\ DeploymentSeen /\ readySeen = ready
    BY DEF AtRest, DeploymentSeen
  <2>2. Told(readySeen)
    BY <2>1 DEF IInv, RestInv
  <2> QED  BY <2>1, <2>2 DEF Told
<1> QED  BY <1>1, IInvInvariant, PTL

\* The controller, which stores a whole spec over and over, never takes back what another
\* has asked for: only StoreSpec changes it.
THEOREM SpecIsNotLost == Spec => NoLostSpec
<1>1. TypeOK /\ FreshInv /\ [Next]_vars => [cr'.want # cr.want => changes' = changes + 1]_vars
  <2> SUFFICES ASSUME TypeOK, FreshInv, [Next]_vars
               PROVE  cr'.want = cr.want \/ changes' = changes + 1
    OBVIOUS
  <2>1. CASE FillDefaults
    BY <2>1, FillDefaultsEffect
  <2>2. CASE MarkPending
    BY <2>2, MarkPendingEffect
  <2>3. CASE AddClusterRole \/ CreateServiceAccount \/ CreateClusterReaderRoleBinding
               \/ AddOnce \/ AddPoliciesConfigMap \/ AddConfigMap
    BY <2>3, RestSteps, OnlyObjects
  <2>4. CASE AddDeployment
    BY <2>4, DeploymentEffect
  <2>5. CASE StoreSpec
    BY <2>5 DEF StoreSpec
  <2>6. CASE Fetch \/ PodsChange \/ DeliverDeployment \/ Resync \/ (\E kind \in Kind : DeliverKind(kind))
    BY <2>6, OnlyObjects
  <2>7. CASE DeliverCR \/ Restart \/ Upgrade \/ UNCHANGED vars
    BY <2>7 DEF DeliverCR, Delivered, Restart, Upgrade, Started, clusterVars, vars
  <2> QED
    BY <2>1, <2>2, <2>3, <2>4, <2>5, <2>6, <2>7 DEF Next, Reconcile
<1> QED  BY <1>1, IInvInvariant, PTL DEF NoLostSpec, IInv, Spec
=============================================================================
