------------------------------ MODULE Operand -------------------------------
(***************************************************************************)
(* The controller of one operand: the reconcilers of KhulnasoftServer,      *)
(* KhulnasoftGateway, KhulnasoftScanner and KhulnasoftEnforcer, which follow *)
(* one pattern.  A pass reads the resource, fills in its defaults and looks *)
(* up the secrets it names, stores the spec that comes of it, marks the     *)
(* resource Pending, brings the ConfigMap up to date and then the workload  *)
(* (a Deployment, or the enforcer's DaemonSet), whose template carries a    *)
(* checksum of the ConfigMap so that the pods restart when it changes.      *)
(* Last it sums the workload's status up into Status.State.                 *)
(*                                                                         *)
(* Every read is of an informer's copy.  The resource is written with the  *)
(* version that was read, the ConfigMap and the workload without one.       *)
(*                                                                         *)
(* Not modelled: the services, secrets, routes and RBAC objects, which a    *)
(* pass creates once, and the pull secret that a pass which makes the       *)
(* account goes without (Stack has them); Status.Nodes; deletion.           *)
(***************************************************************************)
EXTENDS Naturals, Sequences

CONSTANTS
  Datas,       \* what the specs may ask for: sets of configuration entries
  Finds,       \* what a pass may find of the secrets behind Settings
  Kinds,       \* the operands looked at
  MaxEdits, MaxFaults

\* Entries of a spec that the controllers themselves change: the pull secret, which the
\* user names or which is the default, and mutual TLS.
NamedSecret   == "namedSecret"
DefaultSecret == "defaultSecret"
Mtls          == "mtls"
PullSecrets   == {NamedSecret, DefaultSecret}
Settings      == PullSecrets \union {Mtls}

\* The entries that are the user's alone.
Core(data) == data \ Settings

ASSUME OperandAssumption ==
  /\ \A data \in Datas : Core(data) # {}
  /\ Finds \subseteq SUBSET Settings
  /\ Kinds \subseteq {"server", "gateway", "scanner", "enforcer"}
  /\ MaxEdits \in Nat /\ MaxFaults \in Nat

VARIABLES
  kind,    \* which operand it is
  \* --- in the API server and the cluster
  cr,      \* the resource: data, approved, filled (has its defaults), state; and, as a
           \* history, edit: the number of the edit its spec is of
  cm,      \* data of the ConfigMap, {} while there is none
  dep,     \* the workload: tmpl, the data its checksum is of ({}: none), and health
  pods,    \* the running pods: the template they were made from, the data they read
  \* --- the informers' copies
  seen, fresh, cmSeen, depSeen,
  \* --- the controller
  queued, pc, inst, instFresh,
  \* --- bookkeeping
  asked,   \* history: the specs that users have stored, one after the other
  wished,  \* history: the last of them in full
  grounds, \* history: the settings that passes since then had grounds to change
  at,      \* history: the edit whose spec the workload has last been given, 0 before
  dropped, \* history: a failed write of the ConfigMap went unnoticed
  faults

clusterVars == <<cr, cm, dep, pods>>
copyVars    == <<seen, fresh, cmSeen, depSeen>>
passVars    == <<queued, pc, inst, instFresh>>
caseVars    == <<kind, asked, wished>>
histVars    == <<at, dropped>>
vars == <<clusterVars, copyVars, passVars, caseVars, grounds, histVars, faults>>

HasConfig   == kind # "gateway"
DropsErrors == kind = "scanner"  \* of the ConfigMap step
Gated       == kind = "enforcer" \* an update of the workload needs an approval
DropsSecret == kind \in {"scanner", "enforcer"}  \* a pull secret that is not found
TurnsMtlsOn == kind # "scanner"

Updating == IF Gated THEN "EnforcerUpdateInProgress" ELSE "UpdateInProgress"

\* States that the first status write of a pass leaves alone.
Settled == {"Running", Updating} \union (IF Gated THEN {"PendingApproval"} ELSE {})
State   == Settled \union {"", "Pending"}

Health == {"down", "up"} \union (IF Gated THEN {"empty"} ELSE {})

\* What the specs ask for.
Contents == {Core(data) : data \in Datas}
Data     == {content \union settings : content \in Contents, settings \in SUBSET Settings}

Wish == [value : Contents, approved : BOOLEAN]
Asking(res) == [value |-> Core(res.data), approved |-> res.approved]

Workload == [tmpl : Data \union {{}}, health : Health]

EditNumber == 1 .. MaxEdits + 1

CR == [data : Data, approved : BOOLEAN, filled : BOOLEAN, state : State, edit : EditNumber]

TypeOK ==
  /\ kind \in Kinds
  /\ cr \in CR /\ seen \in CR /\ inst \in CR
  /\ cm \in Data \union {{}} /\ cmSeen \in Data \union {{}}
  /\ dep \in Workload /\ depSeen \in Workload
  /\ pods \in [tmpl : Data \union {{}}, data : Data \union {{}}]
  /\ fresh \in BOOLEAN /\ queued \in BOOLEAN /\ instFresh \in BOOLEAN
  /\ pc \in {"idle", "defaults", "pending", "config", "workload"}
  /\ asked \in Seq(Wish) /\ wished \in Data /\ grounds \subseteq Settings
  /\ at \in EditNumber \union {0} /\ dropped \in BOOLEAN
  /\ faults \in 0 .. MaxFaults

\* A new workload has no pods yet: 0 of 0, which only a DaemonSet may keep.
NewHealth == IF Gated THEN "empty" ELSE "down"

Init ==
  /\ kind \in Kinds
  /\ cr \in [data : Datas, approved : BOOLEAN, filled : {FALSE}, state : {""}, edit : {1}]
  /\ ~Gated => cr.approved
  /\ cm = {} /\ dep = [tmpl |-> {}, health |-> NewHealth]
  /\ pods = [tmpl |-> {}, data |-> {}]
  /\ seen = cr /\ fresh = TRUE /\ cmSeen = cm /\ depSeen = dep
  /\ queued = TRUE /\ pc = "idle" /\ inst = cr /\ instFresh = FALSE
  /\ asked = <<Asking(cr)>> /\ wished = cr.data /\ grounds = {}
  /\ at = 0 /\ dropped = FALSE
  /\ faults = 0

-----------------------------------------------------------------------------
(* Writes. *)

Fault == faults < MaxFaults /\ faults' = faults + 1

\* Mutant: writes of the resource carry no version and always go through.
StoreCR_Unversioned(new) ==
  /\ cr' = new /\ fresh' = (fresh /\ new = cr)
  /\ UNCHANGED faults

\* A write of the resource whose error is ignored: it is stored when no one else
\* has stored the resource since it was read, and may fail.
StoreCR(new) ==
  \/ /\ instFresh
     /\ cr' = new /\ fresh' = (fresh /\ new = cr)
     /\ UNCHANGED faults
  \/ ~instFresh /\ UNCHANGED <<cr, fresh, faults>>
  \/ Fault /\ UNCHANGED <<cr, fresh>>

StoreState(s) == StoreCR([cr EXCEPT !.state = s])

Finish(requeue) ==
  /\ pc' = "idle" /\ queued' = (queued \/ requeue)
  /\ inst' = seen /\ instFresh' = FALSE

Advance(next) == pc' = next /\ UNCHANGED <<queued, inst, instFresh>>

-----------------------------------------------------------------------------
(* The steps of Reconcile. *)

Fetch ==
  /\ pc = "idle" /\ queued
  /\ inst' = seen /\ instFresh' = fresh
  /\ queued' = FALSE /\ pc' = "defaults"
  /\ UNCHANGED <<clusterVars, copyVars, caseVars, grounds, histVars, faults>>

\* The default pull secret is named where none is.
WithDefaults(data) == IF data \intersect PullSecrets = {} THEN data \union {DefaultSecret} ELSE data

\* A spec after updateXxxObject: with its defaults, without a pull secret that is not found
\* (enforcer and scanner), and with mutual TLS once its secret is (all but the scanner).
Rewritten(data, found) ==
  LET missing == IF DropsSecret THEN PullSecrets \ found ELSE {}
      seenToo == IF TurnsMtlsOn THEN {Mtls} \intersect found ELSE {} IN
  (WithDefaults(data) \ missing) \union seenToo

\* What a pass that goes by the last edit, and finds these secrets, may change of the user's.
Grounds(found) ==
  IF inst.edit # cr.edit THEN {}
    ELSE {s \in {NamedSecret} \ found : DropsSecret} \union {s \in {Mtls} \intersect found : TurnsMtlsOn}

\* updateXxxObject and r.Client.Update(instance): the whole spec goes back.
FillDefaults ==
  /\ pc = "defaults"
  /\ \E found \in Finds :
       LET data == Rewritten(inst.data, found) IN
       /\ StoreCR([inst EXCEPT !.data = data, !.filled = TRUE, !.state = cr.state])
       /\ inst' = [inst EXCEPT !.data = data, !.filled = TRUE]
       /\ grounds' = grounds \union Grounds(found)
  /\ pc' = "pending"
  /\ UNCHANGED <<cm, dep, pods, seen, cmSeen, depSeen, queued, instFresh, caseVars, histVars>>

\* Mutant: the check forgets that an update may be under way.
MarkPending_Forgets ==
  /\ pc = "pending"
  /\ IF inst.state = "Running"
       THEN UNCHANGED <<cr, fresh, faults, inst>>
       ELSE StoreState("Pending") /\ inst' = [inst EXCEPT !.state = "Pending"]
  /\ pc' = "config"
  /\ UNCHANGED <<cm, dep, pods, seen, cmSeen, depSeen, queued, instFresh, caseVars, grounds, histVars>>

\* A resource that has not settled yet is Pending.
MarkPending ==
  /\ pc = "pending"
  /\ IF inst.state \in Settled
       THEN UNCHANGED <<cr, fresh, faults, inst>>
       ELSE StoreState("Pending") /\ inst' = [inst EXCEPT !.state = "Pending"]
  /\ pc' = "config"
  /\ UNCHANGED <<cm, dep, pods, seen, cmSeen, depSeen, queued, instFresh, caseVars, grounds, histVars>>

\* equality.Semantic.DeepDerivative on maps: every entry wanted is found.
DeepDerivative(want, found) == want \subseteq found

\* The ConfigMap of a spec: the server's tells of mutual TLS, and none of pull secrets.
ConfigOf(data) == data \ (IF kind = "server" THEN PullSecrets ELSE Settings)

\* Mutant: the stored ConfigMap is never brought up to date.
CreateConfigMap_Once ==
  /\ pc = "config"
  /\ cm' = IF HasConfig /\ cm = {} THEN ConfigOf(inst.data) ELSE cm
  /\ Advance("workload")
  /\ UNCHANGED <<cr, dep, pods, copyVars, caseVars, grounds, histVars, faults>>

\* Get or create, then update on a difference.  An error of the Create is dropped,
\* one of the Update ends the pass (in the scanner it is dropped as well).
CreateConfigMap ==
  /\ pc = "config"
  /\ \/ /\ HasConfig /\ cmSeen = {} /\ cm = {}
        /\ cm' = ConfigOf(inst.data) /\ Advance("workload") /\ UNCHANGED <<dropped, faults>>
     \/ /\ HasConfig /\ cmSeen = {}
        /\ (cm # {} /\ UNCHANGED <<dropped, faults>>) \/ (Fault /\ dropped' = TRUE)
        /\ Advance("workload") /\ UNCHANGED cm
     \/ /\ HasConfig /\ cmSeen # {} /\ ~DeepDerivative(ConfigOf(inst.data), cmSeen)
        /\ \/ cm' = ConfigOf(inst.data) /\ Advance("workload") /\ UNCHANGED <<dropped, faults>>
           \/ /\ Fault /\ UNCHANGED cm
              /\ dropped' = (dropped \/ DropsErrors)
              /\ IF DropsErrors THEN Advance("workload") ELSE Finish(TRUE)
     \/ /\ HasConfig => cmSeen # {} /\ DeepDerivative(ConfigOf(inst.data), cmSeen)
        /\ Advance("workload") /\ UNCHANGED <<cm, dropped, faults>>
  /\ UNCHANGED <<cr, dep, pods, copyVars, caseVars, grounds, at>>

\* The workload is given the template of the instance's spec.
PutTemplate == dep' = [dep EXCEPT !.tmpl = inst.data] /\ at' = inst.edit

CreateWorkload ==
  /\ depSeen.tmpl = {}
  /\ \/ dep.tmpl = {} /\ PutTemplate /\ Finish(FALSE) /\ UNCHANGED faults
     \/ /\ (dep.tmpl # {} /\ UNCHANGED faults) \/ Fault
        /\ Finish(TRUE) /\ UNCHANGED <<dep, at>>
  /\ UNCHANGED <<cr, fresh>>

\* Mutant: the approval is not asked for.
Approved_Always == TRUE

\* EnforcerUpdateApproved, true when it is not given.
Approved == ~Gated \/ inst.approved

\* The template differs from the one found (CheckForK8sObjectUpdate): update it,
\* or report that the update waits for its approval.
UpdateWorkload ==
  /\ depSeen.tmpl # {} /\ depSeen.tmpl # inst.data
  /\ IF Approved
       THEN /\ \/ PutTemplate /\ Finish(FALSE) /\ UNCHANGED faults
               \/ Fault /\ Finish(TRUE) /\ UNCHANGED <<dep, at>>
            /\ UNCHANGED <<cr, fresh>>
       ELSE StoreState("PendingApproval") /\ Finish(FALSE) /\ UNCHANGED <<dep, at>>

\* Mutant: the states of a Deployment are reported for the DaemonSet too.
StateFor_Deployment(health, current) ==
  CASE health = "up" -> "Running"
    [] health = "down" /\ current \notin {"Pending", "UpdateInProgress"} -> "UpdateInProgress"
    [] OTHER -> current

\* Mutant: nothing ends an update.
StateFor_Sticky(health, current) ==
  CASE health = "up" /\ current # Updating -> "Running"
    [] health = "down" /\ current \notin {"Pending", Updating} -> Updating
    [] OTHER -> current

\* What the state becomes, seeing that health of the workload.
StateFor(health, current) ==
  CASE health = "up" -> "Running"
    [] health = "down" /\ current \notin {"Pending", Updating} -> Updating
    [] OTHER -> current

\* Mutant: an unready workload is not reported once the state is Running.
ReportState_Optimist ==
  /\ depSeen.tmpl = inst.data
  /\ IF depSeen.health = "up" /\ inst.state # "Running"
       THEN StoreState("Running") ELSE UNCHANGED <<cr, fresh, faults>>
  /\ Finish(FALSE) /\ UNCHANGED <<dep, at>>

\* Nothing to update: report what IsDeploymentReady, or the DaemonSet's counts, say.
ReportState ==
  /\ depSeen.tmpl = inst.data
  /\ IF StateFor(depSeen.health, inst.state) # inst.state
       THEN StoreState(StateFor(depSeen.health, inst.state))
       ELSE UNCHANGED <<cr, fresh, faults>>
  /\ Finish(FALSE) /\ UNCHANGED <<dep, at>>

InstallWorkload ==
  /\ pc = "workload"
  /\ CreateWorkload \/ UpdateWorkload \/ ReportState
  /\ UNCHANGED <<cm, pods, seen, cmSeen, depSeen, caseVars, grounds, dropped>>

Reconcile == Fetch \/ FillDefaults \/ MarkPending \/ CreateConfigMap \/ InstallWorkload

-----------------------------------------------------------------------------
(* The cluster, the informers, and what goes wrong. *)

\* The user, or the KhulnasoftCsp controller, stores a new spec without the defaults.
EditSpec ==
  /\ cr.edit <= MaxEdits
  /\ \E d \in Datas, a \in BOOLEAN :
       /\ a \/ Gated
       /\ <<d, a>> # <<cr.data, cr.approved>>
       /\ cr' = [cr EXCEPT !.data = d, !.approved = a, !.filled = FALSE, !.edit = @ + 1]
  /\ asked' = Append(asked, Asking(cr')) /\ wished' = cr'.data /\ grounds' = {}
  /\ fresh' = FALSE /\ instFresh' = FALSE
  /\ UNCHANGED <<kind, cm, dep, pods, seen, cmSeen, depSeen, queued, pc, inst, histVars, faults>>

\* The workload's controller replaces the pods; they read the ConfigMap as they start.
RollOut ==
  /\ dep.tmpl # pods.tmpl /\ (HasConfig => cm # {})
  /\ pods' = [tmpl |-> dep.tmpl, data |-> cm]
  /\ dep' = [dep EXCEPT !.health = "down"]
  /\ UNCHANGED <<cr, cm, copyVars, passVars, caseVars, grounds, histVars, faults>>

\* Pods crash, or start on a new node, and read the ConfigMap again.
PodsRestart ==
  /\ pods.tmpl # {}
  /\ pods' = [pods EXCEPT !.data = cm]
  /\ dep' = [dep EXCEPT !.health = "down"]
  /\ UNCHANGED <<cr, cm, copyVars, passVars, caseVars, grounds, histVars, faults>>

\* The pods become ready, or stop being so, or (DaemonSet) have no node to run on.
PodsChange ==
  /\ pods.tmpl # {}
  /\ \E h \in Health : h # dep.health /\ dep' = [dep EXCEPT !.health = h]
  /\ UNCHANGED <<cr, cm, pods, copyVars, passVars, caseVars, grounds, histVars, faults>>

Delivered ==
  queued' = TRUE /\ UNCHANGED <<clusterVars, pc, inst, instFresh, caseVars, grounds, histVars, faults>>

DeliverCR == ~fresh /\ seen' = cr /\ fresh' = TRUE /\ Delivered /\ UNCHANGED <<cmSeen, depSeen>>
DeliverConfigMap ==
  cmSeen # cm /\ cmSeen' = cm /\ Delivered /\ UNCHANGED <<seen, fresh, depSeen>>
DeliverWorkload ==
  depSeen # dep /\ depSeen' = dep /\ Delivered /\ UNCHANGED <<seen, fresh, cmSeen>>

Restart ==
  /\ Fault
  /\ seen' = cr /\ fresh' = TRUE /\ cmSeen' = cm /\ depSeen' = dep
  /\ pc' = "idle" /\ queued' = TRUE /\ inst' = cr /\ instFresh' = FALSE
  /\ UNCHANGED <<clusterVars, caseVars, grounds, histVars>>

Resync == ~queued /\ Delivered /\ UNCHANGED copyVars

Next ==
  \/ Reconcile
  \/ EditSpec \/ RollOut \/ PodsRestart \/ PodsChange
  \/ DeliverCR \/ DeliverConfigMap \/ DeliverWorkload
  \/ Restart \/ Resync

Spec == Init /\ [][Next]_vars

\* The work queue and the watches go on; nothing is asked of the cluster.
FairSpec == Spec /\ WF_vars(Reconcile) /\ WF_vars(DeliverCR) /\ WF_vars(DeliverConfigMap)
                 /\ WF_vars(DeliverWorkload) /\ WF_vars(Resync)

-----------------------------------------------------------------------------
(* Properties. *)

AtRest == pc = "idle" /\ ~queued /\ fresh /\ cmSeen = cm /\ depSeen = dep

Waiting == Gated /\ ~cr.approved /\ dep.tmpl # cr.data

\* Convergence: at rest the workload is that of the stored spec, unless its update waits
\* for approval, and the ConfigMap holds every entry the spec asks for, but where the
\* failure of a call was ignored: then the settings of the spec may be others, since the
\* pass goes by those it has failed to store.
RestMeansConverged ==
  AtRest =>
    /\ Core(dep.tmpl) = Core(cr.data) \/ (Waiting /\ dep.tmpl # {})
    /\ HasConfig /\ ~dropped => Core(cr.data) \subseteq cm
    /\ faults = 0 => dep.tmpl = cr.data \/ Waiting
    /\ HasConfig /\ faults = 0 => ConfigOf(cr.data) \subseteq cm

\* ... and the state is the one the workload's status asks for: the writes dropped
\* on a conflict have been made good by later passes, though one that fails otherwise
\* is made good by the resync alone.
RestMeansReported ==
  AtRest /\ faults = 0 =>
         CASE Waiting -> cr.state = "PendingApproval"
              [] ~Waiting /\ dep.health = "up" -> cr.state = "Running"
              [] ~Waiting /\ dep.health = "down" -> cr.state \in {"Pending", Updating}
              [] OTHER -> TRUE

\* The checksum in the template does its work: once the pods are those of the
\* template, and the controller is at rest, they have read the ConfigMap that is
\* stored (comments of addScannerConfigMap and addEnforcerConfigMap: "for restart
\* pods if token is changed").
RolledOutMeansRead ==
  AtRest /\ HasConfig /\ ~Waiting /\ pods.tmpl = dep.tmpl => pods.data = cm

\* The controller stores a whole spec, and yet never takes an edit back: the stored spec is
\* the last one asked for, but for the default pull secret and for what a pass that went by
\* this very edit had grounds to change, having found the secret of mutual TLS, or not
\* found the pull secret that is named.  No pass that went by an older spec leaves a trace.
NoLostEdit ==
  LET changed == (wished \ cr.data) \union (cr.data \ wished) IN
  /\ Asking(cr) = asked[Len(asked)]
  /\ changed \subseteq grounds \union {DefaultSecret}

\* The state only goes forward: out of Pending once, never back.
NeverPendingAgain == [][cr'.state = "Pending" => cr.state \in {"", "Pending"}]_vars

\* The controllers keep the promise of LevelTriggered: a copy that is out of date never
\* rolls the workload back to an earlier spec, nor past an approval that was not given; a
\* controller at rest has put the last spec in place or waits for the approval; and it does
\* so again and again, whatever fails or comes late.
Promise == INSTANCE LevelTriggered WITH Values <- Contents, quiet <- AtRest
KeepsPromise == Promise!Spec

\* Once the spec and the health of the workload stay as they are, the state becomes
\* theirs for good, whatever writes were lost before.
StateSettles ==
  /\ <>[](~Waiting /\ dep.health = "up" /\ dep.tmpl = cr.data) => <>[](cr.state = "Running")
  /\ <>[]Waiting => <>[](cr.state = "PendingApproval")
=============================================================================
