# Verification of the khulnasoft-operator

TLA+ models of the controllers of this repository, TLC runs that check them on
small instances, and proofs of the main theorems for every value of the
constants. All paths are relative to the repository, with `src/` in front.

## 1. The system

The operator is one process (`main.go`) with eight controllers built on
controller-runtime. Each controller watches one kind of resource and what it
owns, takes requests for a resource from a work queue, one at a time, and runs
`Reconcile`: a pass that reads the resource and brings the objects that belong
to it up to date. Everything a pass keeps is in local variables; what lasts is in the
API server. Reads are served by *informers*, copies of the API server's objects
that follow it with some delay; writes go to the API server, which refuses a
write of a resource that has been stored since it was read (a *conflict*).

| Component | State it keeps (in the API server) | Operations of a pass | Acts on |
|---|---|---|---|
| KhulnasoftCsp (`controllers/operator/khulnasoftcsp`) | `Status.State`; Mtls and DB password fields of its spec | password secret, database, wait for the database, server, gateway, sum of their states, enforcer, kube-enforcer, wait for them | the resources of the other controllers, their `Spec`; reads their `Status.State` |
| KhulnasoftDatabase (`khulnasoftdatabase`) | `Status.State`, `Status.Nodes` | service account, password secret, claim, deployment, service; a second set for the audit database | Deployments the CSP reads |
| KhulnasoftServer (`khulnasoftserver`) | defaults in the spec, `Status.State`, `Status.Nodes` | defaults, RBAC, service, secrets, ConfigMap, Deployment, state | ConfigMap the gateway reads too |
| KhulnasoftGateway (`khulnasoftgateway`) | the same | defaults, RBAC, service, Deployment, state | |
| KhulnasoftScanner (`khulnasoftscanner`) | the same | defaults, RBAC, secret, ConfigMap, Deployment, state | |
| KhulnasoftEnforcer (`khulnasoftenforcer`) | the same, with the approval of updates | defaults, RBAC, token, ConfigMap, DaemonSet, state | |
| KhulnasoftKubeEnforcer (`khulnasoftkubeenforcer`) | finalizer, `Status.State`; certificates in memory | finalizer, cluster and namespace RBAC, two webhooks, ConfigMap, secrets, service, Deployment, starboard; deletion | webhooks of the whole cluster, a KhulnasoftStarboard |
| KhulnasoftStarboard (`controllers/khulnasoft`) | defaults in the spec, `Status.State` | defaults, RBAC of the cluster, two ConfigMaps, secret, Deployment, state | looks at the kube-enforcer's cluster reader binding |
| common helpers (`controllers/common`) | none | defaults, RBAC objects of fixed names shared by controllers | |
| utilities (`pkg/utils`) | none | readiness, object comparison, image names, hashes | |

How they interact. A user writes a KhulnasoftCsp, or the other resources
directly. The CSP controller creates and updates the resources of the parts and
owns them, so that their changes start a new pass of it. The parts' controllers
own their Deployments, ConfigMaps and secrets likewise. The kube-enforcer's controller stores
the spec of the KhulnasoftStarboard. Nothing else is shared:
no controller calls another, and no locks exist. What orders them is only what each one finds in
the API server, by way of its informers.

What makes it hard. Passes start from the top each time, on reads that may be
out of date; errors of status writes are dropped (`_ = r.Client.Status().Update`)
and the results of many steps are ignored; the user edits the spec, and the cluster
changes, between any two calls of a pass; calls fail and the operator restarts
anywhere; the same spec is stored by the user and, with defaults filled in, by
the controller. The controllers are far from independent: what one needs by name (a secret, an
address, an account) another makes in the middle of its pass, and the spec of a part is written by the CSP
and by the part's own controller.

What correctness means here:

* *Convergence.* When nothing is left to do (nothing queued, nothing under
  way, informers up to date) the stored objects are those of the stored spec.
* *Truth of the state.* `Status.State` is then the one the objects call for;
  on the way it never runs ahead of them, and is never stored beside a spec it
  was not computed for.
* *Order.* The parts come up in the documented order whatever happens.
* *No lost edits.* A controller never writes an old spec back, and changes in the last one only what its rules give it grounds to.
* *Approval.* An update of an enforcer waits for its approval.
* *Composition.* Together the controllers bring up whatever installation is asked for: nobody waits
  for what is made only after it, nobody undoes another's writes for ever, and what the user names
  reaches the pods.
* *Clean deletion.* What no owner reference removes is removed by the
  finalizer, and the deletion ends.
* *Liveness.* When the cluster settles, so does the state.

## 2. Modules

| Module | Models | Constants |
|---|---|---|
| `Csp` | the CSP controller, the parts and the user around it | kind of database, replica counts, contents of specs, kinds of enforcers, states the parts report, bounds |
| `CspInv` | the inductive invariants of `Csp` | |
| `CspProofs` | theorems about `Csp`, for TLAPS | |
| `MCCsp` | which states the parts report in each run | |
| `Operand` | server, gateway, scanner and enforcer controllers: one pattern with a few differences | `Kinds`, the operands looked at; data, what passes find of the secrets, bounds |
| `LevelTriggered` | the abstract specification of such a controller: what users ask for, what is in place, when it rests | values |
| `OperandProofs` | theorems about `Operand`, and that it implements `LevelTriggered`, for TLAPS | |
| `MCOperand` | the operands and the data of the runs | |
| `KubeEnforcer` | the kube-enforcer's finalizer, webhooks, certificates and state | platform, replicas, deletion, objects that others may delete, bound on faults |
| `KubeEnforcerProofs` | theorems about `KubeEnforcer`, for TLAPS | |
| `MCKubeEnforcer` | the module TLC runs `KubeEnforcer` from | |
| `Database` | the database controller, its passwords, the volumes they set up, users who edit and delete | specs, what users may delete, bounds |
| `DatabaseProofs` | theorems about `Database`, for TLAPS | |
| `MCDatabase` | the specs of the runs | |
| `Starboard` | the Starboard controller and the other controller that stores its spec | platform, specs, bound on events |
| `StarboardProofs` | theorems about `Starboard`, for TLAPS | |
| `StackObjects` | the objects each controller makes, in the order of its pass, and what each object needs others for by name | |
| `Stack` | all controllers but the Starboard's at once: who makes what, when pods can start, who writes whose spec | installations, objects whose copies lag or whose writes fail, bounds |
| `StackInv` | three inductive invariants of `Stack` | |
| `StackProofs`, `StackTemplates`, `StackRest` | theorems about `Stack`, for TLAPS | |
| `MCStack` | the installations of the run | |

### How code becomes actions

A pass is a process with a program counter `pc`, one action per call that
writes; reads that lead to that write are part of its action. Between any two
actions the user, the informers, the other controllers and faults may act.
`inst` is the variable `instance` of `Reconcile`, read by `Fetch` from the
informer's copy `seen`. `fresh` says that the copy is the stored resource,
`instFresh` that nobody else has stored the resource since `inst` was read: they
stand for the resource versions (one bit is enough, since all the API server does with the
version is to compare it). A status write succeeds when `instFresh`, and otherwise is dropped
as the code drops its error. `queued` is the work queue, which holds one
request per resource at most.

An error or a requeue puts the request back (`Finish(TRUE)`); a pass whose result is
ignored or empty does not (`Finish(FALSE)`), and the next one waits for an
event. `Deliver...` actions update one informer copy and queue the request, as the
watches of `SetupWithManager` do; `Resync` is the periodic resync; `Restart`
drops the pass and lists everything anew.

* **`Csp`.** `CreateDbPasswordSecret`, `InstallKhulnasoftDatabase`,
  `WaitForDatabase`, `InstallKhulnasoftServer`, `InstallKhulnasoftGateway`,
  `UpdateServerGatewayStatus`, `InstallKhulnasoftEnforcer`,
  `InstallKhulnasoftKubeEnforcer`, `FinishPass` are the steps of `Reconcile` in
  order. Each `Install` creates the part, or patches its replicas, or (only when these agree)
  the rest: `Patch`. `child` is the spec a part was last given, `view` what
  the informer shows, `stale` the parts stored since then. The parts' own controllers are
  `PartReports`: they store any state of `PartStates`. `DatabaseReadiness` is
  the database's Deployment, on which there is no watch.
* **`Operand`.** `Fetch`, `FillDefaults`, `MarkPending`, `CreateConfigMap`,
  `InstallWorkload` are the pass; `RollOut` replaces the pods, which read the
  ConfigMap as they start, `PodsRestart` and `PodsChange` are what pods do by
  themselves. `dep.tmpl` is the data that the checksum in the template was computed of.
  `kind`, chosen at the start, says which operand it is: `Gated` turns the Deployment into
  the enforcer's DaemonSet with its approval, `HasConfig` is false for the gateway, which has no
  ConfigMap of its own, and `DropsErrors` is the scanner, which ignores the errors of that step.
  A spec is a set of entries. Most are the user's alone (`Core`), but three the controllers rewrite in `updateXxxObject` and
  store (`Rewritten`): the default pull secret is named where none is, a pull secret that is not found is
  blanked (`DropsSecret`: enforcer and scanner), and mutual TLS is turned on once its secret is there (`TurnsMtlsOn`: all but the scanner).
  Each pass finds one of `Finds` of those secrets, since their informers lag and users make and delete them. `ConfigOf` is
  what a ConfigMap has of a spec.
  History variables serve the properties: `asked` is what users have stored, `wished` the last of it in full, and `grounds` the
  settings that passes which went by that last edit had grounds to change; `at` is the number of the
  edit the workload was last given, where `cr.edit`, `inst.edit` and `seen.edit` number the edits the copies are of;
  `dropped` says that the failure of a ConfigMap's write went unnoticed. `Promise` is `LevelTriggered` with
  `AtRest` as its `quiet`.
* **`KubeEnforcer`.** `objs[o]` is 0, or the number of the operator start that made
  object `o`, which tells certificates apart. `Fetch` branches on the deletion
  timestamp; `AddFinalizer`, `MarkPending`, `InstallObject` (one object per step, in the order
  of the code) and `InstallDeployment` are the pass of a live resource,
  `KubeEnforcerFinalizer` (one object per step) and `RemoveFinalizer` that of a deleted one. `RemoveClusterScoped`
  is somebody else who deletes a webhook or an RBAC object, of which no request comes: only another pass makes it again.
* **`Database`.** `Fetch` decides what the spec asks for (`Wanted`), which `Install` goes through in the
  `Order` of the code: `Create` what the copy does not show, `Skip` what it shows, and of a deployment
  `Rescale` or `ListNodes`. `MarkPending` and `MarkRunning` are the status writes around it. `password`
  is what a secret holds, `NewPassword` a random one; `data` is the password that the database image sets its
  volume up for (`Initialise`). `removed` remembers what users have deleted; an object
  deleted before its copy came leaves two events, of its creation and of its deletion.
* **`Starboard`.** One action per function that `Reconcile` calls. `made[o]` is the version of the operator whose
  content object `o` has, since what the helpers write is compared with what is stored; `dep` is the
  deployment's template. `StoreSpec` is `installKhulnasoftStarboard` of the kube-enforcer's controller, or a user,
  `Upgrade` the start of a newer operator. An informer has one kind of objects and its copies are of one moment
  (`Kind`); the events of cluster-scoped objects start no pass (`Wakes`).
* **`Stack`.** `StackObjects` has the `Reconcile`s as data: `Plan(c, o)` is the list of what controller `c` gets or
  creates, in order, for the choices `o` of an installation; `Needs` is what an object names; `Lenient` are the
  objects whose errors are dropped. Four actions walk any plan: `Begin` (read the resource, store the
  defaults, `Updated`), `CreateAccount` (the ServiceAccount they all share, where a pull secret that is not shown is
  dropped), `Write` (every other get or create; `Store` is what it writes) and `Gate` (where the CSP waits for
  the database, and for server and gateway). `Write` does in one step what comes before the next of `Halts`: most
  objects between are made by this pass only, and of the others (the discovery role and bindings) all that counts is that they are
  there. A failure among them leaves out what comes after it. `spec` is the
  stored spec of a part, `inst` the one a pass goes by. `StartPods` is the kubelet: pods start when all that their
  template names is there, and when their images can be pulled (`Pulls`). `past` remembers the templates a workload had.

## 3. Runs

| Run | Bounds | Shows |
|---|---|---|
| `Csp_order` | internal database, one kube-enforcer, 1 fault | `TypeOK`; `BringUpOrder`: parts only in order; `StatusNotAhead`; `StateSettles`, with a database that has to come up first |
| `Csp_spec` | 2 replica counts × 2 contents, 1 edit | `RestMeansConverged`, `RestMeansRunning`, `StatusForCurrentSpec`; the inductive invariant `IInv` |
| `Operand_safe` | all four operands, 2 specs, of which one names a pull secret that is not found, mutual TLS found, 1 edit, 1 fault | `TypeOK`, `RestMeansConverged`, `RestMeansReported`, `NeverPendingAgain`; `NoLostEdit`: the stored spec is the last one asked for, but for the default pull secret and for what a pass that went by this very edit had grounds to change, and nothing that an older spec was rewritten to comes back; `KeepsPromise`, the refinement of `LevelTriggered` with its liveness: no old spec is rolled back to, approvals are waited for, and the last spec is put in place, again and again; `StateSettles`, an update left without approval included |
| `KubeEnforcer_safe` | OpenShift, deletion at any time, 1 fault: a failed call, a restart, or a webhook that someone deletes | `TypeOK`, `NoOrphans`, `NoRecreation`; the inductive invariant `FinalizerInv`; `InstallConverges`, `StateSettles` |
| `Database_safe` | one database or two, the password the controller's or the user's, 1 edit, 1 fault or deletion | `TypeOK`, `PasswordKept`, `RunningMeansInstalled`, `RestMeansInstalled`, `RestMeansRunning`; `StateSettles` |
| `Starboard_safe` | OpenShift, 2 specs, 1 event (spec stored, upgrade, failure or restart) | `TypeOK`, `RestMeansInstalled`, `RestMeansReported`, `NoLostSpec`; `InstallConverges`, `StateSettles` |
| `Stack_safe` | five installations, lagging copies of the shared account and of the named pull secret, 1 fault in four of them | `TypeOK`; `NoTemplateReturns`: pods are not replaced to and fro by controllers that rewrite each other's specs; `RestMeansComplete`: a part at rest has all its objects, dropped errors or not; `DroppedOnlyWithAccount`: the database's pods go without the named secret only where the account does; `NameComesBack`: server, gateway and kube-enforcer have it in the end all the same; `EverythingStarts`, `NothingDangles`: all that is asked for comes up and stays, unless the database has lost that secret, and no object is left naming one that does not exist |

Why the bounds are enough. The hazards are races between one pass and one
event: an edit, a failure, a restart, a late copy. One edit is enough to make
the copy of a pass out of date and one fault to lose any single write, wherever
they fall, since both may happen between any two steps; late copies are not bounded at all. Two values tell an old
spec from a new one; in `Operand_safe` one has an entry more than the other, where the comparison
of ConfigMaps tells more from less, and names a pull secret, and in `Operand_restart` they differ in the value of one. In `Operand_safe` all passes
find the same (`OnlyMtls`): each spec is rewritten in the two ways there are, mutual TLS turned on and pull secrets blanked. Passes that find now a secret and now
none multiply the states beyond what a run can do, and are left to the proofs. In `Database` a user's deletions count as faults, and
in `Starboard`, whose eight objects with their copies make the largest state space, one bound, `MaxEvents`, is on everything
that does not belong to passes, informers and pods. The invariants of all passing runs are proved for every value of these bounds, but for two that assume few faults (section 5). The counters `edits` (`cr.edit` in `Operand`), `faults` and `changes` are the only
caps, `MaxEdits`, `MaxFaults` and `MaxEvents` their bounds; `Password` of `Database` is large enough for one that is not in use. No run uses symmetry. `RestMeansReported` asks for
nothing after a fault, and the run of `RestMeansRunning` has none: a status write that fails (not one that
conflicts) is made good only by a later pass, which the resync starts; that is what `StateSettles` checks
with faults. For the same reason `RestMeansConverged` says nothing of the ConfigMap once the failure of
a write of it was `dropped`, as every operand drops that of a Create and the scanner that of an Update.
No run has two kinds of enforcers in `Csp`: how the CSP takes the worst of two states (`WaitForEnforcersReady`) is
modelled and proved about, and checked with one of them.

`Stack_safe` looks at five installations, which between them make every object of `StackObjects`: `Named` (internal databases,
one of them for audit, and a pull secret the user has made and named), `Registry` (the operator makes the secret from the
registry's credentials; an enforcer), `External` (two databases of the user, logins, mutual TLS, a scanner added
later), `OpenShift` (the user's database, routes, cluster readers, a kube-enforcer) and `Late` (the same with a named pull
secret). Each but `Late`, whose late copies are many states already, has one fault: a failed write of one of the objects in
`Failing`, chosen for the places of a plan that differ (the account, a secret, a resource, a workload, an object whose error is
dropped, one whose event starts no pass), a failed store of defaults, or a restart. When two failures in a row are
dropped, nothing but the resync makes them good, and `Stack` does not count on that. All choices at once, with both enforcers,
are more than TLC gets through in minutes; its invariants are proved for them (section 5).
Copies of the account may lag, since every controller creates it. Those of the named pull secret may lag too:
a pass that does not find the secret at the account step goes on without it, and neither the account, which is never updated,
nor the database's resource and template, which are never compared, is put right later. `Stack_secret` shows that the
database's pods then go without (next table), and `EverythingStarts` excepts it, since what waits for the database waits for ever. `Stack_safe` shows how far this goes: where the account was given
the name, no failure, restart or default of another controller takes it from the database; and whatever the account was made with, the
CSP's later passes give it back to server, gateway and kube-enforcer (`Late` is there for that: in `Named` they wait for a database that
cannot start). Enforcer and scanner are left out there, because their own controllers
drop a name they do not find and store that: a scanner, whose spec is the user's, stays without it, and an enforcer gets it back from
a later pass of the CSP, which after a failed write only the resync starts. The model adds the scanner when the server is
running, which has given out its login.
`CHECK_DEADLOCK` is off in `Stack_safe` only: without the resync the controllers stop, as they should, when all is
installed. In the other runs it is on: `Resync` is always possible at rest, and the systems never stop.

Runs that find a disagreement between the code and what the repository says of it:

| Run | Disagreement |
|---|---|
| `Operand_restart` | pods keep an old ConfigMap for ever when the ConfigMap could not be created in the pass that rolled out its checksum |
| `KubeEnforcer_deletion` | the finalizer fails on objects that are not there: on plain Kubernetes a deletion never ends |
| `KubeEnforcer_certs` | a restart between webhooks and SSL secret leaves them with different certificates |
| `Stack_secret` | the pull secret the user has made and named does not reach the database when its copy comes late: the account step drops the name, and the database is given a default secret that does not exist |
| `Starboard_reader` | on OpenShift, next to a kube-enforcer, the Starboard's cluster reader binding is never made, since the guard asks for the kube-enforcer's |

Lesser ones, that no run is spent on, are listed with the hazards of `PROJECT.json`: `EnforcerWaiting` stays for ever once
the user takes the enforcers out of the spec (`khulnasoftcsp_controller.go:236`), the CSP counts a part
that has not reported as running (`khulnasoftcsp_controller.go:766`), an entry taken out of a configuration stays in the
ConfigMap (`khulnasoftserver_controller.go:534`), an edited replica count of the database is written to the status of its Deployment,
which does not change it (`khulnasoftdatabase_controller.go:290`), the ConfigMap of an unapproved update is stored
(`khulnasoftenforcer_controller.go:136`), and the kube-enforcer compares its pods with a number
of replicas its Deployment never asks for (`khulnasoftkubeenforcer_controller.go:497`). Modelling `Stack` brought up
more: the CSP gives the parts' specs without what their controllers fill in or drop, compares them whole, and
so the two go on storing the spec in turn (mutual TLS of the server, the pull secret that the enforcer's
controller does not find; the pods stay as they are, which is `NoTemplateReturns`); the cluster reader binding has a
fixed name and one subject, so that a second installation on the cluster goes without; and secrets that are got or
created once never follow an edit of the spec.
Slips in data that no model looks into: `khulnasoftStarboardHelper.go:629` sets `OPERATOR_BATCH_DELETE_DELAY` where the compliance setting
is meant, and `khulnasoftKubeEnforcerHelper.go` (`newStarboard`) fills `BatchDeleteDelay` from `BatchDeleteLimit`
and gives the validating webhook the timeout of the mutating one. The controllers of the scanner and of the Starboard put the
names of the pods into `Status.Nodes` in memory (`khulnasoftscanner_controller.go:224`, `khulnasoftstarboard_controller.go:239`)
and store them only together with a change of `State`, so that they go stale while it is `Running`.

## 4. Fairness

`FairSpec` asks for weak fairness of the controller's passes (a worker always
takes the next request and no call blocks for ever), of the delivery of each informer's
copy (watches are re-established) and of the resync (controller-runtime's default
period of ten hours). In `Csp` passes are interleaved with nothing else that must happen. Nothing is
asked of the user, of the pods, of the rollout or of the parts' controllers: the liveness
properties start from what these have come to, `<>[]` on their left-hand side,
so they are not promised when the cluster never settles. Faults are bounded, that
is, they stop some time. The liveness of `LevelTriggered`, `[]<>Settled`, is what `Operand` is shown to
have under this fairness, not an assumption of it.

`Stack` asks for less of the operator and for more of the cluster: no resync at all, but that pods which can start do
(weak fairness of `StartPods`, the kubelet's work). The fairness of its workers is the weak fairness of
`Reconcile(c)` written out, which spares TLC the evaluation of ENABLED on `Write`: a controller that has a request for a
resource that is there, or a pass under way (`Serving`), can always take a step, and each step changes its place in the plan.
So the run shows that the watches alone bring everything up.

## 5. Proofs

`CspProofs` proves, for every set of replica counts and contents, either kind
of database, every set of enforcers and reported states, removals allowed or
not, and every bound on edits and faults (assumptions `CspAssumption`,
`PartStatesAssumption`):

* `TypeCorrect`, `Spec => []TypeOK`;
* `IInvInvariant`, `Spec => []IInv`, and from it `OrderCorrect` (`BringUpOrder`), `StatusCorrect`
  (`StatusNotAhead`), `ConvergenceCorrect` (`RestMeansConverged`) and `NoStaleStatus` (`StatusForCurrentSpec`);
* where the spec drops no enforcers (`~AllowRemoval`) and no call fails (`MaxFaults = 0`): `RunningInvInvariant` (`RunningInv`)
  and `RunningAtRest` (`RestMeansRunning`), of which `RunningInv` was checked with TLC in the same way before. Both assumptions are needed: a spec that drops its enforcers keeps
  `EnforcerWaiting` (section 3), and a status write that fails is made good by the resync alone.

None of the four that follow from `IInv` is inductive: each speaks of what is stored, while a step
depends on copies. `IInv` adds what links the two:

* `InformersInv`: what the informers show exists, and what they do not show, or
  show in an old version, is still to be delivered (`stale`);
* `OrderInv`: how far `pc` has come tells which parts exist;
* `StatusInv`: every copy of the state (stored, shown, in the pass) says "running" or
  more only when server and gateway are visible;
* `InstanceInv`: an instance that may still be written back has the stored spec;
* `PassInv`: while nothing has happened that a later pass would be queued for, the
  steps behind `pc` have left their parts as the instance asks. This is the heart of convergence:
  a pass that ends without a requeue and is overtaken by no event leaves `RestMeansConverged`, and
  any write of a pass makes a part `stale`, whose delivery starts another pass.

The proof of `IInv` is one lemma per part of the invariant (`InformersStep`, `OrderStep`,
`StatusStep`, `InstanceStep`, `PassStep`), each with a case per action, over
lemmas about what an `Install` does to a part (`InstallEffect`, `InstallClean`). `RunningInv` adds that a pass that
nothing has overtaken may still write the status and holds the stored one, and that beyond its status step it
has found server and gateway running.

`OperandProofs` proves, for every set of operands and of contents, whatever the passes find of the secrets, and every bound (`OperandAssumption`):
`TypeCorrect`; `IInvInvariant`, `Spec => [](TypeOK /\ IInv)`; and from it `NoEditIsLost` (`NoLostEdit`), `ConvergenceCorrect`
(`RestMeansConverged`), `ReportsTruly` (`RestMeansReported`), `PendingOnlyOnce` (`NeverPendingAgain`) and `PromiseIsKept`:
every step of `Operand` is one of `LevelTriggered` or changes nothing it speaks of (`Promise!Safely`). The parts of `IInv`:

* `HistoryInv` puts the copies in order, `at <= inst.edit <= seen.edit <= cr.edit` while a pass runs, and each copy
  holds what was asked for in its edit. That the workload is never rolled back is this order, which holds
  because informers only move forward and every pass reads anew;
* `FreshInv`: what the versions vouch for, so that the whole spec that is written back is of the last edit;
* `GroundsInv`: whatever is of the last edit, the stored resource, the informer's copy or the instance of a pass, differs from what
  its user asked for only by the default pull secret and by `grounds`. `NoLostEdit` alone is not inductive, since a pass writes
  what it holds; and what is of an older edit, of which nothing is claimed, is never written, by `FreshInv`;
* `DropInv`: a write that was `dropped` is among the faults;
* `PassInv`: while nothing has happened that a later pass would be queued for, this one goes by the stored resource, and
  the ConfigMap behind it has every entry. Where a call has failed it goes by a spec of the same edit, but perhaps by a
  rewriting of its own that it could not store;
* `RestInv`: the same where the pass has ended, with the state it has reported.

`KubeEnforcerProofs` proves, for either platform, every number of replicas, whatever others delete, and every bound on
faults (`KubeEnforcerAssumption`): `TypeCorrect`; `FinalizerInvariant`, `Spec => []FinalizerInv`; and from it
`NothingLeftBehind` (`NoOrphans`) and `NothingComesBack` (`NoRecreation`). `NoOrphans` alone is not inductive: a pass
creates objects because of the finalizer it has read. `FinalizerInv` says which copies vouch for it: a copy
that is live and has the finalizer, and a pass beyond `AddFinalizer`, imply that the stored resource is there
with it (nobody but this controller takes it away, and only in a pass that read the deletion);
a deletion that was read stays true; and `at` counts the objects already deleted. Type correctness needs
one relation: the number of starts is at most one more than that of the faults.

`DatabaseProofs` proves, for every set of specs, whatever users may delete, and every bound (`DatabaseAssumption`):
`TypeCorrect`, `PasswordIsKept` (`PasswordKept`) and `RunningIsInstalled` (`RunningMeansInstalled`). `PasswordKept` rests on the API server refusing a second
creation, and on the controller never updating a secret: the one step that could break it creates a secret that is missing although
its data is set up. `PasswordInv` adds that data is only ever set up from a secret that is there, or that a user has deleted since.
`RunningMeansInstalled` needs to know what a pass has done: `PassInv` says that whatever the instance's spec asks for
and is no longer in `todo` exists or was deleted by a user, and that an instance that may still be written has the stored spec. That there is always a
password that is not in use (four may be) is the lemma behind type correctness. `InstalledAtRest`
(`RestMeansInstalled`) and `RunningAtRest` (`RestMeansRunning`) rest on `Covered`: an object that a pass has looked after is there, or the
copies of its kind differ from what there is, so that a delivery will start another pass; `RestInv` says this
of what a pass has behind it, and of what it leaves.

`StarboardProofs` proves, for either platform, every set of specs and every bound: `TypeCorrect`; `IInvInvariant`;
`InstalledAtRest` (`RestMeansInstalled`), `ReportsTruly` (`RestMeansReported`) and `SpecIsNotLost` (`NoLostSpec`). `CountInv` bounds
the versions by the events, `VersionInv` says that a copy which is not that of its object is late for what
this version has made, and `FreshInv`, `PassInv` and `RestInv` are as above. `Made` has the exception that the code makes: the
second ConfigMap is passed by in the pass that creates the first, whose event is then still to come.

`StackProofs` proves, for every installation, and whatever lags or fails (`StackAssumption`), `TypeCorrect`,
that is `TypeOK` with `OwnerInv`: no pass leaves its plan, and nothing is made that is in no plan. It rests on
what the seven plans are sequences of (a lemma each, put together in `PlanItems`), and on `WriteEffect`, which says what
`Write` comes to without its bookkeeping: some objects of the plan are made from the settings of the pass, which goes on or ends.

`StackTemplates` proves `TemplatesClimb` (`Spec => []TemplateInv`) and from it `TemplatesDoNotReturn`
(`NoTemplateReturns`), with no further hypothesis. That a template does not come back says nothing of
the pass that is about to write one, so it is not inductive. `TemplateInv` puts the settings of a workload in an order (`Below`:
the pull secret by `Rank`, and mutual TLS once seen) and says that they climb:

* `Climbing`: each template the workload had is below the one it has, which is below what a pass under way goes by,
  which is below what a pass that begins now would go by;
* `SpecsKnown`: what is stored in turn by the CSP and by a part's controller names no secret, the default or the one the CSP
  wants, so that what is filled in on top of it (`InMemory`) does not depend on who stored last;
* `BlankOnlyFirst`: the one setting that could fall is that of the CSP's pass, whose pull secret the account step may blank. That happens
  only where the account is made, and then no part has been given a secret other than the default;
* `AccountFirst`: which holds because the account precedes every part in the plan of the CSP, and nobody else makes it before there are parts.

On `AccountFirst` rests `DroppedWithAccount` (`DroppedOnlyWithAccount`) as well, also without a further hypothesis. `NamedInv` has the name in every
link from the KhulnasoftCsp to the pods, once the account carries it: the passes of the CSP and of the database's controller, the KhulnasoftDatabase,
the templates. Only the CSP's plan has the KhulnasoftDatabase and only the plan of the database's
controller has its workloads (`Foreign`), so that no other controller can break a link. The step that makes the account
is the one that has to establish them all: it is a step of the CSP's pass, before there is a database, a pass of it, or a workload.

`StackRest` proves `LeftOutIsMadeGood` (`Spec => []CompletionInv`) and from it `RestIsComplete` (`RestMeansComplete`), assuming
`FailsOnce`: at most one call fails, or no object that may fail is one whose error is dropped. Without it the property is
false, of the code as well: when the pass that is to make good a failure drops a second one, it may have made nothing whose event starts a third
(`keBinding` of the kube-enforcer, twice), and only the resync is left. The invariant has three parts, for each part of the installation:

* `PassedMade`: what a pass has behind it is made;
* `RestSound`: a part at rest has all of its objects, or the one failure has happened and an event of one of its `Witnesses` is under way;
* `WitnessSound`: before the failure, a part that has a witness has all that could have been left out, so that the pass which drops an error
  makes a witness itself. This is where the order of the plans counts: the workload of server, gateway, enforcer and scanner, whose event
  starts a pass, comes after all whose errors are dropped (`WitnessesLast`). The kube-enforcer has two witnesses, so that one remains when
  the other is what failed, and both come after the only object whose failure ends its pass (`WitnessesPlanned`). The database drops no errors.

Both rest on the order of the plans (`NoneAfter`: nothing of one kind after anything of another), proved plan by plan in
`StackTemplates`, and on `WriteItems`, which says item by item what a step of a pass does: what was due before its end is
made, or there already, or failed. Before they were proved, `TemplateInv`, `CompletionInv` and `NamedInv` were checked with TLC, added to
`Stack_safe` as INVARIANTs (`MCStack` extends `StackInv` for that). An SMT obligation cannot hold the empty string, hence `Unset` of `StackInv`.

Every invariant and action property of the passing runs is stated by a theorem. Only model-checked: the liveness half of `KeepsPromise`,
and all other liveness properties: liveness under fairness, and ENABLED, are out of the prover's reach. No module has a
RECURSIVE operator.

## 6. Not modelled, and why

* Deletion of a KhulnasoftCsp or of the operands: owner references do it, no code of the repository runs.
* What accounts, roles, services, routes and most secrets hold: they are got or created once, and are names in
  `Stack`, there or not, with what each of them names. The passwords of the databases are in `Database`.
* In `Stack`: edits, deletion, the Starboard's own controller (`Starboard`), the approval of updates (`Operand`), and
  lagging copies of resources and workloads (`Csp`, `Operand`).
* Status fields other than `State`.
* What specs are copied into: images, volumes, environment. They are one value, `rest` or `data`.
* Two resources of one kind in one namespace, which share the names of objects.
* The scaling of scanners by the length of a queue (`ScaleScannerCLI`, `GetPendingScanQueue`): the call of it is
  commented out, nothing runs it.
* Flags, metrics, leader election, manifests, generated code, tests.

## 7. Plan

Order of the modules, the most important behaviour first. Done: `Csp`, `KubeEnforcer`, `Database`, `Operand` with its
abstract specification `LevelTriggered`, `Starboard`, and the composition `Stack`, each with proofs. Left:

1. `Defaults`: `UpdateKhulnasoftInfrastructure`, `UpdateKhulnasoftCommon`, `GetImageData`,
   `AppendEnvVar` as operators, checked against reference definitions
   (idempotence: filling defaults twice changes nothing; merging keeps every name once).
2. `KubeEnforcer`: a user who edits the webhooks, and a resource made again after its deletion.
3. `Stack` with two installations on one cluster, or two resources of one kind in one namespace: who shares the
   objects of fixed names, and who is left without.
4. The refinement of `LevelTriggered` by each part of `Csp`, as by `Operand`.

Theorems still worth proving: that at rest nothing dangles in `Stack`, the safety half of `NothingDangles`, which follows from
`RestIsComplete` and from the closure of the plans under `Needs`; and the same completeness of the CSP's own pass.
