------------------------------- MODULE Stack --------------------------------
(***************************************************************************)
(* All controllers at once, bringing up what one KhulnasoftCsp asks for.     *)
(* The KhulnasoftCsp controller makes the resources of the parts, their      *)
(* controllers make the objects of StackObjects, and pods start when all     *)
(* that their template names is there.  The controllers share a cache, and  *)
(* they meet in what they share by name: ServiceAccount, secrets, roles,     *)
(* the server's ConfigMap; and in the specs of the parts, which the CSP      *)
(* writes and the parts' controllers write back with what they filled in.    *)
(*                                                                         *)
(* A pass goes through its plan item by item and stops for others to step in *)
(* where it writes what they read: resources, ServiceAccount, states and      *)
(* workloads.  Objects that only this pass makes are made in one step up to   *)
(* the first that fails, and objects already shown are passed over at once.   *)
(* Copies of resources and workloads never lag here (Csp and Operand are      *)
(* about that); those of the objects in Lagging may.  A resource is read and  *)
(* written back in one step: a write that another overtakes is refused, as    *)
(* if the other came later.                                                   *)
(*                                                                         *)
(* Not modelled: edits of the KhulnasoftCsp, deletion, what ConfigMaps and    *)
(* secrets hold, states of the parts but server and gateway.                 *)
(***************************************************************************)
EXTENDS StackObjects, Naturals, FiniteSets, FiniteSetsExt

CONSTANTS
  Names,     \* of the installations looked at
  Choice,    \* the choices of each
  Lagging,   \* objects whose informer copies may come late
  Failing,   \* objects whose Create or Update may fail
  MaxFaults  \* bound on failed calls and restarts of the operator, for each choice

ASSUME StackAssumption == \A n \in Names : Choice[n] \in Installation /\ MaxFaults[n] \in Nat

VARIABLES
  opts,    \* the installation, which is the KhulnasoftCsp's choice
  made,    \* the objects in the API server
  shown,   \* those the informers show
  spec,    \* of each part: the pull secret it names, and mtls
  tmpl,    \* the same of each workload's pod template
  past,    \* history: templates each workload had before
  sa,      \* the ServiceAccount: who owns it, the pull secret it carries
  up,      \* workloads whose pods have started
  status,  \* Status.State of server and gateway
  queued,  \* controllers with a request in their work queue
  pos,     \* where each controller's pass is in its plan, 0 between passes
  inst,    \* the spec each pass goes by
  faults

chosen == Choice[opts]

apiVars  == <<opts, made, shown, spec, sa>>
podVars  == <<tmpl, past, up>>
passVars == <<queued, pos, inst>>
vars == <<apiVars, podVars, status, passVars, faults>>

PullSecret == {"", "registrySecret", "ownSecret", "keRegistrySecret"}
Setting    == [pull : PullSecret, mtls : BOOLEAN]
Blank      == [pull |-> "", mtls |-> FALSE]

Objects == [n \in Names |->
  (UNION {ObjectsOf(c, Choice[n]) : c \in Controllers}) \union Users \union Parts]

TypeOK ==
  /\ opts \in Names
  /\ shown \subseteq made /\ made \subseteq Objects[opts]
  /\ spec \in [Parts -> Setting] /\ inst \in [Controllers -> Setting]
  /\ tmpl \in [Workloads -> Setting] /\ past \in [Workloads -> SUBSET Setting]
  /\ sa \in [owner : Controllers \union {"none"}, pull : PullSecret]
  /\ up \subseteq made \intersect Workloads
  /\ status \in [Services -> {"", "Pending", "Running", "UpdateInProgress"}]
  /\ queued \subseteq Controllers
  /\ DOMAIN pos = Controllers /\ \A c \in Controllers : pos[c] \in 0 .. Len(Plan(c, chosen))
  /\ faults \in 0 .. MaxFaults[opts]

\* The KhulnasoftCsp is new.  What the user made, the operator has been shown but for
\* copies that lag.
Init ==
  /\ opts \in Names
  /\ made = (IF chosen.named /\ ~chosen.registry THEN {"ownSecret"} ELSE {})
            \union (IF chosen.mtls THEN Users \ {"ownSecret"} ELSE {})
  /\ shown \in {made, made \ Lagging}
  /\ spec = [c \in Parts |->
               IF c = "scanner" /\ chosen.named THEN [Blank EXCEPT !.pull = "ownSecret"] ELSE Blank]
  /\ tmpl = [w \in Workloads |-> Blank] /\ past = [w \in Workloads |-> {}]
  /\ sa = [owner |-> "none", pull |-> ""]
  /\ up = {} /\ status = [c \in Services |-> ""]
  /\ queued = {"csp"}
  /\ pos = [c \in Controllers |-> 0] /\ inst = [c \in Controllers |-> Blank]
  /\ faults = 0

-----------------------------------------------------------------------------
(* A pass begins, goes on and ends. *)

Fault == faults < MaxFaults[opts] /\ faults' = faults + 1

Plans    == [n \in Names |-> [c \in Controllers |-> Plan(c, Choice[n])]]
Dropping == [n \in Names |-> Lenient(Choice[n])]

PlanOf(c)  == Plans[opts][c]
Reading(c) == pos[c] > 0
Item(c)    == PlanOf(c)[pos[c]]
Last(c)    == Len(PlanOf(c))

\* Items at which a pass stops for the others to step in.
Halts == {"sa", "waitDb", "gate"}

Plain == (UNION {Objects[n] : n \in Names}) \ (Parts \union Workloads)

\* What a pass has to look at: all but the plain objects that are shown.  Past the end of
\* the plan it is over.
NextStop(c, from, there) ==
  LET plan == PlanOf(c) IN
  Min({i \in from .. Len(plan) : ~(plan[i] \in there /\ plan[i] \in Plain)}
      \union {Len(plan) + 1})

Finish(c, events) ==
  /\ pos' = [pos EXCEPT ![c] = 0]
  /\ inst' = [inst EXCEPT ![c] = Blank]
  /\ queued' = queued \union events

\* Mutant: an error is logged and not returned.
Retry_Never(c) == {}

\* A pass that returns an error is tried again.
Retry(c) == {c}

\* Mutant: a pass goes on past its last object.
GoOnFrom_NoEnd(c, from, by, events) ==
  /\ pos' = [pos EXCEPT ![c] = NextStop(c, from, shown')]
  /\ inst' = [inst EXCEPT ![c] = by]
  /\ queued' = queued \union events

\* Go on with the item at from or after.  The pass of the CSP asks to be requeued when
\* there are enforcers to wait for.
GoOnFrom(c, from, by, events) ==
  LET stop == NextStop(c, from, shown') IN
  IF stop > Last(c)
    THEN Finish(c, events \union (IF c = "csp" /\ chosen.kids # {} THEN {c} ELSE {}))
    ELSE /\ pos' = [pos EXCEPT ![c] = stop]
         /\ inst' = [inst EXCEPT ![c] = by]
         /\ queued' = queued \union events

\* updateEnforcerObject, updateScannerObject: a pull secret not found is dropped.
KeepShown(pull) == IF pull \in shown THEN pull ELSE ""

\* The spec of part c with what its controller fills in and stores.
Updated(c) ==
  [pull |-> CASE c \in Services -> Fill(spec[c].pull)
              [] c \in {"enforcer", "scanner"} -> KeepShown(Fill(spec[c].pull))
              [] OTHER -> spec[c].pull,
   mtls |-> spec[c].mtls \/ (c \in DOMAIN MtlsSecret /\ MtlsSecret[c] \in shown)]

\* Mutant: a part goes by the spec it read, not by the one it stores.
InMemory_AsRead(c) ==
  IF c = "csp" THEN [pull |-> IF chosen.named THEN "ownSecret" ELSE CspPull, mtls |-> FALSE]
               ELSE [spec[c] EXCEPT !.pull = Fill(@)]

\* What the pass goes by: defaults that are not stored are filled in on top.
InMemory(c) ==
  CASE c = "csp" -> [pull |-> IF chosen.named THEN "ownSecret" ELSE CspPull, mtls |-> FALSE]
    [] c = "database" -> [pull |-> Fill(spec[c].pull), mtls |-> FALSE]
    [] c = "kubeEnforcer" /\ spec[c].pull = "" -> [Updated(c) EXCEPT !.pull = "keRegistrySecret"]
    [] OTHER -> Updated(c)

Storing == Parts \ {"database"}

\* The error of the Update is ignored.  A stored change is an event for the part's
\* controller and for the owner's.
Begin(c) ==
  LET stores == c \in Storing /\ Updated(c) # spec[c]
      from   == NextStop(c, 1, shown) IN
  /\ c \in queued /\ pos[c] = 0 /\ c \in {"csp"} \union made
  /\ pos' = [pos EXCEPT ![c] = from]
  /\ inst' = [inst EXCEPT ![c] = InMemory(c)]
  /\ \/ /\ stores /\ spec' = [spec EXCEPT ![c] = Updated(c)]
        /\ queued' = queued \union (IF c = "scanner" THEN {c} ELSE {c, "csp"})
        /\ UNCHANGED faults
     \/ /\ IF stores THEN Fault ELSE UNCHANGED faults
        /\ queued' = queued \ {c} /\ UNCHANGED spec
  /\ UNCHANGED <<opts, made, shown, sa, podVars, status>>

-----------------------------------------------------------------------------
(* Get or create. *)

\* Mutant: the account keeps the name that is blanked for the rest of the pass.
CreateAccount_AsNamed(c) ==
  LET pull == KeepShown(inst[c].pull) IN
  /\ Reading(c) /\ Item(c) = "sa"
  /\ \/ /\ "sa" \notin made
        /\ made' = made \union {"sa"} /\ shown' = shown \union ({"sa"} \ Lagging)
        /\ sa' = [owner |-> c, pull |-> inst[c].pull]
        /\ GoOnFrom(c, pos[c] + 1, [inst[c] EXCEPT !.pull = pull],
                    IF "sa" \notin Lagging /\ Watches(c, "sa") THEN {c} ELSE {})
        /\ UNCHANGED faults
     \/ /\ IF "sa" \in made THEN UNCHANGED faults ELSE "sa" \in Failing /\ Fault
        /\ Finish(c, Retry(c)) /\ UNCHANGED <<made, shown, sa>>
  /\ UNCHANGED <<opts, spec, podVars, status>>

\* CreateKhulnasoftServiceAccount.  A pull secret not found is blanked, in the Common
\* section the rest of the pass goes by as well.
CreateAccount(c) ==
  LET pull == KeepShown(inst[c].pull) IN
  /\ Reading(c) /\ Item(c) = "sa"
  /\ \/ /\ "sa" \notin made
        /\ made' = made \union {"sa"} /\ shown' = shown \union ({"sa"} \ Lagging)
        /\ sa' = [owner |-> c, pull |-> pull]
        /\ GoOnFrom(c, pos[c] + 1, [inst[c] EXCEPT !.pull = pull],
                    IF "sa" \notin Lagging /\ Watches(c, "sa") THEN {c} ELSE {})
        /\ UNCHANGED faults
     \/ /\ IF "sa" \in made THEN UNCHANGED faults ELSE "sa" \in Failing /\ Fault
        /\ Finish(c, Retry(c)) /\ UNCHANGED <<made, shown, sa>>
  /\ UNCHANGED <<opts, spec, podVars, status>>

\* The item after those the pass writes in one go.
Beyond(c) ==
  LET plan == PlanOf(c) IN
  Min({i \in pos[c] .. Len(plan) : plan[i] \in Halts} \union {Len(plan) + 1})

\* Mutant: the CSP makes the parts and leaves their specs at that.
Due_MadeOnce(c, item) ==
  CASE item \in Workloads -> item \notin made \/ (c # "database" /\ tmpl[item] # inst[c])
    [] item = "pending"   -> FALSE
    [] item \in Parts     -> item \notin made
    [] OTHER              -> item \notin shown

\* Is there something to write?  A part gets the spec the CSP asks for and a workload the
\* template of the spec, but for the database's: of its resource only the replicas are
\* kept in step, and its controller does not compare templates.
Due(c, item) ==
  CASE item \in Parts     -> item \notin made \/ (item # "database" /\ spec[item] # inst[c])
    [] item \in Workloads -> item \notin made \/ (c # "database" /\ tmpl[item] # inst[c])
    [] item = "pending"   -> FALSE
    [] OTHER              -> item \notin shown

\* What server and gateway report: Pending at first, and what a settled workload is.
Marked(c) == IF status[c] = "" THEN "Pending" ELSE status[c]
Report(c) ==
  CASE Deployment[c] \in up -> "Running"
    [] Deployment[c] \notin up /\ status[c] = "Running" -> "UpdateInProgress"
    [] OTHER -> Marked(c)

SetStatus(c, read) ==
  status' = IF c \in Services
              THEN [status EXCEPT ![c] = IF Deployment[c] \in read THEN Report(c) ELSE Marked(c)]
              ELSE status

\* The controllers that hear of it: of what is made or written, and of a status.
Events(c, written) ==
  (IF \E x \in written \ Lagging : Watches(c, x) THEN {c} ELSE {})
  \union (written \intersect Parts)
  \union (IF status' # status THEN {c, "csp"} ELSE {})

\* What is created or updated, from the settings the pass goes by.  Pods go when their
\* template is replaced.
Store(c, new) ==
  /\ made' = made \union new /\ shown' = shown \union (new \ Lagging)
  /\ spec' = [p \in Parts |-> IF p \in new THEN inst[c] ELSE spec[p]]
  /\ tmpl' = [w \in Workloads |-> IF w \in new THEN inst[c] ELSE tmpl[w]]
  /\ past' = [w \in Workloads |-> IF w \in new \intersect made
                                    THEN past[w] \union {tmpl[w]} ELSE past[w]]
  /\ up' = up \ new

\* The Creates and Updates of a pass, one after the other.  A Create fails when the object
\* exists and is not shown yet, and each may fail otherwise; an error that is not dropped
\* ends the pass.
Write(c) ==
  /\ Reading(c) /\ Item(c) \notin Halts
  /\ LET plan    == PlanOf(c)
         beyond  == Beyond(c)
         due     == {i \in pos[c] .. beyond - 1 : Due(c, plan[i])}
         hidden  == made \ shown
         refused == {i \in due : plan[i] \in hidden}
         drops   == Dropping[opts] \ shown IN
     \E failed \in {{}} \union {{i} : i \in {j \in due \ refused : plan[j] \in Failing}} :
       LET fatal == {i \in failed \union refused : plan[i] \notin drops}
           end   == Min(fatal \union {beyond})
           new   == {plan[i] : i \in {j \in due \ (failed \union refused) : j < end}}
           read  == {plan[i] : i \in (pos[c] .. end - 1) \ due} IN
       /\ \A i \in failed : i <= end
       /\ IF failed = {} THEN UNCHANGED faults ELSE Fault
       /\ Store(c, new) /\ SetStatus(c, read)
       /\ IF fatal = {} THEN GoOnFrom(c, beyond, inst[c], Events(c, new))
                        ELSE Finish(c, Retry(c) \union Events(c, new))
  /\ UNCHANGED <<opts, sa>>

\* WaitForDatabase, and the check of what server and gateway report: go on, or poll.
\* A part that has not reported counts as running.
Gate ==
  /\ Reading("csp") /\ Item("csp") \in {"waitDb", "gate"}
  /\ UNCHANGED <<apiVars, podVars, status, faults>>
  /\ IF \/ Item("csp") = "waitDb" /\ DatabaseWorkloads(chosen) \subseteq up
        \/ Item("csp") = "gate" /\ \A c \in Services : status[c] \in {"", "Running"}
       THEN GoOnFrom("csp", pos["csp"] + 1, inst["csp"], {})
       ELSE Finish("csp", {"csp"})

Reconcile(c) == Begin(c) \/ CreateAccount(c) \/ Write(c) \/ (c = "csp" /\ Gate)

-----------------------------------------------------------------------------
(* The cluster, the informers, and what goes wrong. *)

OwnerOf(object) ==
  IF object = "sa" THEN {sa.owner} ELSE {c \in Controllers : object \in ObjectsOf(c, chosen)}

Deliver ==
  \E object \in made \ shown :
    /\ shown' = shown \union {object}
    /\ queued' = queued \union
         (IF object \in Users /\ ~chosen.registry THEN {}
          ELSE {c \in OwnerOf(object) : Watches(c, object)})
    /\ UNCHANGED <<opts, made, spec, sa, podVars, status, pos, inst, faults>>

\* The template's pull secrets, or else those of the ServiceAccount; private images
\* cannot be pulled without.
Pulls(w) ==
  LET pull == IF tmpl[w].pull # "" THEN tmpl[w].pull ELSE sa.pull IN
  chosen.named \/ chosen.registry => pull \in made

\* The kubelet starts the pods of a workload that have all they name.
StartPods ==
  \E w \in (made \intersect Workloads) \ up :
    /\ Needs(w, chosen) \subseteq made
    /\ tmpl[w].mtls => MtlsSecret[PartOf[w]] \in made
    /\ Pulls(w)
    /\ up' = up \union {w} /\ queued' = queued \union {PartOf[w]}
    /\ UNCHANGED <<apiVars, tmpl, past, status, pos, inst, faults>>

\* The user adds a scanner, which is given a login of the running server.
AddScanner ==
  /\ chosen.scanner /\ "scanner" \notin made /\ status["server"] = "Running"
  /\ made' = made \union {"scanner"} /\ shown' = shown \union {"scanner"}
  /\ queued' = queued \union {"scanner"}
  /\ UNCHANGED <<opts, spec, sa, podVars, status, pos, inst, faults>>

Restart ==
  /\ Fault
  /\ shown' = made
  /\ pos' = [c \in Controllers |-> 0] /\ inst' = [c \in Controllers |-> Blank]
  /\ queued' = {"csp"} \union (made \intersect Parts)
  /\ UNCHANGED <<opts, made, spec, sa, podVars, status>>

Next ==
  \/ \E c \in Controllers : Reconcile(c)
  \/ Deliver \/ StartPods \/ AddScanner \/ Restart

Spec == Init /\ [][Next]_vars

Serving(c) == pos[c] > 0 \/ (c \in queued /\ c \in {"csp"} \union made)

\* The work queues are served, the watches deliver, and the kubelet starts what can be
\* started.  Nothing is asked of the informers' resync.  The first is the weak fairness of
\* Reconcile(c), which can step when Serving(c) and always moves pos[c], written out.
FairSpec == /\ Spec
            /\ \A c \in Controllers : <>[]Serving(c) => []<><<pos'[c] # pos[c]>>_pos
            /\ WF_vars(Deliver) /\ WF_vars(StartPods)

-----------------------------------------------------------------------------
(* Properties. *)

WantedParts == Services \union chosen.kids \union (IF chosen.external THEN {} ELSE {"database"})
               \union (made \intersect {"scanner"})

WantedWorkloads ==
  (IF chosen.external THEN {} ELSE DatabaseWorkloads(chosen))
  \union {Deployment[c] : c \in WantedParts \ {"database"}}

\* In the end no object names one that does not exist: every address is that of a
\* service, every role binding has its role and account, every webhook its service.
NothingDangles == <>[](\A object \in made : Needs(object, chosen) \subseteq made)

\* A pod template that was replaced does not come back: though the CSP and the parts'
\* controllers write the same specs in turn, the pods are not restarted to and fro.
NoTemplateReturns == \A w \in Workloads : tmpl[w] \notin past[w]

\* A part whose controller has nothing left to do has all of its objects: the Creates
\* whose errors are dropped have been made good (by the events of the others).
RestMeansComplete ==
  \A c \in Parts \intersect made :
    pos[c] = 0 /\ c \notin queued /\ shown = made => ObjectsOf(c, chosen) \subseteq made

\* The pull secret that the user has made and named in the common section is the one the
\* database's pods are given (docs/InstallOpenShift.md: "if already created image pull secret
\* then mention in here").
NamedSecretReachesDatabase ==
  \A w \in made \intersect DatabaseWorkloads(chosen) :
    chosen.named => tmpl[w].pull = "ownSecret"

\* Everything the KhulnasoftCsp asks for comes up and stays up: no part waits for what
\* another makes only after it, no write of one controller undoes another's for ever,
\* and what a failed call or a restart left out is made by a later pass, but for the
\* database, and what waits for it, that has lost the secret its images are pulled with.
EverythingStarts == <>[](NamedSecretReachesDatabase => up = WantedWorkloads)

\* The database's pods go without the secret the user named only where the account does:
\* the account step alone drops the name, once, and neither the defaults of two controllers
\* nor a pass that was cut short and begun again come between the account and the pods.
DroppedOnlyWithAccount ==
  \A w \in made \intersect DatabaseWorkloads(chosen) :
    chosen.named /\ sa.pull = "ownSecret" => tmpl[w].pull = "ownSecret"

\* For the parts that do not look the secret up themselves, which enforcer and scanner do,
\* the loss is made good: in the end they run with the secret the user named, whatever the
\* account and their first specs were made without.
NameComesBack ==
  <>[](\A c \in {"server", "gateway", "kubeEnforcer"} :
         chosen.named /\ Deployment[c] \in made => tmpl[Deployment[c]].pull = "ownSecret")
=============================================================================
