------------------------------ MODULE Database ------------------------------
(***************************************************************************)
(* The KhulnasoftDatabase controller.  A pass of Reconcile gets or creates, *)
(* in a fixed order, the service account, the secret with the password, the *)
(* volume, the deployment and the service of the database, then, when the   *)
(* spec splits the audit data off, those of a second database.  It draws a  *)
(* new random password every time, relies on the API server to refuse the   *)
(* second creation of a secret, and calls the resource Running at the end.  *)
(*                                                                         *)
(* Reads are of the informers' copies, which may lag behind.  Creations and *)
(* the status writes of a pass are the calls that may fail.                 *)
(*                                                                         *)
(* Not modelled: the names in Status.Nodes (only the write that adds some); *)
(* the deletion of the KhulnasoftDatabase; a resource without its deploy    *)
(* section, which the resource's schema refuses.                            *)
(***************************************************************************)
EXTENDS Naturals, FiniteSets

CONSTANTS
  Specs,      \* the specs the resource may be given,
  FirstSpecs, \* and those it may have at first
  Deletable,  \* objects a user may delete behind the controller's back
  MaxEdits,   \* bound on the edits of the spec
  MaxFaults   \* bound on failed calls, restarts and deletions by users

Secrets       == {"secret", "auditSecret"}
Volumes       == {"pvc", "auditPvc"}
Databases     == {"deployment", "auditDeployment"}
ServiceObjs   == {"service", "auditService"}
InformerKinds == {{"sa"}, Secrets, Volumes, Databases, ServiceObjs}
Object        == UNION InformerKinds
AuditObjects  == {"auditSecret", "auditPvc", "auditService", "auditDeployment"}

\* The order in which a pass looks after them.
Order == <<"sa", "secret", "pvc", "deployment", "service",
           "auditSecret", "auditPvc", "auditService", "auditDeployment">>

ASSUME DatabaseAssumption ==
  /\ Specs \subseteq [replicas : Nat \ {0}, split : BOOLEAN, given : BOOLEAN]
  /\ FirstSpecs \subseteq Specs
  /\ Deletable \subseteq Object \ Volumes  \* in use, a volume stays
  /\ MaxEdits \in Nat /\ MaxFaults \in Nat

Secret(d) == IF d = "deployment" THEN "secret" ELSE "auditSecret"
Volume(d) == IF d = "deployment" THEN "pvc" ELSE "auditPvc"

CR == [spec : Specs, state : {"", "Pending", "Running"}]

Password == 1 .. 5   \* enough for one that is not in use
None == 0

VARIABLES
  \* --- in the API server and the cluster
  cr,        \* the KhulnasoftDatabase
  objs,      \* the objects that exist
  password,  \* what each secret holds
  scale,     \* Spec.Replicas of each deployment
  data,      \* the password each volume's data was initialised with
  \* --- the informers' copies
  seen, fresh, visible,
  \* --- the controller
  queued, pc, inst, instFresh,
  todo,      \* what the pass has not looked after yet
  \* --- bookkeeping
  removed,   \* history: objects that users have deleted
  edits, faults

objVars   == <<objs, password, scale>>
copyVars  == <<seen, fresh, visible>>
passVars  == <<queued, pc, inst, instFresh, todo>>
userVars  == <<removed, edits>>
vars == <<cr, objVars, data, copyVars, passVars, userVars, faults>>

TypeOK ==
  /\ cr \in CR /\ seen \in CR /\ inst \in CR
  /\ objs \subseteq Object /\ visible \subseteq Object /\ todo \subseteq Object
  /\ removed \subseteq Object
  /\ password \in [Secrets -> Password \union {None}]
  /\ scale \in [Databases -> Nat]
  /\ data \in [Databases -> Password \union {None}]
  /\ fresh \in BOOLEAN /\ queued \in BOOLEAN /\ instFresh \in BOOLEAN
  /\ pc \in {"idle", "pending", "install"}
  /\ edits \in 0 .. MaxEdits /\ faults \in 0 .. MaxFaults

\* What the spec asks the controller for.
Wanted(spec) ==
  {o \in Object : /\ o \in AuditObjects => spec.split
                  /\ o = "secret" => ~spec.given}

\* The user, or the KhulnasoftCsp controller, has just created the resource, and the
\* secret it names if it names one.
Init ==
  /\ cr \in [spec : FirstSpecs, state : {""}]
  /\ objs = {o \in {"secret"} : cr.spec.given} /\ visible = objs
  /\ password = [s \in Secrets |-> IF s \in objs THEN 1 ELSE None]
  /\ scale = [d \in Databases |-> 0] /\ data = [d \in Databases |-> None]
  /\ seen = cr /\ fresh = TRUE
  /\ queued = TRUE /\ pc = "idle" /\ inst = cr /\ instFresh = FALSE /\ todo = {}
  /\ removed = {} /\ edits = 0 /\ faults = 0

-----------------------------------------------------------------------------
(* Writes. *)

Fault == faults < MaxFaults /\ faults' = faults + 1

\* _ = r.Client.Status().Update(instance)
StoreStatus(s) ==
  \/ /\ instFresh
     /\ cr' = [cr EXCEPT !.state = s] /\ fresh' = (fresh /\ s = cr.state)
     /\ UNCHANGED faults
  \/ ~instFresh /\ UNCHANGED <<cr, fresh, faults>>
  \/ Fault /\ UNCHANGED <<cr, fresh>>

\* The pass ends; an error puts the request back.
Finish(requeue) ==
  /\ pc' = "idle" /\ queued' = (queued \/ requeue) /\ todo' = {}
  /\ inst' = seen /\ instFresh' = FALSE

-----------------------------------------------------------------------------
(* The steps of Reconcile. *)

Fetch ==
  /\ pc = "idle" /\ queued
  /\ inst' = seen /\ instFresh' = fresh
  /\ queued' = FALSE /\ pc' = "pending" /\ todo' = Wanted(seen.spec)
  /\ UNCHANGED <<cr, objVars, data, copyVars, userVars, faults>>

\* Mutant: a resource that is Running already is marked too.
MarkPending_Always ==
  /\ pc = "pending"
  /\ StoreStatus("Pending") /\ inst' = [inst EXCEPT !.state = "Pending"]
  /\ pc' = "install"
  /\ UNCHANGED <<objVars, data, seen, visible, queued, instFresh, todo, userVars>>

MarkPending ==
  /\ pc = "pending"
  /\ IF inst.state = "Running"
       THEN UNCHANGED <<cr, fresh, faults, inst>>
       ELSE StoreStatus("Pending") /\ inst' = [inst EXCEPT !.state = "Pending"]
  /\ pc' = "install"
  /\ UNCHANGED <<objVars, data, seen, visible, queued, instFresh, todo, userVars>>

Advance(o) == todo' = todo \ {o} /\ UNCHANGED <<queued, pc, inst, instFresh>>

\* A random password is none that is in use.
NewPassword ==
  CHOOSE p \in Password : \A s \in Secrets, d \in Databases : p # password[s] /\ p # data[d]

Stored(o) ==
  /\ objs' = objs \union {o}
  /\ password' = [s \in Secrets |-> IF s = o THEN NewPassword ELSE password[s]]
  /\ scale' = [d \in Databases |-> IF d = o THEN inst.spec.replicas ELSE scale[d]]

\* Mutant: the object is written over when it is there already.
Create_Overwrites(o) ==
  /\ o \notin visible
  /\ Stored(o) /\ Advance(o) /\ UNCHANGED <<cr, fresh, faults>>

\* Mutant: as in the Starboard controller, a failed creation only asks for a requeue
\* that the caller does not look at.
Create_Swallows(o) ==
  /\ o \notin visible
  /\ \/ o \notin objs /\ Stored(o) /\ UNCHANGED faults
     \/ o \in objs /\ UNCHANGED <<objVars, faults>>
     \/ Fault /\ UNCHANGED objVars
  /\ Advance(o) /\ UNCHANGED <<cr, fresh>>

\* Mutant: an error ends the pass, which is not taken up again.
Create_GivesUp(o) ==
  /\ o \notin visible
  /\ \/ o \notin objs /\ Stored(o) /\ Advance(o) /\ UNCHANGED faults
     \/ o \in objs /\ Finish(FALSE) /\ UNCHANGED <<objVars, faults>>
     \/ Fault /\ Finish(FALSE) /\ UNCHANGED objVars
  /\ UNCHANGED <<cr, fresh>>

\* The object is not found: create it.  The API server refuses when it exists.
Create(o) ==
  /\ o \notin visible
  /\ \/ o \notin objs /\ Stored(o) /\ Advance(o) /\ UNCHANGED faults
     \/ o \in objs /\ Finish(TRUE) /\ UNCHANGED <<objVars, faults>>
     \/ Fault /\ Finish(TRUE) /\ UNCHANGED objVars
  /\ UNCHANGED <<cr, fresh>>

Skip(o) ==
  /\ o \in visible \ Databases
  /\ Advance(o) /\ UNCHANGED <<cr, objVars, fresh, faults>>

\* Mutant: the difference ends the pass, as the return inside the helper suggests.
Rescale_Returns(d) ==
  /\ d \in visible \intersect Databases /\ scale[d] # inst.spec.replicas
  /\ Finish(FALSE) /\ UNCHANGED <<cr, objVars, fresh, faults>>

\* Another replica count is written with Status().Update, which leaves Spec.Replicas
\* as it is, and the request to requeue is not looked at; an error ends the pass.
Rescale(d) ==
  /\ d \in visible \intersect Databases /\ scale[d] # inst.spec.replicas
  /\ \/ Advance(d) /\ UNCHANGED faults
     \/ Finish(TRUE) /\ Fault
  /\ UNCHANGED <<cr, objVars, fresh>>

\* Otherwise pods whose names are new go to Status.Nodes, with the state of the instance;
\* here an error of the write ends the pass.
ListNodes(d) ==
  /\ d \in visible \intersect Databases /\ scale[d] = inst.spec.replicas
  /\ \/ Advance(d) /\ UNCHANGED <<cr, fresh, faults>>
     \/ /\ instFresh /\ Advance(d)
        /\ cr' = [cr EXCEPT !.state = inst.state] /\ fresh' = FALSE /\ UNCHANGED faults
     \/ ~instFresh /\ Finish(TRUE) /\ UNCHANGED <<cr, fresh, faults>>
     \/ Fault /\ Finish(TRUE) /\ UNCHANGED <<cr, fresh>>
  /\ UNCHANGED objVars

\* The next object in the order.
Turn(o) == o \in todo /\ \A i, j \in DOMAIN Order : Order[i] = o /\ Order[j] \in todo => i <= j

Install ==
  /\ pc = "install"
  /\ \E o \in Object : Turn(o) /\ (Create(o) \/ Skip(o) \/ Rescale(o) \/ ListNodes(o))
  /\ UNCHANGED <<data, seen, visible, userVars>>

\* Mutant: a deployment that is not as wanted is told as in the other controllers.
MarkRunning_Updating ==
  /\ pc = "install" /\ todo = {}
  /\ StoreStatus(IF \E d \in Databases \intersect visible : scale[d] # inst.spec.replicas
                   THEN "UpdateInProgress" ELSE "Running")
  /\ Finish(FALSE)
  /\ UNCHANGED <<objVars, data, seen, visible, userVars>>

MarkRunning ==
  /\ pc = "install" /\ todo = {}
  /\ IF inst.state = "Running" THEN UNCHANGED <<cr, fresh, faults>> ELSE StoreStatus("Running")
  /\ Finish(FALSE)
  /\ UNCHANGED <<objVars, data, seen, visible, userVars>>

Reconcile == Fetch \/ MarkPending \/ Install \/ MarkRunning

-----------------------------------------------------------------------------
(* The user, the cluster and the informers, and what goes wrong. *)

EditSpec ==
  /\ edits < MaxEdits /\ edits' = edits + 1
  /\ \E s \in Specs \ {cr.spec} : s.given = cr.spec.given /\ cr' = [cr EXCEPT !.spec = s]
  /\ fresh' = FALSE /\ instFresh' = FALSE
  /\ UNCHANGED <<objVars, data, seen, visible, queued, pc, inst, todo, removed, faults>>

\* An object that goes before its copy has come leaves two events, and a copy that is as
\* it was.
Delete ==
  /\ Fault
  /\ \E o \in Deletable \intersect objs :
       /\ o = "secret" => ~cr.spec.given
       /\ objs' = objs \ {o} /\ removed' = removed \union {o}
       /\ queued' = (queued \/ o \notin visible)
  /\ UNCHANGED <<cr, password, scale, data, copyVars, pc, inst, instFresh, todo, edits>>

\* A database pod starts on an empty volume and sets the data up for the password
\* that the secret holds.
Initialise ==
  /\ \E d \in Databases :
       /\ {d, Secret(d), Volume(d)} \subseteq objs /\ data[d] = None
       /\ data' = [data EXCEPT ![d] = password[Secret(d)]]
  /\ UNCHANGED <<cr, objVars, copyVars, passVars, userVars, faults>>

Delivered ==
  queued' = TRUE /\ UNCHANGED <<cr, objVars, data, pc, inst, instFresh, todo, userVars, faults>>

DeliverCR == ~fresh /\ seen' = cr /\ fresh' = TRUE /\ Delivered /\ UNCHANGED visible

\* The informer of one kind of objects catches up.
DeliverObject ==
  /\ \E k \in InformerKinds :
       /\ visible \intersect k # objs \intersect k
       /\ visible' = (visible \ k) \union (objs \intersect k)
  /\ Delivered /\ UNCHANGED <<seen, fresh>>

Restart ==
  /\ Fault
  /\ seen' = cr /\ fresh' = TRUE /\ visible' = objs
  /\ pc' = "idle" /\ queued' = TRUE /\ inst' = cr /\ instFresh' = FALSE /\ todo' = {}
  /\ UNCHANGED <<cr, objVars, data, userVars>>

\* The periodic resync, and the events of a deployment whose status changes.
Resync == ~queued /\ Delivered /\ UNCHANGED copyVars

Next ==
  \/ Reconcile
  \/ EditSpec \/ Delete \/ Initialise
  \/ DeliverCR \/ DeliverObject
  \/ Restart \/ Resync

Spec == Init /\ [][Next]_vars

\* The work queue and the watches go on; nothing is asked of users or pods.
FairSpec == Spec /\ WF_vars(Reconcile) /\ WF_vars(DeliverCR) /\ WF_vars(DeliverObject)
                 /\ WF_vars(Resync)

-----------------------------------------------------------------------------
(* Properties. *)

AtRest == pc = "idle" /\ ~queued /\ fresh /\ visible = objs

\* A database is never locked out: although every pass draws a new password, and may
\* see an informer's copy without the secret, the secret of a database whose data is
\* set up holds the password of that data, unless a user has deleted the secret.
PasswordKept ==
  \A d \in Databases :
    data[d] # None /\ Secret(d) \in objs \ removed => password[Secret(d)] = data[d]

\* The resource becomes Running only when the pass has seen to all the spec asks for:
\* each object exists, or a user has deleted it since.
RunningMeansInstalled ==
  [][cr.state # "Running" /\ cr'.state = "Running" => Wanted(cr.spec) \subseteq objs \union removed]_vars

\* At rest nothing the spec asks for is missing, whichever calls have failed and
\* whatever was deleted.
RestMeansInstalled == AtRest => Wanted(cr.spec) \subseteq objs

\* ... and the state is Running: the conflicts that are dropped have been made good,
\* though a status write that fails otherwise is made good by the resync alone.
RestMeansRunning == AtRest /\ faults = 0 => cr.state = "Running"

\* The installation ends, and the state tells, whatever was edited on the way.
StateSettles == <>[](cr.state = "Running" /\ Wanted(cr.spec) \subseteq objs)
=============================================================================
