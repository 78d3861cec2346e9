-------------------------------- MODULE Csp --------------------------------
(***************************************************************************)
(* The KhulnasoftCsp controller: the reconciler that turns one KhulnasoftCsp  *)
(* resource into the resources of its parts, in order (database password,    *)
(* database, server and gateway, enforcers), and sums the states they report *)
(* up into the State of the KhulnasoftCsp.                                   *)
(*                                                                         *)
(* The controller reads everything from its informers' copies, which may   *)
(* lag behind the API server, and writes to the API server.  A write based *)
(* on an out-of-date copy is refused with a conflict.  One pass of         *)
(* Reconcile is a sequence of steps, one per call that writes, and the user, *)
(* the parts' own controllers and the informers act between any two.       *)
(*                                                                         *)
(* Not modelled: the deletion of the KhulnasoftCsp or of a part, the other    *)
(* secrets and the RBAC objects the pass creates first, and what the parts *)
(* do (their controllers are modules of their own).                        *)
(***************************************************************************)
EXTENDS Naturals, FiniteSets

CONSTANTS
  DbInternal,   \* Spec.DbService is used (no Spec.ExternalDb)
  HasPassword,  \* Spec.ExternalDb.Password is given
  Replicas,     \* replica counts a user may ask for
  Contents,     \* what the rest of the spec may hold, told apart by a number
  Kinds,        \* enforcer kinds a user may ask for
  PartStates,   \* the states each part's controller may report
  AllowRemoval, \* may the user drop an enforcer from the spec again?
  MaxEdits,     \* bound on the user's edits of the spec
  MaxFaults     \* bound on failed API calls and operator restarts

Services  == {"server", "gateway"}
Enforcers == {"enforcer", "kubeEnforcer"}
Reporters == Services \union Enforcers    \* parts whose State the controller reads
Object    == {"password", "database"} \union Reporters

ASSUME CspAssumption ==
  /\ DbInternal \in BOOLEAN /\ HasPassword \in BOOLEAN /\ AllowRemoval \in BOOLEAN
  /\ Replicas \subseteq Nat \ {0}
  /\ Contents \subseteq Nat \ {0}
  /\ Kinds \subseteq Enforcers
  /\ MaxEdits \in Nat /\ MaxFaults \in Nat

\* States of the parts ("" until their controllers first report) and of the CSP.
EnforcerStates == {"EnforcerWaiting", "EnforcerUpdateInProgress", "PendingApproval"}
State == EnforcerStates \union
         {"", "Pending", "Running", "UpdateInProgress", "WaitingDB", "WaitingKhulnasoft"}

ASSUME PartStatesAssumption == PartStates \in [Reporters -> SUBSET State]

PartSpec == [replicas : Nat, rest : Nat]
Blank    == [replicas |-> 0, rest |-> 0]
CspSpec  == [replicas : Replicas, rest : Contents, kids : SUBSET Kinds]
CR       == [spec : CspSpec, state : State]

VARIABLES
  \* --- in the API server
  csp,       \* the KhulnasoftCsp resource: its spec and its Status.State
  exists,    \* which parts exist
  child,     \* the spec each part was last given
  dbReady,   \* the database deployments have the replicas WaitForDatabase wants
  \* --- the controller's informers
  seen,      \* their copy of the KhulnasoftCsp
  fresh,     \* that copy is the stored one
  visible,   \* which parts they show
  view,      \* the spec they show of each part
  state,     \* the Status.State they show of each part
  stale,     \* parts stored since they were last shown
  \* --- the controller
  queued,    \* a request for the KhulnasoftCsp is in the work queue
  pc,        \* where the pass of Reconcile is
  inst,      \* "instance", its copy of the KhulnasoftCsp
  instFresh, \* no one else has stored the KhulnasoftCsp since inst was read
  \* --- bookkeeping
  dbEver,    \* history: the database has been ready at some time
  edits, faults

apiVars      == <<csp, exists, child, dbReady>>
informerVars == <<seen, fresh, visible, view, state, stale>>
passVars     == <<queued, pc, inst, instFresh>>
countVars    == <<dbEver, edits, faults>>
partVars     == <<exists, child, visible, view, state, stale>>
vars == <<apiVars, informerVars, passVars, countVars>>

Step == {"password", "database", "waitDb", "server", "gateway", "status",
         "enforcer", "kubeEnforcer", "wait"}

TypeOK ==
  /\ csp \in CR /\ seen \in CR /\ inst \in CR
  /\ exists \subseteq Object /\ visible \subseteq Object /\ stale \subseteq Object
  /\ child \in [Object -> PartSpec] /\ view \in [Object -> PartSpec]
  /\ state \in [Object -> State]
  /\ dbReady \in BOOLEAN /\ fresh \in BOOLEAN /\ queued \in BOOLEAN
  /\ instFresh \in BOOLEAN /\ dbEver \in BOOLEAN
  /\ pc \in Step \union {"idle"}
  /\ edits \in 0 .. MaxEdits /\ faults \in 0 .. MaxFaults

\* The user has just created the KhulnasoftCsp; the informers have listed it.
Init ==
  /\ csp \in [spec : CspSpec, state : {""}]
  /\ seen = csp /\ fresh = TRUE
  /\ inst = csp /\ instFresh = FALSE
  /\ exists = {} /\ visible = {} /\ stale = {}
  /\ child = [c \in Object |-> Blank] /\ view = child
  /\ state = [c \in Object |-> ""]
  /\ dbReady = FALSE /\ dbEver = FALSE
  /\ queued = TRUE /\ pc = "idle"
  /\ edits = 0 /\ faults = 0

-----------------------------------------------------------------------------
(* Ends of a pass and the writes it makes. *)

\* The pass ends, the instance is dropped; requeue puts the request back.
Finish(requeue) ==
  /\ pc' = "idle"
  /\ queued' = (queued \/ requeue)
  /\ inst' = seen /\ instFresh' = FALSE

\* Mutant: the write carries no resource version and always goes through.
StoreStatus_Unversioned(s) ==
  csp' = [csp EXCEPT !.state = s] /\ fresh' = FALSE /\ UNCHANGED faults

\* _ = r.Client.Status().Update(instance): stored when the instance is the latest
\* version; a conflict or a failed call is dropped without notice.
StoreStatus(s) ==
  \/ /\ instFresh
     /\ csp' = [csp EXCEPT !.state = s] /\ fresh' = FALSE
     /\ UNCHANGED faults
  \/ /\ ~instFresh
     /\ UNCHANGED <<csp, fresh, faults>>
  \/ /\ faults < MaxFaults /\ faults' = faults + 1
     /\ UNCHANGED <<csp, fresh>>

\* The state in memory is the new one whatever became of the write.
PutStatus(s) ==
  /\ StoreStatus(s)
  /\ inst' = [inst EXCEPT !.state = s]
  /\ UNCHANGED instFresh

\* Mutant: the pass returns without asking to be requeued.
PutStatusAndFinish_NoRequeue(s) ==
  /\ IF inst.state # s THEN StoreStatus(s) ELSE UNCHANGED <<csp, fresh, faults>>
  /\ Finish(FALSE)

\* The last act of a pass that asks to be requeued: write the state if it is new.
PutStatusAndFinish(s) ==
  /\ IF inst.state # s THEN StoreStatus(s) ELSE UNCHANGED <<csp, fresh, faults>>
  /\ Finish(TRUE)

\* What the CSP's spec asks of part c (newKhulnasoftDatabase, newKhulnasoftServer, ...).
Desired(c, spec) ==
  [replicas |-> IF c \in Services \union {"database"} THEN spec.replicas ELSE 0,
   rest     |-> IF c = "password" THEN 0 ELSE spec.rest]

\* Mutant: only replicas are ever synced.
Patch_ReplicasOnly(c, found, want) ==
  IF c \in Services \union {"database"} THEN [found EXCEPT !.replicas = want.replicas]
  ELSE want

\* What an Install function makes of the part it finds: replicas first, the
\* whole spec only on a later pass; of a database nothing but the replicas.
Patch(c, found, want) ==
  IF c \in Services \union {"database"} /\ found.replicas # want.replicas
    THEN [found EXCEPT !.replicas = want.replicas]
    ELSE IF c \in Reporters THEN want ELSE found

Advance(next) == pc' = next /\ UNCHANGED <<queued, inst, instFresh>>

Store(c, spec) ==
  /\ child' = [child EXCEPT ![c] = spec]
  /\ stale' = stale \union {c}

\* Get or create, then bring up to date.  Create fails when the part exists and
\* the informer does not show it yet; Update fails on an out-of-date copy.
Install(c, next) ==
  LET want == Desired(c, inst.spec)
      new  == Patch(c, view[c], want) IN
  /\ \/ /\ c \notin visible /\ c \notin exists
        /\ exists' = exists \union {c}
        /\ Store(c, want)
        /\ Advance(next)
     \/ /\ c \notin visible /\ c \in exists
        /\ Finish(TRUE) /\ UNCHANGED <<exists, child, stale>>
     \/ /\ c \in visible /\ new # view[c] /\ c \notin stale
        /\ Store(c, new)
        /\ Advance(next) /\ UNCHANGED exists
     \/ /\ c \in visible /\ new # view[c] /\ c \in stale
        /\ Finish(TRUE) /\ UNCHANGED <<exists, child, stale>>
     \/ /\ c \in visible /\ new = view[c]
        /\ Advance(next) /\ UNCHANGED <<exists, child, stale>>
  /\ UNCHANGED <<csp, dbReady, seen, fresh, visible, view, state, countVars>>

-----------------------------------------------------------------------------
(* The steps of Reconcile. *)

\* Get the instance from the informer; updateCspObject fills its defaults in memory.
Fetch ==
  /\ pc = "idle" /\ queued
  /\ inst' = seen /\ instFresh' = fresh
  /\ queued' = FALSE
  /\ pc' = "password"
  /\ UNCHANGED <<apiVars, informerVars, countVars>>

\* Requirements, RBAC and the database password secret, created once.
CreateDbPasswordSecret ==
  LET next == IF DbInternal THEN "database" ELSE "server" IN
  /\ pc = "password"
  /\ IF DbInternal \/ HasPassword
       THEN Install("password", next)
       ELSE Advance(next) /\ UNCHANGED <<apiVars, informerVars, countVars>>

InstallKhulnasoftDatabase == pc = "database" /\ Install("database", "waitDb")

\* Mutant: dbstatus is not looked at.
WaitForDatabase_NoGate ==
  /\ pc = "waitDb" /\ Advance("server")
  /\ UNCHANGED <<apiVars, informerVars, countVars>>

\* dbstatus: continue only when the database deployments are ready.
WaitForDatabase ==
  /\ pc = "waitDb"
  /\ IF dbReady THEN Advance("server") /\ UNCHANGED <<csp, fresh, faults>>
                ELSE PutStatusAndFinish("WaitingDB")
  /\ UNCHANGED <<exists, child, dbReady, seen, visible, view, state, stale, dbEver, edits>>

InstallKhulnasoftServer  == pc = "server"  /\ Install("server", "gateway")
InstallKhulnasoftGateway == pc = "gateway" /\ Install("gateway", "status")

\* Mutant: a failed Get leaves the state at the Running it was initialised with.
Reported_MissingRuns(c) == IF c \in visible THEN state[c] ELSE "Running"

\* A part the informer does not show counts as Pending; any state that is not
\* named here, the empty one included, counts as Running.
Reported(c) == IF c \in visible THEN state[c] ELSE "Pending"

\* Mutant: a state outside the enumeration.
GetGatewayServerState_Unlisted ==
  IF \E c \in Services : Reported(c) = "Pending" THEN "Creating" ELSE "Running"

\* Server and gateway taken together.
GetGatewayServerState ==
  IF \E c \in Services : Reported(c) = "Pending" THEN "WaitingKhulnasoft"
  ELSE IF \E c \in Services : Reported(c) = "UpdateInProgress" THEN "UpdateInProgress"
  ELSE "Running"

\* Not ready: report and requeue.  Ready: report Running unless the state is
\* about the enforcers, and go on to them.
UpdateServerGatewayStatus ==
  /\ pc = "status"
  /\ IF GetGatewayServerState # "Running"
       THEN PutStatusAndFinish(GetGatewayServerState)
       ELSE /\ IF inst.state \in EnforcerStates \union {"Running"}
                 THEN UNCHANGED <<csp, fresh, faults, inst, instFresh>>
                 ELSE PutStatus("Running")
            /\ pc' = "enforcer" /\ UNCHANGED queued
  /\ UNCHANGED <<exists, child, dbReady, seen, visible, view, state, stale, dbEver, edits>>

InstallEnforcers(kind, next) ==
  IF kind \in inst.spec.kids
    THEN Install(kind, next)
    ELSE Advance(next) /\ UNCHANGED <<apiVars, informerVars, countVars>>

InstallKhulnasoftEnforcer     == pc = "enforcer" /\ InstallEnforcers("enforcer", "kubeEnforcer")
InstallKhulnasoftKubeEnforcer == pc = "kubeEnforcer" /\ InstallEnforcers("kubeEnforcer", "wait")

\* Mutant: enforcers that have not run yet are not waited for.
WaitForEnforcersReady_NoWaiting(kids) ==
  IF \E c \in kids : Reported(c) = "EnforcerUpdateInProgress" THEN "EnforcerUpdateInProgress"
  ELSE IF \E c \in kids : Reported(c) = "PendingApproval" THEN "PendingApproval"
  ELSE "Running"

\* The worst of the states of the enforcers the spec asks for.
WaitForEnforcersReady(kids) ==
  IF \E c \in kids : Reported(c) = "Pending" THEN "EnforcerWaiting"
  ELSE IF \E c \in kids : Reported(c) = "EnforcerUpdateInProgress" THEN "EnforcerUpdateInProgress"
  ELSE IF \E c \in kids : Reported(c) = "PendingApproval" THEN "PendingApproval"
  ELSE "Running"

\* With enforcers: report their state and requeue.  Without: the pass is over.
FinishPass ==
  /\ pc = "wait"
  /\ IF inst.state # "UpdateInProgress" /\ inst.spec.kids # {}
       THEN PutStatusAndFinish(WaitForEnforcersReady(inst.spec.kids))
       ELSE Finish(FALSE) /\ UNCHANGED <<csp, fresh, faults>>
  /\ UNCHANGED <<exists, child, dbReady, seen, visible, view, state, stale, dbEver, edits>>

Reconcile ==
  \/ Fetch \/ CreateDbPasswordSecret \/ InstallKhulnasoftDatabase \/ WaitForDatabase
  \/ InstallKhulnasoftServer \/ InstallKhulnasoftGateway \/ UpdateServerGatewayStatus
  \/ InstallKhulnasoftEnforcer \/ InstallKhulnasoftKubeEnforcer \/ FinishPass

-----------------------------------------------------------------------------
(* The user, the parts' controllers, the informers, and what goes wrong. *)

\* The user stores a new spec; the copies of the controller are out of date.
EditSpec ==
  /\ edits < MaxEdits
  /\ \E s \in CspSpec :
       /\ s # csp.spec
       /\ AllowRemoval \/ csp.spec.kids \subseteq s.kids
       /\ csp' = [csp EXCEPT !.spec = s]
  /\ edits' = edits + 1
  /\ fresh' = FALSE /\ instFresh' = FALSE
  /\ UNCHANGED <<exists, child, dbReady, seen, visible, view, state, stale,
                 queued, pc, inst, dbEver, faults>>

DatabaseReadiness ==
  /\ "database" \in exists
  /\ dbReady' = ~dbReady /\ dbEver' = (dbEver \/ dbReady')
  /\ UNCHANGED <<csp, exists, child, informerVars, passVars, edits, faults>>

\* A part's controller stores its resource (its status).
PartReports(c) ==
  /\ c \in exists \intersect Reporters
  /\ stale' = stale \union {c}
  /\ UNCHANGED <<apiVars, seen, fresh, visible, view, state, passVars, countVars>>

\* The watch on the KhulnasoftCsp delivers the stored resource.
SyncCsp ==
  /\ ~fresh
  /\ seen' = csp /\ fresh' = TRUE /\ queued' = TRUE
  /\ UNCHANGED <<apiVars, visible, view, state, stale, pc, inst, instFresh, countVars>>

\* The watch on an owned part delivers it, with the state its controller may
\* have stored meanwhile, and queues the owner.
Deliver(c) ==
  /\ c \in stale
  /\ stale' = stale \ {c}
  /\ visible' = visible \union {c}
  /\ view' = [view EXCEPT ![c] = child[c]]
  /\ \/ UNCHANGED state
     \/ /\ c \in Reporters
        /\ \E s \in PartStates[c] : state' = [state EXCEPT ![c] = s]
  /\ queued' = TRUE
  /\ UNCHANGED <<apiVars, seen, fresh, pc, inst, instFresh, countVars>>

\* A call that creates or updates a part fails: the pass returns the error.
CallFails ==
  /\ pc \in {"password", "database", "server", "gateway", "enforcer", "kubeEnforcer"}
  /\ faults < MaxFaults /\ faults' = faults + 1
  /\ Finish(TRUE)
  /\ UNCHANGED <<apiVars, informerVars, dbEver, edits>>

\* The operator restarts: the pass is lost and the informers list everything.
Restart ==
  /\ faults < MaxFaults /\ faults' = faults + 1
  /\ pc' = "idle" /\ queued' = TRUE
  /\ seen' = csp /\ fresh' = TRUE
  /\ inst' = csp /\ instFresh' = FALSE
  /\ visible' = exists /\ view' = child /\ stale' = {}
  /\ UNCHANGED <<apiVars, state, dbEver, edits>>

\* The informers' periodic resync queues every KhulnasoftCsp again.
Resync ==
  /\ ~queued
  /\ queued' = TRUE
  /\ UNCHANGED <<apiVars, informerVars, pc, inst, instFresh, countVars>>

Next ==
  \/ Reconcile
  \/ EditSpec \/ DatabaseReadiness
  \/ \E c \in Reporters : PartReports(c)
  \/ SyncCsp
  \/ \E c \in Object : Deliver(c)
  \/ CallFails \/ Restart \/ Resync

Spec == Init /\ [][Next]_vars

\* The work queue serves its requests and the watches deliver; nothing obliges
\* the user, the database or the parts' controllers to act.
Fairness == /\ WF_vars(Reconcile) /\ WF_vars(SyncCsp)
            /\ \A c \in Object : WF_vars(Deliver(c))
            /\ WF_vars(Resync)

FairSpec == Spec /\ Fairness

-----------------------------------------------------------------------------
(* Properties. *)

\* The parts come up in order: the database after its password, server and
\* gateway after the database has been ready once, an enforcer after both; so no
\* part is started that finds nothing to connect to (the early returns of
\* Reconcile when dbstatus or serverGatewayReady is false).
BringUpOrder ==
  /\ "database" \in exists => "password" \in exists
  /\ exists \intersect Services # {} /\ DbInternal => "database" \in exists /\ dbEver
  /\ "gateway" \in exists => "server" \in exists
  /\ exists \intersect Enforcers # {} => Services \subseteq exists

\* The State never runs ahead of the parts: it says Running, or anything about
\* enforcers, only when the controller has been shown server and gateway.
StatusNotAhead ==
  csp.state \in EnforcerStates \union {"Running"} => Services \subseteq visible

\* The controller is at rest: nothing queued, nothing under way, nothing undelivered.
AtRest == pc = "idle" /\ ~queued /\ fresh /\ stale = {}

Wanted == (IF DbInternal THEN {"database"} ELSE {}) \union Services \union csp.spec.kids

Converged(c) ==
  /\ c \in exists
  /\ child[c].replicas = Desired(c, csp.spec).replicas
  /\ c # "database" => child[c].rest = Desired(c, csp.spec).rest

\* Level-triggered convergence: although the Install functions sync replicas and
\* the rest in different passes and their Requeue results are ignored, the
\* controller comes to rest only when every part holds what the spec asks for.
RestMeansConverged == AtRest => \A c \in Wanted : Converged(c)

\* ... and only when it has reported Running for a server and a gateway that it
\* was shown as neither Pending nor updating (status writes that run into a
\* conflict are dropped, so this needs the watch to start another pass).
RestMeansRunning ==
  AtRest => csp.state = "Running" /\ GetGatewayServerState = "Running"

\* A State computed for one spec is never stored beside another: the resource
\* version check drops status writes of a pass that began before an edit.
StatusForCurrentSpec ==
  [][csp'.state # csp.state => inst.spec = csp.spec /\ csp'.spec = csp.spec]_vars

\* When from some point on the database stays ready, server and gateway say
\* Running, and s is the worst that the enforcers asked for say, the State of the
\* CSP becomes s and stays it, whatever calls failed, conflicted or were cut off by
\* a restart before (the ignored errors of Status().Update are made good by later
\* passes).
ServicesHealthy ==
  (DbInternal => dbReady) /\ \A c \in visible \intersect Services : state[c] = "Running"
SomeEnforcerSays(s) == \E c \in csp.spec.kids : Reported(c) = s
WorstIs(s) ==
  CASE s = "EnforcerWaiting" -> SomeEnforcerSays("Pending")
    [] s = "EnforcerUpdateInProgress" -> SomeEnforcerSays(s) /\ ~SomeEnforcerSays("Pending")
    [] s = "PendingApproval" ->
         SomeEnforcerSays(s) /\ ~SomeEnforcerSays("Pending")
                             /\ ~SomeEnforcerSays("EnforcerUpdateInProgress")
    [] OTHER -> \A c \in csp.spec.kids : Reported(c) \in {"", "Running"}
StateSettles ==
  \A s \in EnforcerStates \union {"Running"} :
    <>[](ServicesHealthy /\ WorstIs(s)) => <>[](csp.state = s)
=============================================================================
