----------------------------- MODULE CspProofs -----------------------------
(***************************************************************************)
(* Proofs about Csp for every set of replica counts and contents, every    *)
(* bound on edits and faults, with an internal or an external database.    *)
(***************************************************************************)
EXTENDS CspInv, TLAPS

USE CspAssumption, PartStatesAssumption

\* What is asked of a part, and what an Install function makes of one, are part specs.
LEMMA ConstantTypes ==
  /\ \A c \in Object, s \in CspSpec : Desired(c, s) \in PartSpec
  /\ \A c \in Object, f, w \in PartSpec : Patch(c, f, w) \in PartSpec
  BY DEF CspSpec, PartSpec, Desired, Patch

\* A pass ends in a state of the right type.
LEMMA FinishType ==
  ASSUME TypeOK, NEW b \in BOOLEAN, Finish(b)
  PROVE  pc' \in Step \union {"idle"} /\ queued' \in BOOLEAN /\ inst' \in CR /\ instFresh' \in BOOLEAN
  BY DEF TypeOK, Finish

\* A status write, lost or not, keeps the types.
LEMMA StatusType ==
  ASSUME TypeOK, NEW s \in State
  PROVE  /\ StoreStatus(s) => csp' \in CR /\ fresh' \in BOOLEAN /\ faults' \in 0 .. MaxFaults
         /\ PutStatus(s) => /\ csp' \in CR /\ fresh' \in BOOLEAN /\ faults' \in 0 .. MaxFaults
                            /\ inst' \in CR /\ instFresh' \in BOOLEAN
         /\ PutStatusAndFinish(s) => /\ csp' \in CR /\ fresh' \in BOOLEAN
                                     /\ faults' \in 0 .. MaxFaults /\ pc' \in Step \union {"idle"}
                                     /\ queued' \in BOOLEAN /\ inst' \in CR /\ instFresh' \in BOOLEAN
<1>1. StoreStatus(s) => csp' \in CR /\ fresh' \in BOOLEAN /\ faults' \in 0 .. MaxFaults
  <2>1. StoreStatus(s) => csp' \in CR
    BY DEF TypeOK, StoreStatus, CR
  <2>2. StoreStatus(s) => fresh' \in BOOLEAN
    BY DEF TypeOK, StoreStatus
  <2>3. StoreStatus(s) => faults' \in 0 .. MaxFaults
    BY DEF TypeOK, StoreStatus, CspAssumption
  <2>4. QED  BY <2>1, <2>2, <2>3
<1>2. PutStatus(s) => inst' \in CR /\ instFresh' \in BOOLEAN
  BY DEF TypeOK, PutStatus, CR
<1>3. QED
  BY <1>1, <1>2, FinishType DEF PutStatus, PutStatusAndFinish, TypeOK

\* Installing a part keeps the types.
LEMMA InstallType ==
  ASSUME TypeOK, NEW c \in Object, NEW next \in Step, Install(c, next)
  PROVE  TypeOK'
<1>1. Desired(c, inst.spec) \in PartSpec /\ Patch(c, view[c], Desired(c, inst.spec)) \in PartSpec
  BY ConstantTypes DEF TypeOK, CR
<1>2. exists' \subseteq Object /\ child' \in [Object -> PartSpec] /\ stale' \subseteq Object
  BY <1>1 DEF TypeOK, Install, Store
<1>3. /\ pc' \in Step \union {"idle"} /\ queued' \in BOOLEAN
      /\ inst' \in CR /\ instFresh' \in BOOLEAN
  BY FinishType DEF TypeOK, Install, Advance
<1>4. UNCHANGED <<csp, dbReady, seen, fresh, visible, view, state, countVars>>
  BY DEF Install
<1>5. QED
  BY <1>2, <1>3, <1>4 DEF TypeOK, countVars

\* The unchanged variables of the steps that only look at states.
LEMMA StatusStepType ==
  ASSUME TypeOK, csp' \in CR, fresh' \in BOOLEAN, faults' \in 0 .. MaxFaults,
         pc' \in Step \union {"idle"}, queued' \in BOOLEAN, inst' \in CR, instFresh' \in BOOLEAN,
         UNCHANGED <<exists, child, dbReady, seen, visible, view, state, stale, dbEver, edits>>
  PROVE  TypeOK'
  BY DEF TypeOK

\* Both summaries are states of the enumeration.
LEMMA StatesAreStates ==
  /\ GetGatewayServerState \in State
  /\ \A kids : WaitForEnforcersReady(kids) \in State
  BY DEF GetGatewayServerState, WaitForEnforcersReady, State, EnforcerStates

\* Every step of a pass keeps the types.
LEMMA ReconcileType ==
  ASSUME TypeOK, Reconcile
  PROVE  TypeOK'
<1>1. ASSUME Fetch PROVE TypeOK'
  BY <1>1 DEF Fetch, TypeOK, apiVars, informerVars, countVars, Step
<1>2. ASSUME CreateDbPasswordSecret PROVE TypeOK'
  <2>1. CASE DbInternal \/ HasPassword
    <3>1. \E next \in Step : Install("password", next)
      BY <1>2, <2>1 DEF CreateDbPasswordSecret, Step
    <3>2. QED  BY <3>1, InstallType DEF Object
  <2>2. CASE ~(DbInternal \/ HasPassword)
    BY <1>2, <2>2 DEF CreateDbPasswordSecret, Advance, TypeOK, Step, apiVars, informerVars, countVars
  <2>3. QED  BY <2>1, <2>2
<1>3. ASSUME InstallKhulnasoftDatabase PROVE TypeOK'
  BY <1>3, InstallType DEF InstallKhulnasoftDatabase, Object, Step
<1>4. ASSUME WaitForDatabase PROVE TypeOK'
  <2>1. CASE dbReady
    BY <1>4, <2>1, StatusStepType DEF WaitForDatabase, Advance, TypeOK, Step
  <2>2. CASE ~dbReady
    BY <1>4, <2>2, StatusStepType, StatusType DEF WaitForDatabase, State
  <2>3. QED  BY <2>1, <2>2
<1>5. ASSUME InstallKhulnasoftServer PROVE TypeOK'
  BY <1>5, InstallType DEF InstallKhulnasoftServer, Object, Step, Reporters, Services
<1>6. ASSUME InstallKhulnasoftGateway PROVE TypeOK'
  BY <1>6, InstallType DEF InstallKhulnasoftGateway, Object, Step, Reporters, Services
<1>7. ASSUME UpdateServerGatewayStatus PROVE TypeOK'
  <2>1. CASE GetGatewayServerState # "Running"
    BY <1>7, <2>1, StatusStepType, StatusType, StatesAreStates DEF UpdateServerGatewayStatus
  <2>2. CASE GetGatewayServerState = "Running"
    <3>1. /\ csp' \in CR /\ fresh' \in BOOLEAN /\ faults' \in 0 .. MaxFaults
          /\ inst' \in CR /\ instFresh' \in BOOLEAN
      BY <1>7, <2>2, StatusType DEF UpdateServerGatewayStatus, State, TypeOK
    <3>2. pc' \in Step \union {"idle"} /\ queued' \in BOOLEAN
      BY <1>7, <2>2 DEF UpdateServerGatewayStatus, Step, TypeOK
    <3>3. QED
      BY <1>7, <3>1, <3>2, StatusStepType DEF UpdateServerGatewayStatus
  <2>3. QED  BY <2>1, <2>2
<1>8. ASSUME NEW k \in Enforcers, NEW next \in Step, InstallEnforcers(k, next) PROVE TypeOK'
  <2>1. CASE k \in inst.spec.kids
    BY <1>8, <2>1, InstallType DEF InstallEnforcers, Object, Reporters
  <2>2. CASE k \notin inst.spec.kids
    BY <1>8, <2>2 DEF InstallEnforcers, Advance, TypeOK, Step, apiVars, informerVars, countVars
  <2>3. QED  BY <2>1, <2>2
<1>9. ASSUME FinishPass PROVE TypeOK'
  <2>1. CASE inst.state # "UpdateInProgress" /\ inst.spec.kids # {}
    BY <1>9, <2>1, StatusStepType, StatusType, StatesAreStates DEF FinishPass
  <2>2. CASE ~(inst.state # "UpdateInProgress" /\ inst.spec.kids # {})
    <3>1. Finish(FALSE) /\ UNCHANGED <<csp, fresh, faults>>
      BY <1>9, <2>2 DEF FinishPass
    <3>2. QED  BY <1>9, <3>1, FinishType, StatusStepType DEF FinishPass, TypeOK
  <2>3. QED  BY <2>1, <2>2
<1>10. QED
  BY <1>1, <1>2, <1>3, <1>4, <1>5, <1>6, <1>7, <1>8, <1>9
     DEF Reconcile, InstallKhulnasoftEnforcer, InstallKhulnasoftKubeEnforcer, Enforcers, Step

\* Every step of the surroundings, faults included, keeps the types.
LEMMA EnvironmentType ==
  ASSUME TypeOK,
         \/ EditSpec \/ DatabaseReadiness \/ SyncCsp \/ CallFails \/ Restart \/ Resync
         \/ \E c \in Reporters : PartReports(c)
         \/ \E c \in Object : Deliver(c)
  PROVE  TypeOK'
<1> USE DEF apiVars, informerVars, passVars, countVars
<1>1. ASSUME EditSpec PROVE TypeOK'
  <2>1. csp' \in CR
    BY <1>1 DEF EditSpec, TypeOK, CR
  <2>2. edits' \in 0 .. MaxEdits
    BY <1>1 DEF EditSpec, TypeOK, CspAssumption
  <2>3. QED  BY <1>1, <2>1, <2>2 DEF EditSpec, TypeOK
<1>2. ASSUME DatabaseReadiness PROVE TypeOK'
  BY <1>2 DEF DatabaseReadiness, TypeOK
<1>3. ASSUME SyncCsp PROVE TypeOK'
  BY <1>3 DEF SyncCsp, TypeOK
<1>4. ASSUME CallFails PROVE TypeOK'
  <2>1. faults' \in 0 .. MaxFaults
    BY <1>4 DEF CallFails, TypeOK, CspAssumption
  <2>2. QED  BY <1>4, <2>1, FinishType DEF CallFails, TypeOK
<1>5. ASSUME Restart PROVE TypeOK'
  <2>1. faults' \in 0 .. MaxFaults
    BY <1>5 DEF Restart, TypeOK, CspAssumption
  <2>2. QED  BY <1>5, <2>1 DEF Restart, TypeOK
<1>6. ASSUME Resync PROVE TypeOK'
  BY <1>6 DEF Resync, TypeOK
<1>7. ASSUME NEW c \in Reporters, PartReports(c) PROVE TypeOK'
  BY <1>7 DEF PartReports, TypeOK, Object
<1>8. ASSUME NEW c \in Object, Deliver(c) PROVE TypeOK'
  <2>1. view' \in [Object -> PartSpec]
    BY <1>8 DEF Deliver, TypeOK
  <2>2. state' \in [Object -> State]
    BY <1>8, PartStatesAssumption DEF Deliver, TypeOK
  <2>3. QED  BY <1>8, <2>1, <2>2 DEF Deliver, TypeOK
<1>9. QED
  BY <1>1, <1>2, <1>3, <1>4, <1>5, <1>6, <1>7, <1>8

\* The initial states have the right types.
LEMMA InitType == Init => TypeOK
<1> SUFFICES ASSUME Init PROVE TypeOK
  OBVIOUS
<1>1. csp \in CR
  BY DEF Init, CR, State
<1>2. Blank \in PartSpec /\ "" \in State
  BY DEF Blank, PartSpec, State
<1>3. 0 \in 0 .. MaxEdits /\ 0 \in 0 .. MaxFaults
  BY DEF CspAssumption
<1>4. QED
  BY <1>1, <1>2, <1>3 DEF Init, TypeOK

\* Every step keeps the types.
LEMMA NextType == TypeOK /\ [Next]_vars => TypeOK'
<1>1. CASE UNCHANGED vars
  BY <1>1 DEF vars, apiVars, informerVars, passVars, countVars, TypeOK
<1>2. QED
  BY <1>1, ReconcileType, EnvironmentType DEF Next

\* The variables keep their types.
THEOREM TypeCorrect == Spec => []TypeOK
  BY InitType, NextType, PTL DEF Spec

-----------------------------------------------------------------------------
(* The steps, sorted by what they can touch. *)

\* A step that installs a part, for some part and some next place.
Installs == \E c \in Object, next \in Step : pc = c /\ Install(c, next)

\* A step that only moves on, or only writes the status.
Moves ==
  /\ UNCHANGED <<exists, child, dbReady, seen, visible, view, state, stale, dbEver, edits>>
  /\ csp'.spec = csp.spec
  /\ \/ UNCHANGED <<csp, fresh>>
     \/ fresh' = FALSE
  /\ \/ pc' # "idle" /\ UNCHANGED <<queued, instFresh>> /\ inst'.spec = inst.spec
     \/ pc' = "idle" /\ inst' = seen /\ instFresh' = FALSE

\* Every step of a pass but the first is one or the other.
LEMMA PassSteps ==
  ASSUME TypeOK, Reconcile, ~Fetch
  PROVE  Installs \/ Moves
<1> USE DEF apiVars, informerVars, countVars
<1>0. \A s : StoreStatus(s) => csp'.spec = csp.spec /\ (UNCHANGED <<csp, fresh>> \/ fresh' = FALSE)
  BY DEF StoreStatus, TypeOK, CR
<1>1. CASE CreateDbPasswordSecret
  BY <1>1 DEF CreateDbPasswordSecret, Installs, Moves, Advance, Object, Step
<1>2. CASE InstallKhulnasoftDatabase
  BY <1>2 DEF InstallKhulnasoftDatabase, Installs, Object, Step
<1>3. CASE WaitForDatabase
  BY <1>0, <1>3 DEF WaitForDatabase, PutStatusAndFinish, Advance, Finish, Moves
<1>4. CASE InstallKhulnasoftServer
  BY <1>4 DEF InstallKhulnasoftServer, Installs, Object, Step, Reporters, Services
<1>5. CASE InstallKhulnasoftGateway
  BY <1>5 DEF InstallKhulnasoftGateway, Installs, Object, Step, Reporters, Services
<1>6. CASE UpdateServerGatewayStatus
  <2>1. \A s : PutStatus(s) => inst'.spec = inst.spec /\ UNCHANGED instFresh
    BY DEF PutStatus, TypeOK, CR
  <2>2. CASE GetGatewayServerState # "Running"
    BY <1>0, <1>6, <2>2 DEF UpdateServerGatewayStatus, PutStatusAndFinish, Finish, Moves
  <2>3. CASE GetGatewayServerState = "Running"
    <3>1. inst'.spec = inst.spec /\ UNCHANGED <<queued, instFresh>> /\ pc' = "enforcer"
      BY <1>6, <2>1, <2>3 DEF UpdateServerGatewayStatus
    <3>2. csp'.spec = csp.spec /\ (UNCHANGED <<csp, fresh>> \/ fresh' = FALSE)
      BY <1>0, <1>6, <2>3 DEF UpdateServerGatewayStatus, PutStatus
    <3>3. QED  BY <1>6, <3>1, <3>2 DEF UpdateServerGatewayStatus, Moves
  <2>4. QED  BY <2>2, <2>3
<1>7. CASE InstallKhulnasoftEnforcer
  BY <1>7 DEF InstallKhulnasoftEnforcer, InstallEnforcers, Installs, Moves, Advance, Object, Step,
              Reporters, Enforcers
<1>8. CASE InstallKhulnasoftKubeEnforcer
  BY <1>8 DEF InstallKhulnasoftKubeEnforcer, InstallEnforcers, Installs, Moves, Advance, Object, Step,
              Reporters, Enforcers
<1>9. CASE FinishPass
  BY <1>0, <1>9 DEF FinishPass, PutStatusAndFinish, Finish, Moves
<1>10. QED
  BY <1>1, <1>2, <1>3, <1>4, <1>5, <1>6, <1>7, <1>8, <1>9 DEF Reconcile

\* What is stored behind the informers' back is marked as still to be delivered.
LEMMA InformersStep ==
  ASSUME TypeOK, InformersInv, [Next]_vars
  PROVE  InformersInv'
<1> USE DEF InformersInv, apiVars, informerVars, passVars, countVars
<1>1. ASSUME NEW c \in Object, NEW next \in Step, Install(c, next) PROVE InformersInv'
  BY <1>1 DEF Install, Store, TypeOK
<1>2. ASSUME Moves PROVE InformersInv'
  BY <1>2 DEF Moves
<1>3. ASSUME Fetch PROVE InformersInv'
  BY <1>3 DEF Fetch
<1>4. ASSUME EditSpec PROVE InformersInv'
  BY <1>4 DEF EditSpec
<1>5. ASSUME DatabaseReadiness PROVE InformersInv'
  BY <1>5 DEF DatabaseReadiness
<1>6. ASSUME NEW c \in Reporters, PartReports(c) PROVE InformersInv'
  BY <1>6 DEF PartReports
<1>7. ASSUME SyncCsp PROVE InformersInv'
  BY <1>7 DEF SyncCsp
<1>8. ASSUME NEW c \in Object, Deliver(c) PROVE InformersInv'
  BY <1>8 DEF Deliver, TypeOK
<1>9. ASSUME CallFails \/ Resync PROVE InformersInv'
  <2>1. UNCHANGED <<exists, child, csp, seen, fresh, visible, view, stale>>
    BY <1>9 DEF CallFails, Resync
  <2>2. QED  BY <2>1
<1>10. ASSUME Restart PROVE InformersInv'
  BY <1>10 DEF Restart
<1>11. CASE UNCHANGED vars
  BY <1>11 DEF vars
<1>12. QED
  BY <1>1, <1>2, <1>3, <1>4, <1>5, <1>6, <1>7, <1>8, <1>9, <1>10, <1>11, PassSteps
     DEF Next, Installs

\* After an Install the part is there, and the pass has gone on or is over.
LEMMA InstallEffect ==
  ASSUME TypeOK, InformersInv, NEW c \in Object, NEW next \in Step, Install(c, next)
  PROVE  /\ exists' = exists \union {c}
         /\ pc' \in {next, "idle"}
         /\ UNCHANGED <<csp, dbReady, seen, fresh, visible, view, state, dbEver>>
<1>1. UNCHANGED <<csp, dbReady, seen, fresh, visible, view, state, dbEver>>
  BY DEF Install, countVars
<1>2. exists' = exists \union {c}
  BY DEF Install, InformersInv
<1>3. pc' \in {next, "idle"}
  BY DEF Install, Advance, Finish
<1>4. QED  BY <1>1, <1>2, <1>3

\* Installing a part when the parts before it are there keeps the order.
LEMMA OrderStep ==
  ASSUME TypeOK, InformersInv, OrderInv, [Next]_vars
  PROVE  OrderInv'
<1> USE DEF OrderInv, BringUpOrder, Services, Enforcers, apiVars, informerVars, passVars, countVars,
            PastPassword, PastDatabase, PastWaitDb, PastServer, PastGateway
<1> "password" \in Object /\ "database" \in Object /\ "server" \in Object /\ "gateway" \in Object
    /\ "enforcer" \in Object /\ "kubeEnforcer" \in Object
  BY DEF Object, Reporters
<1> {"database", "waitDb", "server", "gateway", "status", "kubeEnforcer", "wait"} \subseteq Step
  BY DEF Step
<1>1. ASSUME Fetch PROVE OrderInv'
  BY <1>1 DEF Fetch
<1>2. ASSUME CreateDbPasswordSecret PROVE OrderInv'
  <2>1. CASE DbInternal \/ HasPassword
    BY <1>2, <2>1, InstallEffect DEF CreateDbPasswordSecret
  <2>2. CASE ~(DbInternal \/ HasPassword)
    BY <1>2, <2>2 DEF CreateDbPasswordSecret, Advance
  <2>3. QED  BY <2>1, <2>2
<1>3. ASSUME InstallKhulnasoftDatabase PROVE OrderInv'
  BY <1>3, InstallEffect DEF InstallKhulnasoftDatabase
<1>4. ASSUME WaitForDatabase PROVE OrderInv'
  <2>1. UNCHANGED <<exists, dbReady, dbEver>> /\ ((dbReady /\ pc' = "server") \/ pc' = "idle")
    BY <1>4 DEF WaitForDatabase, PutStatusAndFinish, Advance, Finish
  <2>2. QED  BY <1>4, <2>1 DEF WaitForDatabase
<1>5. ASSUME InstallKhulnasoftServer PROVE OrderInv'
  BY <1>5, InstallEffect DEF InstallKhulnasoftServer
<1>6. ASSUME InstallKhulnasoftGateway PROVE OrderInv'
  BY <1>6, InstallEffect DEF InstallKhulnasoftGateway
<1>7. ASSUME UpdateServerGatewayStatus PROVE OrderInv'
  BY <1>7 DEF UpdateServerGatewayStatus, PutStatus, PutStatusAndFinish, Finish
<1>8. ASSUME InstallKhulnasoftEnforcer PROVE OrderInv'
  <2>1. CASE "enforcer" \in inst.spec.kids
    BY <1>8, <2>1, InstallEffect DEF InstallKhulnasoftEnforcer, InstallEnforcers
  <2>2. CASE "enforcer" \notin inst.spec.kids
    BY <1>8, <2>2 DEF InstallKhulnasoftEnforcer, InstallEnforcers, Advance
  <2>3. QED  BY <2>1, <2>2
<1>9. ASSUME InstallKhulnasoftKubeEnforcer PROVE OrderInv'
  <2>1. CASE "kubeEnforcer" \in inst.spec.kids
    BY <1>9, <2>1, InstallEffect DEF InstallKhulnasoftKubeEnforcer, InstallEnforcers
  <2>2. CASE "kubeEnforcer" \notin inst.spec.kids
    BY <1>9, <2>2 DEF InstallKhulnasoftKubeEnforcer, InstallEnforcers, Advance
  <2>3. QED  BY <2>1, <2>2
<1>10. ASSUME FinishPass PROVE OrderInv'
  BY <1>10 DEF FinishPass, PutStatusAndFinish, Finish
<1>11. ASSUME \/ EditSpec \/ SyncCsp \/ Resync \/ UNCHANGED vars
              \/ \E c \in Reporters : PartReports(c)
              \/ \E c \in Object : Deliver(c)
       PROVE OrderInv'
  <2>1. UNCHANGED <<exists, dbReady, dbEver, pc>>
    BY <1>11 DEF EditSpec, SyncCsp, Resync, PartReports, Deliver, vars
  <2>2. QED  BY <2>1
<1>12. ASSUME DatabaseReadiness PROVE OrderInv'
  BY <1>12 DEF DatabaseReadiness, TypeOK
<1>13. ASSUME CallFails \/ Restart PROVE OrderInv'
  BY <1>13 DEF CallFails, Restart, Finish
<1>14. QED
  BY <1>1, <1>2, <1>3, <1>4, <1>5, <1>6, <1>7, <1>8, <1>9, <1>10, <1>11, <1>12, <1>13
     DEF Next, Reconcile

\* A copy of the KhulnasoftCsp with a late state, whichever copy it is, was made
\* when the informers showed server and gateway; they never unlearn a part.
LEMMA StatusStep ==
  ASSUME TypeOK, InformersInv, StatusInv, [Next]_vars
  PROVE  StatusInv'
<1> USE DEF StatusInv, apiVars, informerVars, passVars, countVars,
            PastPassword, PastDatabase, PastWaitDb, PastServer, PastGateway, PastStatus
<1>1. ASSUME NEW s \in State, s \in LateStates => Services \subseteq visible,
             StoreStatus(s)
      PROVE  csp'.state \in LateStates => Services \subseteq visible
  BY <1>1 DEF StoreStatus, TypeOK, CR
<1>2. ASSUME NEW s \in State, s \in LateStates => Services \subseteq visible,
             PutStatusAndFinish(s), UNCHANGED <<visible, seen>>
      PROVE  StatusInv'
  BY <1>1, <1>2 DEF PutStatusAndFinish, Finish
<1>3. GetGatewayServerState \in LateStates => Services \subseteq visible
  BY DEF GetGatewayServerState, Reported, LateStates, EnforcerStates
<1>4. ASSUME NEW c \in Object, NEW next \in Step, Install(c, next),
             next \in PastStatus => pc \in PastStatus
      PROVE  StatusInv'
  <2>1. pc' \in PastStatus => pc \in PastStatus /\ UNCHANGED inst
    BY <1>4 DEF Install, Advance, Finish
  <2>2. UNCHANGED inst \/ inst' = seen
    BY <1>4 DEF Install, Advance, Finish
  <2>3. UNCHANGED <<csp, seen, visible>>
    BY <1>4 DEF Install
  <2>4. QED  BY <2>1, <2>2, <2>3
<1>5. ASSUME CreateDbPasswordSecret PROVE StatusInv'
  <2>1. CASE DbInternal \/ HasPassword
    BY <1>4, <1>5, <2>1 DEF CreateDbPasswordSecret, Object, Step
  <2>2. CASE ~(DbInternal \/ HasPassword)
    BY <1>5, <2>2 DEF CreateDbPasswordSecret, Advance
  <2>3. QED  BY <2>1, <2>2
<1>6. ASSUME InstallKhulnasoftDatabase \/ InstallKhulnasoftServer PROVE StatusInv'
  BY <1>4, <1>6 DEF InstallKhulnasoftDatabase, InstallKhulnasoftServer, Object, Step, Reporters, Services
<1>7. ASSUME WaitForDatabase PROVE StatusInv'
  <2>1. CASE dbReady
    BY <1>7, <2>1 DEF WaitForDatabase, Advance
  <2>2. CASE ~dbReady
    BY <1>2, <1>7, <2>2 DEF WaitForDatabase, State, LateStates, EnforcerStates
  <2>3. QED  BY <2>1, <2>2
<1>8. ASSUME InstallKhulnasoftGateway PROVE StatusInv'
  <2>1. /\ UNCHANGED <<csp, seen, visible>> /\ (UNCHANGED inst \/ inst' = seen)
        /\ pc' \in {"status", "idle"}
    BY <1>8 DEF InstallKhulnasoftGateway, Install, Advance, Finish
  <2>2. QED  BY <2>1
<1>9. ASSUME UpdateServerGatewayStatus PROVE StatusInv'
  <2>1. CASE GetGatewayServerState # "Running"
    BY <1>2, <1>3, <1>9, <2>1, StatesAreStates DEF UpdateServerGatewayStatus
  <2>2. CASE GetGatewayServerState = "Running"
    <3>1. Services \subseteq visible
      BY <1>3, <2>2 DEF LateStates
    <3>2. inst'.state \in LateStates
      BY <1>9, <2>2 DEF UpdateServerGatewayStatus, PutStatus, LateStates, TypeOK, CR
    <3>3. UNCHANGED <<visible, seen>>
      BY <1>9 DEF UpdateServerGatewayStatus
    <3>4. QED  BY <3>1, <3>2, <3>3
  <2>3. QED  BY <2>1, <2>2
<1>10. ASSUME NEW kind \in Enforcers, NEW next \in Step, InstallEnforcers(kind, next), pc \in PastStatus
       PROVE  StatusInv'
  <2>1. CASE kind \in inst.spec.kids
    BY <1>4, <1>10, <2>1 DEF InstallEnforcers, Object, Reporters
  <2>2. CASE kind \notin inst.spec.kids
    BY <1>10, <2>2 DEF InstallEnforcers, Advance
  <2>3. QED  BY <2>1, <2>2
<1>11. ASSUME FinishPass PROVE StatusInv'
  <2>1. Services \subseteq visible
    BY <1>11 DEF FinishPass
  <2>2. UNCHANGED <<visible, seen>> /\ inst' = seen /\ pc' = "idle"
    BY <1>11 DEF FinishPass, PutStatusAndFinish, Finish
  <2>3. QED  BY <2>1, <2>2
<1>12. ASSUME Fetch PROVE StatusInv'
  BY <1>12 DEF Fetch
<1>13. ASSUME EditSpec \/ SyncCsp \/ CallFails \/ Restart PROVE StatusInv'
  <2>1. CASE EditSpec
    BY <2>1 DEF EditSpec, TypeOK, CR
  <2>2. CASE SyncCsp
    BY <2>2 DEF SyncCsp
  <2>3. CASE CallFails
    BY <2>3 DEF CallFails, Finish
  <2>4. CASE Restart
    BY <2>4 DEF Restart, InformersInv
  <2>5. QED  BY <1>13, <2>1, <2>2, <2>3, <2>4
<1>14. ASSUME \/ DatabaseReadiness \/ Resync \/ UNCHANGED vars
              \/ \E c \in Reporters : PartReports(c)
              \/ \E c \in Object : Deliver(c)
       PROVE StatusInv'
  <2>1. UNCHANGED <<csp, seen, inst, pc>> /\ visible \subseteq visible'
    BY <1>14 DEF DatabaseReadiness, Resync, PartReports, Deliver, vars
  <2>2. QED  BY <2>1
<1>15. QED
  BY <1>5, <1>6, <1>7, <1>8, <1>9, <1>10, <1>11, <1>12, <1>13, <1>14
     DEF Next, Reconcile, InstallKhulnasoftEnforcer, InstallKhulnasoftKubeEnforcer, Enforcers, Step

\* The resource version check keeps the instance that may be written back on the
\* stored spec, and every edit that reaches the informer queues a new pass.
LEMMA InstanceStep ==
  ASSUME TypeOK, InformersInv, InstanceInv, [Next]_vars
  PROVE  InstanceInv'
<1> USE DEF InstanceInv, apiVars, informerVars, passVars, countVars
<1>1. ASSUME Fetch PROVE InstanceInv'
  BY <1>1 DEF Fetch, InformersInv
<1>2. ASSUME NEW c \in Object, NEW next \in Step, Install(c, next), pc # "idle"
      PROVE  InstanceInv'
  BY <1>2 DEF Install, Advance, Finish
<1>3. ASSUME Moves, pc # "idle" PROVE InstanceInv'
  BY <1>3 DEF Moves
<1>4. ASSUME EditSpec \/ SyncCsp \/ CallFails \/ Restart \/ Resync PROVE InstanceInv'
  BY <1>4 DEF EditSpec, SyncCsp, CallFails, Restart, Resync, Finish
<1>5. ASSUME \/ DatabaseReadiness \/ UNCHANGED vars
             \/ \E c \in Reporters : PartReports(c)
      PROVE InstanceInv'
  BY <1>5 DEF DatabaseReadiness, PartReports, vars
<1>6. ASSUME NEW c \in Object, Deliver(c) PROVE InstanceInv'
  BY <1>6 DEF Deliver
<1>7. Reconcile => Fetch \/ pc # "idle"
  BY DEF Reconcile, CreateDbPasswordSecret, InstallKhulnasoftDatabase, WaitForDatabase,
         InstallKhulnasoftServer, InstallKhulnasoftGateway, UpdateServerGatewayStatus,
         InstallKhulnasoftEnforcer, InstallKhulnasoftKubeEnforcer, FinishPass
<1>8. QED
  BY <1>1, <1>2, <1>3, <1>4, <1>5, <1>6, <1>7, PassSteps DEF Next, Installs

\* When the Install of a part leaves nothing behind that would start another pass,
\* it has changed nothing, and the part is as the instance asks.
LEMMA InstallClean ==
  ASSUME TypeOK, InformersInv, NEW c \in Object, NEW next \in Step, Install(c, next), Clean'
  PROVE  /\ Clean /\ pc' = next
         /\ UNCHANGED <<exists, child, inst, csp>>
         /\ c # "password" => Meets(c, inst.spec)
<1>1. /\ c \in visible
      /\ Patch(c, view[c], Desired(c, inst.spec)) = view[c]
      /\ Advance(next) /\ UNCHANGED <<exists, child, stale>>
  BY DEF Install, Store, Finish, Clean, TypeOK
<1>2. Clean /\ pc' = next /\ UNCHANGED <<exists, child, inst, csp>>
  BY <1>1 DEF Install, Advance, Clean
<1>3. view[c] = child[c] /\ c \in exists
  BY <1>1, <1>2 DEF Clean, InformersInv
<1>4. child[c] \in PartSpec /\ Desired(c, inst.spec) \in PartSpec
  BY ConstantTypes DEF TypeOK, CR
<1>5. c # "password" => Meets(c, inst.spec)
  <2>1. CASE c \in Services
    BY <1>1, <1>3, <1>4, <2>1 DEF Patch, Meets, PartSpec, Services, Reporters
  <2>2. CASE c = "database"
    BY <1>1, <1>3, <1>4, <2>2 DEF Patch, Meets, PartSpec, Services
  <2>3. CASE c \in Enforcers
    BY <1>1, <1>3, <1>4, <2>3 DEF Patch, Meets, PartSpec, Services, Enforcers, Reporters
  <2>4. QED  BY <2>1, <2>2, <2>3 DEF Object, Reporters
<1>6. QED  BY <1>2, <1>5

\* A pass that nothing has overtaken leaves every part it has been at as the spec
\* asks, so when it ends without a requeue nothing is left to do.
LEMMA PassStep ==
  ASSUME IInv, [Next]_vars
  PROVE  PassInv' /\ RestMeansConverged'
<1> USE DEF IInv, PassInv, RestMeansConverged, AtRest,
            PastPassword, PastDatabase, PastWaitDb, PastServer, PastGateway, PastStatus,
            PastEnforcer, PastAll
<1>0. {"database", "waitDb", "server", "gateway", "status", "kubeEnforcer", "wait"} \subseteq Step
      /\ Object = {"password", "database", "server", "gateway", "enforcer", "kubeEnforcer"}
  BY DEF Step, Object, Reporters, Services, Enforcers
<1>1. ASSUME CreateDbPasswordSecret PROVE PassInv' /\ RestMeansConverged'
  <2>1. CASE DbInternal \/ HasPassword
    BY <1>0, <1>1, <2>1, InstallClean DEF CreateDbPasswordSecret, Clean
  <2>2. CASE ~(DbInternal \/ HasPassword)
    BY <1>1, <2>2 DEF CreateDbPasswordSecret, Advance
  <2>3. QED  BY <2>1, <2>2
<1>2. ASSUME InstallKhulnasoftDatabase PROVE PassInv' /\ RestMeansConverged'
  BY <1>0, <1>2, InstallClean DEF InstallKhulnasoftDatabase, Clean, Meets
<1>3. ASSUME WaitForDatabase PROVE PassInv' /\ RestMeansConverged'
  <2>1. CASE dbReady
    <3>1. pc = "waitDb" /\ pc' = "server"
          /\ UNCHANGED <<csp, queued, inst, fresh, stale, exists, child>>
      BY <1>3, <2>1 DEF WaitForDatabase, Advance
    <3>2. QED  BY <3>1 DEF Clean, Meets
  <2>2. CASE ~dbReady
    BY <1>3, <2>2 DEF WaitForDatabase, PutStatusAndFinish, Finish, Clean
  <2>3. QED  BY <2>1, <2>2
<1>4. ASSUME InstallKhulnasoftServer PROVE PassInv' /\ RestMeansConverged'
  BY <1>0, <1>4, InstallClean DEF InstallKhulnasoftServer, Clean, Meets
<1>5. ASSUME InstallKhulnasoftGateway PROVE PassInv' /\ RestMeansConverged'
  BY <1>0, <1>5, InstallClean DEF InstallKhulnasoftGateway, Clean, Meets
<1>6. ASSUME UpdateServerGatewayStatus PROVE PassInv' /\ RestMeansConverged'
  <2>1. CASE GetGatewayServerState # "Running"
    BY <1>6, <2>1 DEF UpdateServerGatewayStatus, PutStatusAndFinish, Finish, Clean
  <2>2. CASE GetGatewayServerState = "Running"
    <3>1. pc = "status" /\ pc' = "enforcer" /\ UNCHANGED <<queued, stale, exists, child>>
      BY <1>6, <2>2 DEF UpdateServerGatewayStatus
    <3>2. inst'.spec = inst.spec /\ (fresh' => fresh)
      BY <1>6, <2>2 DEF UpdateServerGatewayStatus, PutStatus, StoreStatus, TypeOK, CR
    <3>3. QED  BY <3>1, <3>2 DEF Clean, Meets
  <2>3. QED  BY <2>1, <2>2
<1>7. ASSUME InstallKhulnasoftEnforcer PROVE PassInv' /\ RestMeansConverged'
  <2>1. CASE "enforcer" \in inst.spec.kids
    BY <1>0, <1>7, <2>1, InstallClean DEF InstallKhulnasoftEnforcer, InstallEnforcers, Clean, Meets
  <2>2. CASE "enforcer" \notin inst.spec.kids
    <3>1. pc = "enforcer" /\ pc' = "kubeEnforcer"
          /\ UNCHANGED <<queued, inst, fresh, stale, exists, child>>
      BY <1>7, <2>2 DEF InstallKhulnasoftEnforcer, InstallEnforcers, Advance, apiVars, informerVars
    <3>2. QED  BY <2>2, <3>1 DEF Clean, Meets
  <2>3. QED  BY <2>1, <2>2
<1>8. ASSUME InstallKhulnasoftKubeEnforcer PROVE PassInv' /\ RestMeansConverged'
  <2>1. CASE "kubeEnforcer" \in inst.spec.kids
    BY <1>0, <1>8, <2>1, InstallClean DEF InstallKhulnasoftKubeEnforcer, InstallEnforcers, Clean, Meets
  <2>2. CASE "kubeEnforcer" \notin inst.spec.kids
    <3>1. pc = "kubeEnforcer" /\ pc' = "wait"
          /\ UNCHANGED <<queued, inst, fresh, stale, exists, child>>
      BY <1>8, <2>2 DEF InstallKhulnasoftKubeEnforcer, InstallEnforcers, Advance, apiVars, informerVars
    <3>2. QED  BY <2>2, <3>1 DEF Clean, Meets
  <2>3. QED  BY <2>1, <2>2
<1>9. ASSUME FinishPass PROVE PassInv' /\ RestMeansConverged'
  <2>1. pc = "wait" /\ pc' = "idle" /\ UNCHANGED <<exists, child, stale>>
    BY <1>9 DEF FinishPass, PutStatusAndFinish, Finish
  <2>2. CASE inst.state # "UpdateInProgress" /\ inst.spec.kids # {}
    BY <1>9, <2>2 DEF FinishPass, PutStatusAndFinish, Finish, Clean
  <2>3. CASE ~(inst.state # "UpdateInProgress" /\ inst.spec.kids # {})
    <3>1. UNCHANGED <<csp, fresh, queued>>
      BY <1>9, <2>3 DEF FinishPass, Finish, TypeOK
    <3>2. SUFFICES ASSUME Clean' PROVE RestMeansConverged'
      BY <2>1 DEF Clean
    <3>3. Clean /\ inst.spec = csp.spec
      BY <2>1, <3>1, <3>2 DEF Clean, InformersInv, InstanceInv
    <3>4. \A c \in Wanted : Meets(c, csp.spec)
      <4>1. csp.spec.kids \subseteq {"enforcer", "kubeEnforcer"}
        BY DEF TypeOK, CR, CspSpec, CspAssumption, Enforcers
      <4>2. /\ DbInternal => Meets("database", csp.spec)
            /\ Meets("server", csp.spec) /\ Meets("gateway", csp.spec)
            /\ "enforcer" \in csp.spec.kids => Meets("enforcer", csp.spec)
            /\ "kubeEnforcer" \in csp.spec.kids => Meets("kubeEnforcer", csp.spec)
        BY <2>1, <3>3
      <4>3. QED  BY <4>1, <4>2 DEF Wanted, Services
    <3>5. QED
      BY <2>1, <3>1, <3>4 DEF Wanted, Meets, Converged
  <2>4. QED  BY <2>2, <2>3
<1>10. ASSUME Fetch PROVE PassInv' /\ RestMeansConverged'
  BY <1>10 DEF Fetch
<1>11. ASSUME \/ EditSpec \/ SyncCsp \/ CallFails \/ Restart \/ Resync
              \/ \E c \in Object : Deliver(c)
              \/ \E c \in Reporters : PartReports(c)
       PROVE PassInv' /\ RestMeansConverged'
  <2>1. queued' \/ ~fresh' \/ stale' # {}
    BY <1>11 DEF EditSpec, SyncCsp, CallFails, Restart, Resync, Finish, Deliver, PartReports
  <2>2. QED  BY <2>1 DEF Clean
<1>12. ASSUME DatabaseReadiness \/ UNCHANGED vars PROVE PassInv' /\ RestMeansConverged'
  <2>1. UNCHANGED <<csp, exists, child, fresh, stale, queued, pc, inst>>
    BY <1>12 DEF DatabaseReadiness, vars, apiVars, informerVars, passVars
  <2>2. QED
    BY <2>1 DEF Clean, Meets, Converged, Wanted
<1>13. QED
  BY <1>1, <1>2, <1>3, <1>4, <1>5, <1>6, <1>7, <1>8, <1>9, <1>10, <1>11, <1>12
     DEF Next, Reconcile

\* The invariant of the bring-up is inductive.
THEOREM IInvInvariant == Spec => []IInv
<1>1. Init => IInv
  <2> SUFFICES ASSUME Init PROVE IInv
    OBVIOUS
  <2>1. TypeOK
    BY InitType
  <2>2. InformersInv
    BY DEF Init, InformersInv
  <2>3. OrderInv
    BY DEF Init, OrderInv, BringUpOrder, PastPassword, PastDatabase, PastWaitDb, PastServer, PastGateway
  <2>4. StatusInv
    BY DEF Init, StatusInv, LateStates, EnforcerStates, PastPassword, PastDatabase, PastWaitDb,
           PastServer, PastGateway, PastStatus
  <2>5. InstanceInv /\ PassInv /\ RestMeansConverged
    BY DEF Init, InstanceInv, PassInv, Clean, RestMeansConverged, AtRest
  <2>6. QED  BY <2>1, <2>2, <2>3, <2>4, <2>5 DEF IInv
<1>2. IInv /\ [Next]_vars => IInv'
  <2> SUFFICES ASSUME IInv, [Next]_vars PROVE IInv'
    OBVIOUS
  <2>1. TypeOK'
    BY NextType DEF IInv
  <2>2. InformersInv' /\ OrderInv' /\ StatusInv' /\ InstanceInv'
    BY InformersStep, OrderStep, StatusStep, InstanceStep DEF IInv
  <2>3. PassInv' /\ RestMeansConverged'
    BY PassStep
  <2>4. QED  BY <2>1, <2>2, <2>3 DEF IInv
<1>3. QED
  BY <1>1, <1>2, PTL DEF Spec

\* No part is started before the parts it connects to: the early returns of
\* Reconcile keep the bring-up in order through every failure and restart.
THEOREM OrderCorrect == Spec => []BringUpOrder
<1>1. IInv => BringUpOrder
  BY DEF IInv, OrderInv
<1>2. QED  BY <1>1, IInvInvariant, PTL

\* The State says Running, or speaks of enforcers, only once server and gateway were seen.
THEOREM StatusCorrect == Spec => []StatusNotAhead
<1>1. IInv => StatusNotAhead
  BY DEF IInv, StatusInv, StatusNotAhead, LateStates
<1>2. QED  BY <1>1, IInvInvariant, PTL

\* The controller comes to rest only when every part holds what the spec asks for.
THEOREM ConvergenceCorrect == Spec => []RestMeansConverged
<1>1. IInv => RestMeansConverged
  BY DEF IInv
<1>2. QED  BY <1>1, IInvInvariant, PTL

\* A state is stored only beside the spec it was computed for.
THEOREM NoStaleStatus == Spec => StatusForCurrentSpec
<1>1. IInv /\ [Next]_vars
        => [csp'.state # csp.state => inst.spec = csp.spec /\ csp'.spec = csp.spec]_vars
  <2> SUFFICES ASSUME IInv, Next, csp'.state # csp.state
               PROVE  inst.spec = csp.spec /\ csp'.spec = csp.spec
    OBVIOUS
  <2> USE DEF IInv, InstanceInv, TypeOK, CR, apiVars, informerVars, passVars, countVars
  <2>1. \A s : StoreStatus(s) => csp' = csp \/ (instFresh /\ csp'.spec = csp.spec)
    BY DEF StoreStatus
  <2>2. \A s : PutStatusAndFinish(s) => csp' = csp \/ (instFresh /\ csp'.spec = csp.spec)
    BY <2>1 DEF PutStatusAndFinish
  <2>3. ~Installs
    BY DEF Installs, Install
  <2>4. ASSUME Reconcile PROVE csp' = csp \/ (instFresh /\ csp'.spec = csp.spec)
    BY <2>1, <2>2, <2>3, <2>4
       DEF Reconcile, Fetch, CreateDbPasswordSecret, InstallKhulnasoftDatabase, WaitForDatabase,
           InstallKhulnasoftServer, InstallKhulnasoftGateway, UpdateServerGatewayStatus, PutStatus,
           InstallKhulnasoftEnforcer, InstallKhulnasoftKubeEnforcer, InstallEnforcers, FinishPass, Install
  <2>5. ASSUME ~Reconcile PROVE csp'.state = csp.state
    BY <2>5 DEF Next, EditSpec, DatabaseReadiness, PartReports, SyncCsp, Deliver, CallFails,
                Restart, Resync
  <2>6. QED  BY <2>4, <2>5
<1>2. QED
  BY <1>1, IInvInvariant, PTL DEF Spec, StatusForCurrentSpec

-----------------------------------------------------------------------------
(* At rest the State says Running. *)

\* Without failed calls a status write is stored or meets a conflict.
LEMMA StoreStatusStores ==
  ASSUME TypeOK, MaxFaults = 0, NEW s \in State, StoreStatus(s)
  PROVE  /\ csp'.spec = csp.spec /\ (csp' = csp \/ csp'.state = s)
         /\ instFresh => csp'.state = s
         /\ ~instFresh => UNCHANGED csp
         /\ UNCHANGED <<csp, fresh>> \/ fresh' = FALSE
<1>1. ~(faults < MaxFaults)
  BY DEF TypeOK
<1>2. CASE instFresh
  <2>1. csp' = [csp EXCEPT !.state = s] /\ fresh' = FALSE
    BY <1>1, <1>2, Zenon DEF StoreStatus
  <2> QED
    BY <1>2, <2>1 DEF TypeOK, CR
<1>3. CASE ~instFresh
  <2>1. UNCHANGED <<csp, fresh>>
    BY <1>1, <1>3, Zenon DEF StoreStatus
  <2> QED
    BY <1>3, <2>1
<1> QED
  BY <1>2, <1>3

\* A step that installs a part changes nothing that a pass without haste relies on.
LEMMA InstallRunning ==
  ASSUME IInv, RunningInv, NEW c \in Object, NEW next \in Step, Install(c, next),
         pc # "idle", next \in PastStatus => pc \in PastStatus
  PROVE  RunningInv'
<1> USE DEF IInv, RunningInv
<1>1. UNCHANGED <<csp, seen, visible, state>>
  BY DEF Install
<1>2. Advance(next) \/ Finish(TRUE)
  BY DEF Install
<1>3. GetGatewayServerState' = GetGatewayServerState
  BY <1>1 DEF GetGatewayServerState, Reported
<1>4. CASE Finish(TRUE)
  <2>1. pc' = "idle" /\ queued' /\ inst' = seen
    BY <1>4, Zenon DEF Finish
  <2>2. pc' \notin PastStatus
    BY <2>1 DEF PastStatus, PastGateway, PastServer, PastWaitDb, PastDatabase, PastPassword
  <2> QED
    BY <1>1, <2>1, <2>2 DEF Clean, RestMeansRunning, AtRest
<1>5. CASE Advance(next)
  <2>1. UNCHANGED <<inst, instFresh>> /\ pc' = next /\ pc' # "idle"
    BY <1>5 DEF Advance, Step
  <2>2. Clean' => Clean
    BY InstallClean
  <2> QED
    BY <1>1, <1>3, <2>1, <2>2 DEF RestMeansRunning, AtRest
<1> QED
  BY <1>2, <1>4, <1>5

\* So does one that moves on and writes nothing.
LEMMA MoveRunning ==
  ASSUME RunningInv, NEW next \in Step, Advance(next), pc # "idle",
         next \in PastStatus => pc \in PastStatus,
         UNCHANGED <<csp, seen, visible, state, fresh, stale>>
  PROVE  RunningInv'
<1>1. UNCHANGED <<queued, inst, instFresh>> /\ pc' = next /\ pc' # "idle"
  BY DEF Advance, Step
<1>2. Clean' => Clean
  BY <1>1, Zenon DEF Clean
<1>3. GetGatewayServerState' = GetGatewayServerState
  BY DEF GetGatewayServerState, Reported
<1> QED
  BY <1>1, <1>2, <1>3 DEF RunningInv, RestMeansRunning, AtRest

\* A pass that ends with a requeue only has to store a state that fits the spec.
LEMMA RequeueRunning ==
  ASSUME IInv, RunningInv, MaxFaults = 0, NEW s \in State,
         s \in EnforcerStates => inst.spec.kids # {},
         PutStatusAndFinish(s), UNCHANGED seen
  PROVE  RunningInv'
<1> USE DEF IInv, RunningInv
<1>1. pc' = "idle" /\ queued' /\ inst' = seen
  BY Zenon DEF PutStatusAndFinish, Finish
<1>2. pc' \notin PastStatus
  BY <1>1 DEF PastStatus, PastGateway, PastServer, PastWaitDb, PastDatabase, PastPassword
<1>3. csp'.state \in EnforcerStates => csp'.spec.kids # {}
  <2>1. CASE StoreStatus(s)
    <3>1. csp' = csp \/ (csp'.state = s /\ csp'.spec = inst.spec)
      BY <2>1, StoreStatusStores DEF InstanceInv
    <3> QED
      BY <3>1
  <2>2. CASE UNCHANGED csp
    BY <2>2
  <2> QED
    BY <2>1, <2>2 DEF PutStatusAndFinish
<1> QED
  BY <1>1, <1>2, <1>3 DEF Clean, RestMeansRunning, AtRest

LEMMA RunningStep ==
  ASSUME IInv, RunningInv, ~AllowRemoval, MaxFaults = 0, [Next]_vars
  PROVE  RunningInv'
<1> USE DEF apiVars, informerVars, passVars, countVars
<1>0. /\ {"database", "waitDb", "server", "gateway", "status", "kubeEnforcer", "wait"} \subseteq Step
      /\ Object = {"password", "database", "server", "gateway", "enforcer", "kubeEnforcer"}
      /\ PastStatus = {"enforcer", "kubeEnforcer", "wait"}
  BY DEF Step, Object, Reporters, Services, Enforcers, PastStatus, PastGateway, PastServer,
         PastWaitDb, PastDatabase, PastPassword
<1>1. TypeOK
  BY DEF IInv
<1>2. CASE Fetch
  <2>1. pc' = "password" /\ inst' = seen /\ UNCHANGED <<csp, seen, fresh>>
    BY <1>2 DEF Fetch
  <2>2. instFresh' = fresh
    BY <1>2, Zenon DEF Fetch
  <2>3. fresh => seen = csp
    BY DEF IInv, InformersInv
  <2> QED
    BY <1>0, <2>1, <2>2, <2>3 DEF RunningInv, Clean, RestMeansRunning, AtRest
<1>3. CASE CreateDbPasswordSecret
  <2>1. CASE DbInternal \/ HasPassword
    BY <1>0, <1>3, <2>1, InstallRunning DEF CreateDbPasswordSecret
  <2>2. CASE ~(DbInternal \/ HasPassword)
    BY <1>0, <1>3, <2>2, MoveRunning DEF CreateDbPasswordSecret
  <2> QED
    BY <2>1, <2>2
<1>4. CASE InstallKhulnasoftDatabase
  BY <1>0, <1>4, InstallRunning DEF InstallKhulnasoftDatabase
<1>5. CASE WaitForDatabase
  <2>1. CASE dbReady
    BY <1>0, <1>5, <2>1, MoveRunning DEF WaitForDatabase
  <2>2. CASE ~dbReady
    BY <1>5, <2>2, RequeueRunning DEF WaitForDatabase, State, EnforcerStates
  <2> QED
    BY <2>1, <2>2
<1>6. CASE InstallKhulnasoftServer
  BY <1>0, <1>6, InstallRunning DEF InstallKhulnasoftServer
<1>7. CASE InstallKhulnasoftGateway
  BY <1>0, <1>7, InstallRunning DEF InstallKhulnasoftGateway
<1>8. CASE UpdateServerGatewayStatus
  <2>1. GetGatewayServerState \in State \ EnforcerStates
    BY DEF GetGatewayServerState, State, EnforcerStates
  <2>2. CASE GetGatewayServerState # "Running"
    BY <1>8, <2>1, <2>2, RequeueRunning DEF UpdateServerGatewayStatus
  <2>3. CASE GetGatewayServerState = "Running"
    <3>1. /\ pc = "status" /\ pc' = "enforcer"
          /\ UNCHANGED <<queued, instFresh, seen, visible, state, stale>>
      BY <1>8, <2>3 DEF UpdateServerGatewayStatus, PutStatus
    <3>2. UNCHANGED <<csp, fresh, inst>> \/ PutStatus("Running")
      BY <1>8, <2>3 DEF UpdateServerGatewayStatus
    <3>3. GetGatewayServerState' = "Running"
      BY <2>3, <3>1 DEF GetGatewayServerState, Reported
    <3>4. CASE UNCHANGED <<csp, fresh, inst>>
      <4>1. Clean' => Clean
        BY <3>1, <3>4, Zenon DEF Clean
      <4> QED
        BY <3>1, <3>3, <3>4, <4>1 DEF RunningInv, RestMeansRunning, AtRest
    <3>5. CASE PutStatus("Running")
      <4>1. StoreStatus("Running") /\ inst' = [inst EXCEPT !.state = "Running"]
        BY <3>5 DEF PutStatus
      <4>2. inst'.state = "Running" /\ inst'.spec = inst.spec
        BY <1>1, <4>1 DEF TypeOK, CR
      <4>3. "Running" \in State /\ "Running" \notin EnforcerStates
        BY DEF State, EnforcerStates
      <4>4. /\ csp' = csp \/ csp'.state = "Running"
            /\ instFresh => csp'.state = "Running"
            /\ UNCHANGED <<csp, fresh>> \/ fresh' = FALSE
        BY <1>1, <4>1, <4>3, StoreStatusStores
      <4>5. Clean' => Clean
        BY <3>1, <4>4, Zenon DEF Clean
      <4> QED
        BY <3>1, <3>3, <4>2, <4>3, <4>4, <4>5 DEF RunningInv, RestMeansRunning, AtRest
    <3> QED
      BY <3>2, <3>4, <3>5
  <2> QED
    BY <2>2, <2>3
<1>9. ASSUME NEW kind \in Enforcers, NEW next \in Step, InstallEnforcers(kind, next),
             pc \in PastStatus
      PROVE  RunningInv'
  <2>1. kind \in Object /\ pc # "idle"
    BY <1>0, <1>9 DEF Object, Reporters
  <2>2. CASE kind \in inst.spec.kids
    BY <1>9, <2>1, <2>2, InstallRunning DEF InstallEnforcers
  <2>3. CASE kind \notin inst.spec.kids
    BY <1>9, <2>1, <2>3, MoveRunning DEF InstallEnforcers
  <2> QED
    BY <2>2, <2>3
<1>10. CASE InstallKhulnasoftEnforcer \/ InstallKhulnasoftKubeEnforcer
  BY <1>0, <1>9, <1>10 DEF InstallKhulnasoftEnforcer, InstallKhulnasoftKubeEnforcer, Enforcers
<1>11. CASE FinishPass
  <2>1. /\ pc = "wait" /\ pc' = "idle" /\ inst' = seen
        /\ UNCHANGED <<seen, visible, state, stale>>
    BY <1>11 DEF FinishPass, PutStatusAndFinish, Finish
  <2>2. CASE inst.state # "UpdateInProgress" /\ inst.spec.kids # {}
    <3>1. WaitForEnforcersReady(inst.spec.kids) \in State
      BY DEF WaitForEnforcersReady, State, EnforcerStates
    <3> QED
      BY <1>11, <2>1, <2>2, <3>1, RequeueRunning DEF FinishPass
  <2>3. CASE ~(inst.state # "UpdateInProgress" /\ inst.spec.kids # {})
    <3>1. UNCHANGED <<csp, fresh>> /\ Finish(FALSE)
      BY <1>11, <2>3, Zenon DEF FinishPass
    <3>2. Clean' => Clean
      BY <2>1, <3>1, Zenon DEF Clean, Finish
    <3>3. GetGatewayServerState' = GetGatewayServerState
      BY <2>1 DEF GetGatewayServerState, Reported
    <3>4. Clean => csp.state = "Running" /\ GetGatewayServerState = "Running"
      <4> SUFFICES ASSUME Clean PROVE csp.state = "Running" /\ GetGatewayServerState = "Running"
        OBVIOUS
      <4>1. GetGatewayServerState = "Running" /\ inst.state = csp.state
        BY <1>0, <2>1 DEF RunningInv
      <4>2. inst.state \in EnforcerStates \union {"Running"}
        BY <1>0, <2>1 DEF IInv, StatusInv, LateStates
      <4>3. inst.state \notin EnforcerStates
        BY <2>3, <4>2 DEF RunningInv, EnforcerStates
      <4> QED
        BY <4>1, <4>2, <4>3
    <3> QED
      BY <1>0, <2>1, <3>1, <3>2, <3>3, <3>4 DEF RunningInv, RestMeansRunning, AtRest, Clean
  <2> QED
    BY <2>2, <2>3
<1>12. CASE EditSpec
  <2>1. ~fresh' /\ ~instFresh' /\ UNCHANGED <<seen, inst>>
    BY <1>12 DEF EditSpec
  <2>2. csp'.state = csp.state /\ csp.spec.kids \subseteq csp'.spec.kids
    BY <1>1, <1>12 DEF EditSpec, TypeOK, CR
  <2> QED
    BY <2>1, <2>2 DEF RunningInv, Clean, RestMeansRunning, AtRest
<1>13. CASE SyncCsp \/ (\E c \in Object : Deliver(c)) \/ Resync
  <2>1. queued' /\ UNCHANGED <<csp, inst, pc>> /\ seen' \in {seen, csp}
    BY <1>13 DEF SyncCsp, Deliver, Resync
  <2>2. UNCHANGED instFresh
    BY <1>13, Zenon DEF SyncCsp, Deliver, Resync
  <2> QED
    BY <2>1, <2>2 DEF RunningInv, Clean, RestMeansRunning, AtRest
<1>14. CASE CallFails \/ Restart
  BY <1>1, <1>14 DEF CallFails, Restart, TypeOK
<1>15. CASE \/ DatabaseReadiness \/ UNCHANGED vars
            \/ \E c \in Reporters : PartReports(c)
  <2>1. UNCHANGED <<csp, seen, inst, pc, visible, state>>
    BY <1>15 DEF DatabaseReadiness, PartReports, vars
  <2>2. UNCHANGED <<instFresh, queued, fresh>> /\ stale \subseteq stale'
    BY <1>15, Zenon DEF DatabaseReadiness, PartReports, vars
  <2>3. GetGatewayServerState' = GetGatewayServerState
    BY <2>1 DEF GetGatewayServerState, Reported
  <2>4. stale' = {} => stale = {}
    BY <2>2
  <2>5. Clean' => Clean
    BY <2>2, <2>4, Zenon DEF Clean
  <2>6. AtRest' => AtRest
    BY <2>1, <2>2, <2>4, Zenon DEF AtRest
  <2> QED
    BY <2>1, <2>2, <2>3, <2>5, <2>6 DEF RunningInv, RestMeansRunning
<1> QED
  BY <1>2, <1>3, <1>4, <1>5, <1>6, <1>7, <1>8, <1>10, <1>11, <1>12, <1>13, <1>14, <1>15
     DEF Next, Reconcile

\* As long as no call fails and no enforcer is taken out of the spec, a pass that
\* nothing has overtaken has stored the state it holds, in spite of the dropped errors
\* of Status().Update.
THEOREM RunningInvInvariant ==
  ASSUME ~AllowRemoval, MaxFaults = 0
  PROVE  Spec => []RunningInv
<1>1. Init => RunningInv
  BY DEF Init, RunningInv, EnforcerStates, PastStatus, PastGateway, PastServer, PastWaitDb,
         PastDatabase, PastPassword, RestMeansRunning, AtRest
<1>2. IInv /\ RunningInv /\ [Next]_vars => RunningInv'
  BY RunningStep
<1> QED
  BY <1>1, <1>2, IInvInvariant, PTL DEF Spec

\* So it comes to rest only with a State of Running, beside a server and a gateway that
\* are neither Pending nor updating.
THEOREM RunningAtRest ==
  ASSUME ~AllowRemoval, MaxFaults = 0
  PROVE  Spec => []RestMeansRunning
<1>1. RunningInv => RestMeansRunning
  BY DEF RunningInv
<1> QED
  BY <1>1, RunningInvInvariant, PTL
=============================================================================
