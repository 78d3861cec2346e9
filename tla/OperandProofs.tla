---------------------------- MODULE OperandProofs ----------------------------
(* What holds of the operands' controllers for every operand, every set of   *)
(* configurations, and every number of edits and faults.                    *)
EXTENDS Operand, TLAPS

-----------------------------------------------------------------------------
(* Types. *)

PassTypes ==
  queued \in BOOLEAN /\ pc \in {"idle", "defaults", "pending", "config", "workload"}
  /\ inst \in CR /\ instFresh \in BOOLEAN

StateTypes == cr \in CR /\ fresh \in BOOLEAN /\ faults \in 0 .. MaxFaults

Steps == {"pending", "config", "workload"}

\* What depends on the operand alone stays.
LEMMA SameKind ==
  ASSUME UNCHANGED kind
  PROVE  /\ State' = State /\ Settled' = Settled /\ Updating' = Updating
         /\ CR' = CR /\ Workload' = Workload
         /\ Gated' = Gated /\ HasConfig' = HasConfig /\ DropsErrors' = DropsErrors
         /\ \A data : ConfigOf(data)' = ConfigOf(data)
<1>1. Gated' = Gated /\ HasConfig' = HasConfig /\ DropsErrors' = DropsErrors
  BY DEF Gated, HasConfig, DropsErrors
<1>2. Updating' = Updating
  BY <1>1 DEF Updating
<1>3. Settled' = Settled
  BY <1>1, <1>2 DEF Settled
<1>4. State' = State /\ Health' = Health
  BY <1>1, <1>3 DEF State, Health
<1>5. \A data : ConfigOf(data)' = ConfigOf(data)
  BY DEF ConfigOf
<1> QED  BY <1>1, <1>2, <1>3, <1>4, <1>5 DEF CR, Workload

\* What may be asked for, up to settings.
LEMMA DataCore == \A data : data \in Data <=> Core(data) \in Contents
<1> SUFFICES ASSUME NEW data
             PROVE  data \in Data <=> Core(data) \in Contents
  OBVIOUS
<1>1. ASSUME data \in Data
      PROVE  Core(data) \in Contents
  <2>1. PICK content \in Contents, settings \in SUBSET Settings : data = content \union settings
    BY <1>1 DEF Data
  <2>2. PICK base \in Datas : content = Core(base)
    BY DEF Contents
  <2>3. Core(data) = content
    BY <2>1, <2>2 DEF Core
  <2> QED  BY <2>3
<1>2. ASSUME Core(data) \in Contents
      PROVE  data \in Data
  <2>1. data = Core(data) \union (data \intersect Settings)
    BY DEF Core
  <2>2. \E content \in Contents, settings \in SUBSET Settings : data = content \union settings
    <3>1. data \intersect Settings \in SUBSET Settings
      OBVIOUS
    <3> WITNESS Core(data) \in Contents, data \intersect Settings \in SUBSET Settings
    <3> QED  BY <2>1
  <2> QED  BY <2>2, SMT DEF Data
<1> QED  BY <1>1, <1>2

LEMMA DatasAreData == Datas \subseteq Data
BY DataCore DEF Contents

LEMMA DataNotEmpty == \A data \in Data : Core(data) # {} /\ data # {}
<1> SUFFICES ASSUME NEW data \in Data
             PROVE  Core(data) # {} /\ data # {}
  OBVIOUS
<1>1. PICK base \in Datas : Core(data) = Core(base)
  BY DataCore DEF Contents
<1> QED  BY <1>1, OperandAssumption DEF Core

\* Settings are all that a pass changes, and that a ConfigMap leaves out.
LEMMA RewrittenCore ==
  ASSUME NEW data \in Data, NEW found \in Finds
  PROVE  Rewritten(data, found) \in Data /\ Core(Rewritten(data, found)) = Core(data)
<1>1. Core(Rewritten(data, found)) = Core(data)
  BY DEF Rewritten, WithDefaults, Core, Settings, PullSecrets
<1> QED  BY <1>1, DataCore

LEMMA ConfigCore ==
  ASSUME NEW data \in Data
  PROVE  ConfigOf(data) \in Data /\ Core(data) \subseteq ConfigOf(data) /\ ConfigOf(data) # {}
<1>1. Core(ConfigOf(data)) = Core(data) /\ Core(data) \subseteq ConfigOf(data)
  BY DEF ConfigOf, Core, Settings
<1>2. ConfigOf(data) \in Data
  BY <1>1, DataCore
<1> QED  BY <1>1, <1>2, DataNotEmpty

LEMMA KindStays == [Next]_vars => UNCHANGED kind
BY DEF Next, Reconcile, Fetch, FillDefaults, MarkPending, CreateConfigMap, InstallWorkload, EditSpec,
   RollOut, PodsRestart, PodsChange, DeliverCR, DeliverConfigMap, DeliverWorkload, Restart, Resync,
   Delivered, vars, caseVars

LEMMA FaultType ==
  ASSUME TypeOK, Fault \/ UNCHANGED faults
  PROVE  faults' \in 0 .. MaxFaults
<1>1. MaxFaults \in Nat
  BY OperandAssumption
<1> QED  BY <1>1 DEF TypeOK, Fault

LEMMA States ==
  ASSUME TypeOK
  PROVE  /\ Settled \subseteq State /\ {"", "Pending", "Running", Updating} \subseteq State
         /\ Gated => "PendingApproval" \in State
         /\ NewHealth \in Health /\ "down" \in Health
BY DEF Settled, State, NewHealth, Health

\* A write of the resource, whatever comes of it.
LEMMA StoreType ==
  ASSUME TypeOK, UNCHANGED kind, NEW new \in CR, StoreCR(new)
  PROVE  StateTypes'
<1>1. cr' \in CR /\ fresh' \in BOOLEAN
  BY SameKind DEF TypeOK, StoreCR
<1>2. Fault \/ UNCHANGED faults
  BY DEF StoreCR
<1> QED  BY <1>1, <1>2, FaultType, SameKind DEF StateTypes

LEMMA StoreStateType ==
  ASSUME TypeOK, UNCHANGED kind, NEW s \in State, StoreState(s)
  PROVE  StateTypes'
<1>1. [cr EXCEPT !.state = s] \in CR
  BY DEF TypeOK, CR
<1> QED  BY <1>1, StoreType DEF StoreState

LEMMA PassType ==
  ASSUME TypeOK, UNCHANGED kind
  PROVE  /\ \A r \in BOOLEAN : Finish(r) => PassTypes'
         /\ \A step \in Steps : Advance(step) => PassTypes'
BY SameKind DEF TypeOK, Finish, Advance, PassTypes, Steps

LEMMA StateForType ==
  ASSUME TypeOK, NEW health \in Health, NEW current \in State
  PROVE  StateFor(health, current) \in State
BY States DEF StateFor

LEMMA InstallType ==
  ASSUME TypeOK, UNCHANGED kind, InstallWorkload
  PROVE  StateTypes' /\ PassTypes' /\ dep' \in Workload /\ at' \in EditNumber \union {0}
<1>1. inst.data \in Data /\ inst.edit \in EditNumber /\ inst.state \in State
  BY DEF TypeOK, CR
<1>2. depSeen.health \in Health
  BY DEF TypeOK, Workload
<1>3. CASE CreateWorkload
  <2>1. dep' \in Workload /\ at' \in EditNumber \union {0}
    BY <1>1, <1>3, SameKind DEF CreateWorkload, PutTemplate, TypeOK, Workload
  <2>2. PassTypes'
    BY <1>3, PassType DEF CreateWorkload
  <2>3. Fault \/ UNCHANGED faults
    BY <1>3 DEF CreateWorkload
  <2>4. StateTypes'
    BY <1>3, <2>3, FaultType, SameKind DEF StateTypes, CreateWorkload, TypeOK
  <2> QED  BY <2>1, <2>2, <2>4
<1>4. CASE UpdateWorkload
  <2>1. dep' \in Workload /\ at' \in EditNumber \union {0}
    BY <1>1, <1>4, SameKind DEF UpdateWorkload, PutTemplate, TypeOK, Workload
  <2>2. PassTypes'
    BY <1>4, PassType DEF UpdateWorkload
  <2>3. CASE Approved
    <3>1. (Fault \/ UNCHANGED faults) /\ UNCHANGED <<cr, fresh>>
      BY <1>4, <2>3 DEF UpdateWorkload
    <3> QED  BY <2>1, <2>2, <3>1, FaultType, SameKind DEF StateTypes, TypeOK
  <2>4. CASE ~Approved
    <3>1. StoreState("PendingApproval") /\ "PendingApproval" \in State
      BY <1>4, <2>4, States DEF UpdateWorkload, Approved
    <3> QED  BY <2>1, <2>2, <3>1, StoreStateType
  <2> QED  BY <2>3, <2>4
<1>5. CASE ReportState
  <2>1. PassTypes' /\ UNCHANGED <<dep, at>>
    BY <1>5, PassType DEF ReportState
  <2>2. StateTypes'
    <3>1. StoreState(StateFor(depSeen.health, inst.state)) \/ UNCHANGED <<cr, fresh, faults>>
      BY <1>5 DEF ReportState
    <3>2. StateFor(depSeen.health, inst.state) \in State
      BY <1>1, <1>2, StateForType
    <3> QED  BY <3>1, <3>2, StoreStateType, SameKind DEF StateTypes, TypeOK
  <2> QED  BY <2>1, <2>2, SameKind DEF TypeOK
<1> QED  BY <1>3, <1>4, <1>5 DEF InstallWorkload

\* What FillDefaults does, having found these secrets.
Fills(found) ==
  LET data == Rewritten(inst.data, found) IN
  /\ StoreCR([inst EXCEPT !.data = data, !.filled = TRUE, !.state = cr.state])
  /\ inst' = [inst EXCEPT !.data = data, !.filled = TRUE]
  /\ grounds' = grounds \union Grounds(found)

LEMMA FillsFound == FillDefaults => \E found \in Finds : Fills(found)
BY DEF FillDefaults, Fills

LEMMA TypeInit == Init => TypeOK
<1> SUFFICES ASSUME Init
             PROVE  TypeOK
  OBVIOUS
<1>1. 1 \in EditNumber /\ 0 \in 0 .. MaxFaults
  BY OperandAssumption DEF EditNumber
<1>2. cr \in CR
  BY <1>1, DatasAreData DEF Init, CR, State
<1>3. dep \in Workload
  BY DEF Init, Workload, NewHealth, Health
<1>4. asked \in Seq(Wish)
  <2>1. Asking(cr) \in Wish
    BY <1>2, DataCore DEF Asking, CR, Wish
  <2>2. asked = <<Asking(cr)>>
    BY DEF Init
  <2> QED  BY <2>1, <2>2
<1>5. /\ kind \in Kinds /\ seen \in CR /\ inst \in CR
      /\ cm = {} /\ cmSeen = {} /\ depSeen \in Workload
  BY <1>2, <1>3 DEF Init
<1>6. /\ pods \in [tmpl : Data \union {{}}, data : Data \union {{}}]
      /\ wished \in Data /\ grounds \subseteq Settings
  BY <1>2 DEF Init, CR
<1>7. /\ fresh \in BOOLEAN /\ queued \in BOOLEAN /\ instFresh \in BOOLEAN
      /\ pc = "idle" /\ at = 0 /\ dropped = FALSE /\ faults \in 0 .. MaxFaults
  BY <1>1 DEF Init
<1> QED  BY <1>2, <1>3, <1>4, <1>5, <1>6, <1>7 DEF TypeOK

LEMMA TypeStep == TypeOK /\ [Next]_vars => TypeOK'
<1> SUFFICES ASSUME TypeOK, [Next]_vars
             PROVE  TypeOK'
  OBVIOUS
<1> USE KindStays, SameKind DEF clusterVars, copyVars, passVars, caseVars, histVars
<1>1. CASE Fetch
  BY <1>1 DEF TypeOK, Fetch
<1>2. CASE FillDefaults
  <2>1. PICK found \in Finds : Fills(found)
    BY <1>2, FillsFound
  <2>2. Rewritten(inst.data, found) \in Data
    BY RewrittenCore DEF TypeOK, CR
  <2>3. /\ [inst EXCEPT !.data = Rewritten(inst.data, found), !.filled = TRUE, !.state = cr.state] \in CR
        /\ inst' \in CR
    BY <2>1, <2>2 DEF TypeOK, Fills, CR
  <2>4. StateTypes'
    BY <1>2, <2>1, <2>3, StoreType DEF Fills
  <2>5. grounds' \subseteq Settings
    <3>1. Grounds(found) \subseteq Settings
      BY DEF Grounds, Settings, PullSecrets
    <3> QED  BY <2>1, <3>1 DEF TypeOK, Fills
  <2> QED  BY <1>2, <2>3, <2>4, <2>5 DEF TypeOK, FillDefaults, StateTypes
<1>3. CASE MarkPending
  <2>1. inst' \in CR
    BY <1>3, States DEF TypeOK, MarkPending, CR
  <2>2. StateTypes'
    BY <1>3, States, StoreStateType DEF MarkPending, StateTypes, TypeOK
  <2> QED  BY <1>3, <2>1, <2>2 DEF TypeOK, MarkPending, StateTypes
<1>4. CASE CreateConfigMap
  <2>1. cm' \in Data \union {{}} /\ dropped' \in BOOLEAN
    <3>1. ConfigOf(inst.data) \in Data
      BY ConfigCore DEF TypeOK, CR
    <3> QED  BY <1>4, <3>1 DEF TypeOK, CreateConfigMap
  <2>2. faults' \in 0 .. MaxFaults
    <3>1. Fault \/ UNCHANGED faults
      BY <1>4 DEF CreateConfigMap
    <3> QED  BY <3>1, FaultType
  <2>3. PassTypes'
    <3>1. Finish(TRUE) \/ Advance("workload")
      BY <1>4 DEF CreateConfigMap
    <3> QED  BY <3>1, PassType DEF Steps
  <2> QED  BY <1>4, <2>1, <2>2, <2>3 DEF TypeOK, CreateConfigMap, PassTypes
<1>5. CASE InstallWorkload
  <2>1. UNCHANGED <<kind, asked, wished, grounds, cm, pods, seen, cmSeen, depSeen, dropped>>
    BY <1>5 DEF InstallWorkload
  <2> QED  BY <1>5, <2>1, InstallType DEF TypeOK, StateTypes, PassTypes
<1>6. CASE EditSpec
  <2>1. cr' \in CR
    <3>1. cr.edit + 1 \in EditNumber
      BY <1>6, OperandAssumption DEF TypeOK, EditSpec, CR, EditNumber
    <3> QED  BY <1>6, <3>1, DatasAreData DEF TypeOK, EditSpec, CR
  <2>2. asked' \in Seq(Wish)
    <3>1. Asking(cr') \in Wish
      BY <2>1, DataCore DEF CR, Asking, Wish
    <3> QED  BY <1>6, <3>1 DEF TypeOK, EditSpec
  <2>3. wished' \in Data /\ grounds' \subseteq Settings
    BY <1>6, <2>1 DEF CR, EditSpec
  <2> QED  BY <1>6, <2>1, <2>2, <2>3 DEF TypeOK, EditSpec
<1>7. CASE RollOut \/ PodsRestart
  <2>1. dep' \in Workload
    BY <1>7, States DEF RollOut, PodsRestart, TypeOK, Workload
  <2>2. pods' \in [tmpl : Data \union {{}}, data : Data \union {{}}]
    BY <1>7 DEF RollOut, PodsRestart, TypeOK, Workload
  <2> QED  BY <1>7, <2>1, <2>2 DEF TypeOK, RollOut, PodsRestart
<1>8. CASE PodsChange
  <2>1. dep' \in Workload
    BY <1>8 DEF PodsChange, TypeOK, Workload
  <2> QED  BY <1>8, <2>1 DEF TypeOK, PodsChange
<1>9. CASE DeliverCR \/ DeliverConfigMap \/ DeliverWorkload \/ Resync
  BY <1>9 DEF TypeOK, DeliverCR, DeliverConfigMap, DeliverWorkload, Resync, Delivered
<1>10. CASE Restart
  <2>1. faults' \in 0 .. MaxFaults
    BY <1>10, FaultType DEF Restart
  <2> QED  BY <1>10, <2>1 DEF TypeOK, Restart
<1>11. CASE UNCHANGED vars
  BY <1>11 DEF TypeOK, vars
<1> QED
  BY <1>1, <1>2, <1>3, <1>4, <1>5, <1>6, <1>7, <1>8, <1>9, <1>10, <1>11 DEF Next, Reconcile

\* The variables of every operand's controller keep their types.
THEOREM TypeCorrect == Spec => []TypeOK
BY TypeInit, TypeStep, PTL DEF Spec

-----------------------------------------------------------------------------
(* The inductive invariant. *)

\* Every copy of the resource holds what was once asked for, the pass goes by no newer one
\* than the informer shows, and the workload was given none newer than either.
HistoryInv ==
  /\ cr.edit = Len(asked) /\ seen.edit <= cr.edit /\ inst.edit <= cr.edit
  /\ Asking(cr) = asked[cr.edit] /\ Asking(seen) = asked[seen.edit] /\ Asking(inst) = asked[inst.edit]
  /\ at <= seen.edit
  /\ pc # "idle" => at <= inst.edit /\ inst.edit <= seen.edit
  /\ at = 0 => dep.tmpl = {}
  /\ at # 0 => Core(dep.tmpl) = asked[at].value
  /\ Gated \/ \A i \in 1 .. Len(asked) : asked[i].approved

\* What the versions say: an informer's copy that is fresh, and an instance whose writes
\* go through, are those of the stored resource.
FreshInv ==
  /\ fresh => seen = cr
  /\ instFresh => inst.edit = cr.edit
  /\ instFresh /\ pc \in {"defaults", "pending"} => inst.state = cr.state

\* Whatever goes by the last edit differs from it by what passes had grounds to change.
Changed(data) == (wished \ data) \union (data \ wished)
Kept(res) == res.edit = cr.edit => Changed(res.data) \subseteq grounds \union {DefaultSecret}
GroundsInv == Kept(cr) /\ Kept(seen) /\ Kept(inst)

\* A write that is dropped has failed.
DropInv == dropped => faults # 0

\* While nothing has happened that another pass would be queued for, this one goes by the
\* stored resource, and the steps behind it have left what it asks for.
PassInv ==
  pc # "idle" /\ ~queued /\ fresh =>
    /\ inst.edit = cr.edit
    /\ faults = 0 => instFresh /\ inst = cr
    /\ pc = "workload" /\ cmSeen = cm /\ HasConfig /\ ~dropped => ConfigOf(inst.data) \subseteq cm

\* The state tells the workload with that health.
Told(health) ==
  IF dep.tmpl # cr.data
    THEN cr.state = "PendingApproval"
    ELSE /\ health = "up" => cr.state = "Running"
         /\ health = "down" => cr.state \in {"Pending", Updating}

\* A workload that is this one up to the settings, or waits for its approval.
Placed == Core(dep.tmpl) = Core(cr.data) \/ (Gated /\ ~cr.approved)

\* ... and is this one in full.
PlacedInFull == dep.tmpl = cr.data \/ (Gated /\ ~cr.approved)

\* A pass that is over has left the workload and the ConfigMap that the stored resource
\* asks for, and a state that tells.
RestInv ==
  pc = "idle" /\ ~queued /\ fresh =>
    /\ depSeen.tmpl = dep.tmpl =>
         /\ at > 0 /\ Placed
         /\ faults = 0 => PlacedInFull /\ Told(depSeen.health)
    /\ cmSeen = cm /\ HasConfig /\ ~dropped =>
         /\ Core(cr.data) \subseteq cm
         /\ faults = 0 => ConfigOf(cr.data) \subseteq cm

IInv == HistoryInv /\ FreshInv /\ GroundsInv /\ DropInv /\ PassInv /\ RestInv

\* A write of the resource keeps its spec, and what the informer shows is fresh after it
\* only when it has changed nothing.
LEMMA StoreEffect ==
  ASSUME TypeOK, NEW new \in CR, StoreCR(new),
         instFresh => new.edit = cr.edit /\ Asking(new) = Asking(cr)
  PROVE  /\ cr'.edit = cr.edit /\ Asking(cr') = Asking(cr)
         /\ fresh' => fresh /\ cr' = cr
         /\ cr' = cr \/ (instFresh /\ cr' = new)
         /\ faults' = 0 => faults = 0 /\ (instFresh => cr' = new)
<1>1. CASE instFresh /\ cr' = new /\ fresh' = (fresh /\ new = cr) /\ UNCHANGED faults
  <2>1. fresh' => fresh /\ new = cr
    BY <1>1, Zenon
  <2> QED  BY <1>1, <2>1
<1>2. CASE ~instFresh /\ UNCHANGED <<cr, fresh, faults>>
  BY <1>2
<1>3. CASE Fault /\ UNCHANGED <<cr, fresh>>
  <2>1. faults' # 0
    BY <1>3, OperandAssumption DEF Fault, TypeOK
  <2> QED  BY <1>3, <2>1
<1> QED  BY <1>1, <1>2, <1>3 DEF StoreCR

LEMMA StoreStateEffect ==
  ASSUME TypeOK, NEW s \in State, StoreState(s)
  PROVE  /\ cr'.edit = cr.edit /\ cr'.data = cr.data /\ Asking(cr') = Asking(cr)
         /\ fresh' => fresh /\ cr' = cr
         /\ cr' = cr \/ (instFresh /\ cr' = [cr EXCEPT !.state = s])
         /\ faults' = 0 => faults = 0 /\ (instFresh => cr' = [cr EXCEPT !.state = s])
<1> DEFINE new == [cr EXCEPT !.state = s]
<1>1. cr \in CR
  BY DEF TypeOK
<1>2. new \in CR /\ new.edit = cr.edit /\ new.data = cr.data /\ Asking(new) = Asking(cr)
  BY <1>1 DEF CR, Asking
<1>3. StoreCR(new)
  BY DEF StoreState
<1> HIDE DEF new
<1>4. /\ cr'.edit = cr.edit /\ Asking(cr') = Asking(cr)
      /\ fresh' => fresh /\ cr' = cr
      /\ cr' = cr \/ (instFresh /\ cr' = new)
      /\ faults' = 0 => faults = 0 /\ (instFresh => cr' = new)
  BY <1>2, <1>3, StoreEffect
<1>5. cr'.data = cr.data
  BY <1>2, <1>4
<1> QED  BY <1>4, <1>5 DEF new

\* What the steps of a pass do to the resource and to the instance.
LEMMA FillsEffect ==
  ASSUME TypeOK, HistoryInv, FreshInv, NEW found \in Finds, Fills(found)
  PROVE  /\ cr'.edit = cr.edit /\ Asking(cr') = Asking(cr) /\ cr'.state = cr.state
         /\ inst'.edit = inst.edit /\ Asking(inst') = Asking(inst) /\ inst'.state = inst.state
         /\ fresh' => fresh /\ cr' = cr
         /\ faults' = 0 => faults = 0 /\ (instFresh /\ inst = cr => inst' = cr')
         /\ inst'.data = Rewritten(inst.data, found)
         /\ cr' = cr \/ (instFresh /\ cr'.data = inst'.data)
         /\ grounds' = grounds \union Grounds(found)
<1> DEFINE data == Rewritten(inst.data, found)
           new  == [inst EXCEPT !.data = data, !.filled = TRUE, !.state = cr.state]
<1>1. cr \in CR /\ inst \in CR
  BY DEF TypeOK
<1>2. data \in Data /\ Core(data) = Core(inst.data)
  BY <1>1, RewrittenCore DEF CR
<1>3. StoreCR(new) /\ inst' = [inst EXCEPT !.data = data, !.filled = TRUE]
  BY DEF Fills
<1>4. grounds' = grounds \union Grounds(found)
  BY DEF Fills
<1> HIDE DEF data
<1>5. /\ new \in CR /\ new.edit = inst.edit /\ Asking(new) = Asking(inst)
      /\ new.state = cr.state /\ new.data = data
  BY <1>1, <1>2 DEF CR, Asking
<1>6. inst'.edit = inst.edit /\ Asking(inst') = Asking(inst) /\ inst'.state = inst.state /\ inst'.data = data
  BY <1>1, <1>2, <1>3 DEF CR, Asking
<1>7. inst = cr => new = inst'
  BY <1>1, <1>3 DEF CR
<1>8. instFresh => new.edit = cr.edit /\ Asking(new) = Asking(cr)
  BY <1>5 DEF HistoryInv, FreshInv
<1> HIDE DEF new
<1>9. /\ cr'.edit = cr.edit /\ Asking(cr') = Asking(cr)
      /\ fresh' => fresh /\ cr' = cr
      /\ cr' = cr \/ (instFresh /\ cr' = new)
      /\ faults' = 0 => faults = 0 /\ (instFresh => cr' = new)
  BY <1>3, <1>5, <1>8, StoreEffect
<1>10. inst'.data = Rewritten(inst.data, found)
  BY <1>6 DEF data
<1> QED  BY <1>4, <1>5, <1>6, <1>7, <1>9, <1>10

LEMMA FillDefaultsEffect ==
  ASSUME TypeOK, HistoryInv, FreshInv, FillDefaults
  PROVE  /\ cr'.edit = cr.edit /\ Asking(cr') = Asking(cr) /\ cr'.state = cr.state
         /\ inst'.edit = inst.edit /\ Asking(inst') = Asking(inst) /\ inst'.state = inst.state
         /\ fresh' => fresh /\ cr' = cr
         /\ faults' = 0 => faults = 0 /\ (instFresh /\ inst = cr => inst' = cr')
BY FillsFound, FillsEffect

LEMMA MarkPendingEffect ==
  ASSUME TypeOK, MarkPending
  PROVE  /\ cr'.edit = cr.edit /\ cr'.data = cr.data /\ Asking(cr') = Asking(cr)
         /\ inst'.edit = inst.edit /\ inst'.data = inst.data /\ Asking(inst') = Asking(inst)
         /\ fresh' => fresh /\ cr' = cr
         /\ faults' = 0 => faults = 0 /\ (instFresh /\ inst = cr => inst' = cr')
<1>1. CASE UNCHANGED <<cr, fresh, faults, inst>>
  BY <1>1
<1>2. CASE StoreState("Pending") /\ inst' = [inst EXCEPT !.state = "Pending"]
  <2>1. inst'.edit = inst.edit /\ inst'.data = inst.data /\ Asking(inst') = Asking(inst)
    BY <1>2 DEF TypeOK, CR, Asking
  <2>2. "Pending" \in State
    BY DEF State
  <2>3. /\ cr'.edit = cr.edit /\ cr'.data = cr.data /\ Asking(cr') = Asking(cr)
        /\ fresh' => fresh /\ cr' = cr
        /\ faults' = 0 => faults = 0 /\ (instFresh => cr' = [cr EXCEPT !.state = "Pending"])
    BY <1>2, <2>2, StoreStateEffect
  <2> QED  BY <1>2, <2>1, <2>3
<1> QED  BY <1>1, <1>2 DEF MarkPending

\* The workload is given the template of the instance, in place of the one that is shown,
\* or left alone.
LEMMA InstallEffect ==
  ASSUME TypeOK, InstallWorkload
  PROVE  /\ cr'.edit = cr.edit /\ cr'.data = cr.data /\ Asking(cr') = Asking(cr)
         /\ fresh' => fresh /\ cr' = cr
         /\ \/ UNCHANGED <<dep, at>>
            \/ /\ dep' = [dep EXCEPT !.tmpl = inst.data] /\ at' = inst.edit
               /\ depSeen.tmpl # inst.data /\ (dep.tmpl = {} \/ ~Gated \/ inst.approved)
         /\ pc' = "idle" /\ inst' = seen /\ instFresh' = FALSE
<1>1. inst.data # {} /\ inst.state \in State /\ depSeen.health \in Health
  BY DataNotEmpty DEF TypeOK, CR, Workload
<1>2. CASE CreateWorkload
  BY <1>1, <1>2 DEF CreateWorkload, PutTemplate, Finish
<1>3. CASE UpdateWorkload
  <2>1. CASE Approved
    BY <1>3, <2>1 DEF UpdateWorkload, PutTemplate, Finish, Approved
  <2>2. CASE ~Approved
    <3>1. StoreState("PendingApproval") /\ Finish(FALSE) /\ UNCHANGED <<dep, at>>
      BY <1>3, <2>2 DEF UpdateWorkload
    <3>2. "PendingApproval" \in State
      BY <2>2, States DEF Approved
    <3> QED  BY <3>1, <3>2, StoreStateEffect DEF Finish
  <2> QED  BY <2>1, <2>2
<1>4. CASE ReportState
  <2>1. Finish(FALSE) /\ UNCHANGED <<dep, at>>
    BY <1>4 DEF ReportState
  <2>2. CASE UNCHANGED <<cr, fresh, faults>>
    BY <2>1, <2>2 DEF Finish
  <2>3. CASE StoreState(StateFor(depSeen.health, inst.state))
    <3>1. StateFor(depSeen.health, inst.state) \in State
      BY <1>1, StateForType
    <3> QED  BY <2>1, <2>3, <3>1, StoreStateEffect DEF Finish
  <2> QED  BY <1>4, <2>2, <2>3 DEF ReportState
<1> QED  BY <1>2, <1>3, <1>4 DEF InstallWorkload

-----------------------------------------------------------------------------
(* Every step preserves the invariant. *)

LEMMA InitInv == Init => IInv
<1> SUFFICES ASSUME Init
             PROVE  IInv
  OBVIOUS
<1>1. /\ cr.edit = 1 /\ asked = <<Asking(cr)>> /\ at = 0 /\ dep.tmpl = {}
      /\ seen = cr /\ inst = cr /\ pc = "idle" /\ queued = TRUE /\ instFresh = FALSE
      /\ ~Gated => cr.approved
      /\ wished = cr.data /\ dropped = FALSE
  BY DEF Init
<1>2. Len(asked) = 1 /\ asked[1] = Asking(cr)
  BY <1>1
<1>3. HistoryInv
  BY <1>1, <1>2 DEF HistoryInv, Asking
<1>4. GroundsInv /\ DropInv
  BY <1>1 DEF GroundsInv, Kept, Changed, DropInv
<1> QED  BY <1>1, <1>3, <1>4 DEF IInv, FreshInv, PassInv, RestInv

\* The numbers of edits.
LEMMA EditTypes ==
  ASSUME TypeOK, HistoryInv
  PROVE  /\ cr.edit \in 1 .. Len(asked) /\ seen.edit \in 1 .. Len(asked)
         /\ inst.edit \in 1 .. Len(asked) /\ at \in 0 .. Len(asked) /\ Len(asked) \in Nat
<1>1. Len(asked) \in Nat /\ MaxEdits \in Nat
  BY OperandAssumption DEF TypeOK
<1>2. cr.edit \in EditNumber /\ seen.edit \in EditNumber /\ inst.edit \in EditNumber
  BY DEF TypeOK, CR
<1> QED  BY <1>1, <1>2 DEF TypeOK, HistoryInv, EditNumber

\* What is in place has entries.
LEMMA PlacedIsNotEmpty ==
  ASSUME TypeOK, HistoryInv, at # 0
  PROVE  dep.tmpl # {}
<1>1. asked \in Seq(Wish)
  BY DEF TypeOK
<1>2. at \in 1 .. Len(asked)
  <2>1. at \in 0 .. Len(asked) /\ Len(asked) \in Nat
    BY EditTypes
  <2> QED  BY <2>1
<1>3. asked[at] \in Wish
  BY <1>1, <1>2
<1>4. Core(dep.tmpl) \in Contents
  BY <1>3 DEF Wish, HistoryInv
<1> QED  BY <1>4, DataCore, DataNotEmpty

\* A step that leaves the specs alone only has to account for the pass and the workload.
LEMMA SameHistory ==
  ASSUME HistoryInv, UNCHANGED <<kind, asked, seen>>,
         cr'.edit = cr.edit, Asking(cr') = Asking(cr),
         \/ inst'.edit = inst.edit /\ Asking(inst') = Asking(inst)
         \/ inst' = seen,
         at' <= seen.edit, pc' # "idle" => at' <= inst'.edit /\ inst'.edit <= seen.edit,
         at' = 0 => dep'.tmpl = {}, at' # 0 => Core(dep'.tmpl) = asked[at'].value
  PROVE  HistoryInv'
BY SameKind DEF HistoryInv, Asking

LEMMA HistoryStep == TypeOK /\ HistoryInv /\ FreshInv /\ [Next]_vars => HistoryInv'
<1> SUFFICES ASSUME TypeOK, HistoryInv, FreshInv, [Next]_vars
             PROVE  HistoryInv'
  OBVIOUS
<1> USE DEF clusterVars, copyVars, passVars, caseVars, histVars
<1>1. CASE Fetch
  BY <1>1, SameHistory, EditTypes DEF Fetch, HistoryInv
<1>2. CASE FillDefaults
  BY <1>2, FillDefaultsEffect, SameHistory DEF FillDefaults, HistoryInv
<1>3. CASE MarkPending
  BY <1>3, MarkPendingEffect, SameHistory DEF MarkPending, HistoryInv
<1>4. CASE CreateConfigMap
  <2>1. UNCHANGED <<cr, dep, at, kind, asked, seen>> /\ pc # "idle"
    BY <1>4 DEF CreateConfigMap
  <2>2. Finish(TRUE) \/ Advance("workload")
    BY <1>4 DEF CreateConfigMap
  <2> QED  BY <2>1, <2>2, SameHistory DEF Finish, Advance, HistoryInv
<1>5. CASE InstallWorkload
  <2>1. UNCHANGED <<kind, asked, seen>> /\ pc # "idle"
    BY <1>5 DEF InstallWorkload
  <2>2. dep \in Workload /\ inst.edit # 0
    BY EditTypes DEF TypeOK
  <2>3. CASE UNCHANGED <<dep, at>>
    BY <1>5, <2>1, <2>3, InstallEffect, SameHistory DEF HistoryInv
  <2>4. CASE dep' = [dep EXCEPT !.tmpl = inst.data] /\ at' = inst.edit
    <3>1. Core(dep'.tmpl) = asked[at'].value
      BY <2>2, <2>4 DEF Workload, HistoryInv, Asking
    <3>2. at' <= seen.edit /\ at' # 0
      BY <2>1, <2>2, <2>4 DEF HistoryInv
    <3> QED  BY <1>5, <2>1, <3>1, <3>2, InstallEffect, SameHistory
  <2> QED  BY <1>5, <2>3, <2>4, InstallEffect
<1>6. CASE EditSpec
  <2>1. asked' = Append(asked, Asking(cr')) /\ UNCHANGED <<kind, seen, inst, pc, dep, at>>
    BY <1>6 DEF EditSpec
  <2>2. cr'.edit = cr.edit + 1 /\ (Gated \/ cr'.approved)
    BY <1>6 DEF EditSpec, TypeOK, CR
  <2>3. asked \in Seq(Wish)
    BY DEF TypeOK
  <2>4. Len(asked') = Len(asked) + 1 /\ asked'[Len(asked')] = Asking(cr')
    BY <2>1, <2>3
  <2>5. \A i \in 1 .. Len(asked) : asked'[i] = asked[i]
    BY <2>1, <2>3
  <2>6. /\ cr'.edit = Len(asked') /\ seen'.edit <= cr'.edit /\ inst'.edit <= cr'.edit
        /\ Asking(cr') = asked'[cr'.edit]
        /\ at' <= seen'.edit
        /\ pc' # "idle" => at' <= inst'.edit /\ inst'.edit <= seen'.edit
    BY <2>1, <2>2, <2>4, EditTypes DEF HistoryInv
  <2>7. Asking(seen') = asked'[seen'.edit] /\ Asking(inst') = asked'[inst'.edit]
    BY <2>1, <2>5, EditTypes DEF HistoryInv, Asking
  <2>8. (at' = 0 => dep'.tmpl = {}) /\ (at' # 0 => Core(dep'.tmpl) = asked'[at'].value)
    BY <2>1, <2>5, EditTypes DEF HistoryInv
  <2>9. Gated' \/ \A i \in 1 .. Len(asked') : asked'[i].approved
    <3>1. Gated' = Gated /\ Asking(cr').approved = cr'.approved
      BY <2>1, SameKind DEF Asking
    <3>2. \A i \in 1 .. Len(asked') : i \in 1 .. Len(asked) \/ i = Len(asked')
      BY <2>4, EditTypes
    <3> QED  BY <2>2, <2>4, <2>5, <3>1, <3>2 DEF HistoryInv
  <2> QED  BY <2>6, <2>7, <2>8, <2>9 DEF HistoryInv
<1>7. CASE RollOut \/ PodsRestart \/ PodsChange
  <2>1. dep'.tmpl = dep.tmpl
    BY <1>7 DEF RollOut, PodsRestart, PodsChange, TypeOK, Workload
  <2>2. UNCHANGED <<cr, seen, inst, pc, at, asked, kind>>
    BY <1>7 DEF RollOut, PodsRestart, PodsChange
  <2> QED  BY <2>1, <2>2, SameHistory DEF HistoryInv
<1>8. CASE DeliverCR \/ Restart
  <2>1. seen' = cr /\ UNCHANGED <<cr, dep, at, asked, kind>>
    BY <1>8 DEF DeliverCR, Delivered, Restart
  <2>2. UNCHANGED <<inst, pc>> \/ (inst' = cr /\ pc' = "idle")
    BY <1>8 DEF DeliverCR, Delivered, Restart
  <2> QED  BY <2>1, <2>2, EditTypes, SameKind DEF HistoryInv, Asking
<1>9. CASE DeliverConfigMap \/ DeliverWorkload \/ Resync
  BY <1>9, SameHistory DEF DeliverConfigMap, DeliverWorkload, Resync, Delivered, HistoryInv
<1>10. CASE UNCHANGED vars
  BY <1>10, SameHistory DEF vars, HistoryInv
<1> QED
  BY <1>1, <1>2, <1>3, <1>4, <1>5, <1>6, <1>7, <1>8, <1>9, <1>10 DEF Next, Reconcile

LEMMA FreshStep == TypeOK /\ HistoryInv /\ FreshInv /\ [Next]_vars => FreshInv'
<1> SUFFICES ASSUME TypeOK, HistoryInv, FreshInv, [Next]_vars
             PROVE  FreshInv'
  OBVIOUS
<1> USE DEF clusterVars, copyVars, passVars, caseVars, histVars
<1>1. CASE Fetch
  BY <1>1 DEF Fetch, FreshInv
<1>2. CASE FillDefaults
  <2>1. UNCHANGED <<seen, instFresh>> /\ pc' = "pending" /\ pc = "defaults"
    BY <1>2 DEF FillDefaults
  <2> QED  BY <1>2, <2>1, FillDefaultsEffect DEF FreshInv
<1>3. CASE MarkPending
  <2>1. UNCHANGED <<seen, instFresh>> /\ pc' = "config"
    BY <1>3 DEF MarkPending
  <2> QED  BY <1>3, <2>1, MarkPendingEffect DEF FreshInv
<1>4. CASE CreateConfigMap
  <2>1. UNCHANGED <<cr, seen, fresh>>
    BY <1>4 DEF CreateConfigMap
  <2>2. Finish(TRUE) \/ Advance("workload")
    BY <1>4 DEF CreateConfigMap
  <2> QED  BY <2>1, <2>2 DEF Finish, Advance, FreshInv
<1>5. CASE InstallWorkload
  <2>1. UNCHANGED seen
    BY <1>5 DEF InstallWorkload
  <2> QED  BY <1>5, <2>1, InstallEffect DEF FreshInv
<1>6. CASE EditSpec
  BY <1>6 DEF EditSpec, FreshInv
<1>7. CASE RollOut \/ PodsRestart \/ PodsChange
  BY <1>7 DEF RollOut, PodsRestart, PodsChange, FreshInv
<1>8. CASE DeliverCR \/ DeliverConfigMap \/ DeliverWorkload \/ Resync
  BY <1>8 DEF DeliverCR, DeliverConfigMap, DeliverWorkload, Resync, Delivered, FreshInv
<1>9. CASE Restart
  BY <1>9 DEF Restart, FreshInv
<1>10. CASE UNCHANGED vars
  BY <1>10 DEF vars, FreshInv
<1> QED
  BY <1>1, <1>2, <1>3, <1>4, <1>5, <1>6, <1>7, <1>8, <1>9, <1>10 DEF Next, Reconcile

\* What a pass that goes by the last edit changes, it has grounds to change.
LEMMA RewrittenGrounds ==
  ASSUME NEW found \in Finds, inst.edit = cr.edit
  PROVE  Changed(Rewritten(inst.data, found)) \subseteq Changed(inst.data) \union Grounds(found) \union {DefaultSecret}
BY DEF Changed, Rewritten, WithDefaults, Grounds, PullSecrets

\* Steps that leave the settings of the resource and of its copies alone.
LEMMA SameGrounds ==
  ASSUME GroundsInv, UNCHANGED <<wished, grounds>>, cr'.edit = cr.edit, cr'.data = cr.data,
         UNCHANGED seen \/ (seen'.edit = cr.edit /\ seen'.data = cr.data),
         \/ inst'.edit = inst.edit /\ inst'.data = inst.data
         \/ inst'.edit = seen.edit /\ inst'.data = seen.data
         \/ inst'.edit = cr.edit /\ inst'.data = cr.data
  PROVE  GroundsInv'
BY DEF GroundsInv, Kept, Changed

LEMMA GroundsStep == TypeOK /\ HistoryInv /\ FreshInv /\ GroundsInv /\ [Next]_vars => GroundsInv'
<1> SUFFICES ASSUME TypeOK, HistoryInv, FreshInv, GroundsInv, [Next]_vars
             PROVE  GroundsInv'
  OBVIOUS
<1> USE DEF clusterVars, copyVars, passVars, caseVars, histVars
<1>1. CASE Fetch
  BY <1>1, SameGrounds DEF Fetch
<1>2. CASE FillDefaults
  <2>1. PICK found \in Finds : Fills(found)
    BY <1>2, FillsFound
  <2>2. UNCHANGED <<wished, seen>>
    BY <1>2 DEF FillDefaults
  <2>3. /\ cr'.edit = cr.edit /\ inst'.edit = inst.edit /\ inst'.data = Rewritten(inst.data, found)
        /\ cr' = cr \/ (instFresh /\ cr'.data = inst'.data)
        /\ grounds' = grounds \union Grounds(found)
    BY <2>1, FillsEffect
  <2>4. inst.edit = cr.edit => Changed(inst'.data) \subseteq grounds' \union {DefaultSecret}
    BY <2>3, RewrittenGrounds DEF GroundsInv, Kept
  <2>5. UNCHANGED wished => \A data : Changed(data)' = Changed(data)
    BY DEF Changed
  <2>6. Kept(inst)' /\ Kept(seen)'
    BY <2>2, <2>3, <2>4 DEF GroundsInv, Kept, Changed
  <2>7. Kept(cr)'
    BY <2>2, <2>3, <2>4 DEF GroundsInv, Kept, Changed, FreshInv
  <2> QED  BY <2>6, <2>7 DEF GroundsInv
<1>3. CASE MarkPending
  BY <1>3, MarkPendingEffect, SameGrounds DEF MarkPending
<1>4. CASE CreateConfigMap
  <2>1. UNCHANGED <<wished, grounds, cr, seen>>
    BY <1>4 DEF CreateConfigMap
  <2>2. Finish(TRUE) \/ Advance("workload")
    BY <1>4 DEF CreateConfigMap
  <2> QED  BY <2>1, <2>2, SameGrounds DEF Finish, Advance
<1>5. CASE InstallWorkload
  <2>1. UNCHANGED <<wished, grounds, seen>>
    BY <1>5 DEF InstallWorkload
  <2> QED  BY <1>5, <2>1, InstallEffect, SameGrounds
<1>6. CASE EditSpec
  <2>1. cr'.edit = cr.edit + 1 /\ wished' = cr'.data /\ UNCHANGED <<seen, inst>>
    BY <1>6 DEF EditSpec, TypeOK, CR
  <2>2. seen'.edit # cr'.edit /\ inst'.edit # cr'.edit
    BY <2>1, EditTypes DEF HistoryInv
  <2> QED  BY <2>1, <2>2 DEF GroundsInv, Kept, Changed
<1>7. CASE RollOut \/ PodsRestart \/ PodsChange
  BY <1>7, SameGrounds DEF RollOut, PodsRestart, PodsChange
<1>8. CASE DeliverCR \/ DeliverConfigMap \/ DeliverWorkload \/ Resync \/ Restart
  BY <1>8, SameGrounds DEF DeliverCR, DeliverConfigMap, DeliverWorkload, Resync, Delivered, Restart
<1>9. CASE UNCHANGED vars
  BY <1>9, SameGrounds DEF vars
<1> QED
  BY <1>1, <1>2, <1>3, <1>4, <1>5, <1>6, <1>7, <1>8, <1>9 DEF Next, Reconcile

LEMMA FaultsGrow ==
  ASSUME TypeOK, [Next]_vars, faults' = 0
  PROVE  faults = 0
<1>1. Fault => faults' # 0
  BY OperandAssumption DEF Fault, TypeOK
<1>2. Fault \/ UNCHANGED faults
  BY DEF Next, Reconcile, Fetch, FillDefaults, StoreCR, MarkPending, StoreState, CreateConfigMap,
     InstallWorkload, CreateWorkload, UpdateWorkload, ReportState, EditSpec, RollOut, PodsRestart,
     PodsChange, DeliverCR, DeliverConfigMap, DeliverWorkload, Restart, Resync, Delivered, vars
<1> QED  BY <1>1, <1>2

LEMMA DropStep == TypeOK /\ DropInv /\ [Next]_vars => DropInv'
<1> SUFFICES ASSUME TypeOK, DropInv, [Next]_vars, dropped', faults' = 0
             PROVE  FALSE
  BY DEF DropInv
<1>1. faults = 0 /\ ~dropped
  BY FaultsGrow DEF DropInv, TypeOK
<1>2. Fault => faults' # 0
  BY OperandAssumption DEF Fault, TypeOK
<1>3. UNCHANGED dropped \/ Fault
  BY DEF Next, Reconcile, Fetch, FillDefaults, MarkPending, CreateConfigMap, InstallWorkload, EditSpec,
     RollOut, PodsRestart, PodsChange, DeliverCR, DeliverConfigMap, DeliverWorkload, Restart, Resync,
     Delivered, vars, histVars
<1> QED  BY <1>1, <1>2, <1>3

\* The step of the ConfigMap: what it leaves behind is what the instance asks for, or not
\* shown yet, or dropped.
LEMMA ConfigEffect ==
  ASSUME TypeOK, CreateConfigMap, pc' = "workload"
  PROVE  /\ cmSeen' = cm' /\ HasConfig /\ ~dropped' => ConfigOf(inst.data) \subseteq cm'
         /\ UNCHANGED <<inst, instFresh, queued>> /\ (faults' = 0 => faults = 0)
<1>1. ConfigOf(inst.data) # {}
  BY ConfigCore DEF TypeOK, CR
<1>2. Advance("workload") /\ UNCHANGED cmSeen
  BY DEF CreateConfigMap, Finish, Advance, copyVars
<1>3. faults' = 0 => faults = 0
  <2>1. Fault \/ UNCHANGED faults
    BY DEF CreateConfigMap
  <2> QED  BY <2>1, OperandAssumption DEF Fault, TypeOK
<1>4. cmSeen' = cm' /\ HasConfig /\ ~dropped' => ConfigOf(inst.data) \subseteq cm'
  <2> SUFFICES ASSUME cmSeen = cm', HasConfig, ~dropped'
               PROVE  ConfigOf(inst.data) \subseteq cm'
    BY <1>2 DEF Advance
  <2>1. CASE cmSeen = {} /\ cm' = ConfigOf(inst.data)
    BY <1>1, <2>1
  <2>2. CASE cmSeen = {} /\ UNCHANGED cm /\ cm # {}
    BY <2>2
  <2>3. CASE cmSeen # {} /\ cm' = ConfigOf(inst.data)
    BY <2>3
  <2>4. CASE UNCHANGED cm /\ DeepDerivative(ConfigOf(inst.data), cmSeen)
    BY <2>4 DEF DeepDerivative
  <2>5. CASE dropped' = TRUE
    BY <2>5
  <2>6. \/ cmSeen = {} /\ cm' = ConfigOf(inst.data)
        \/ cmSeen = {} /\ UNCHANGED cm /\ cm # {}
        \/ cmSeen # {} /\ cm' = ConfigOf(inst.data)
        \/ UNCHANGED cm /\ DeepDerivative(ConfigOf(inst.data), cmSeen)
        \/ dropped' = TRUE
    BY DEF CreateConfigMap, Finish
  <2> QED  BY <2>1, <2>2, <2>3, <2>4, <2>5, <2>6
<1> QED  BY <1>2, <1>3, <1>4 DEF Advance

LEMMA PassStep == TypeOK /\ HistoryInv /\ FreshInv /\ PassInv /\ [Next]_vars => PassInv'
<1> SUFFICES ASSUME TypeOK, HistoryInv, FreshInv, PassInv, [Next]_vars
             PROVE  PassInv'
  OBVIOUS
<1> USE DEF clusterVars, copyVars, passVars, caseVars, histVars
<1>1. CASE Fetch
  BY <1>1 DEF Fetch, PassInv, FreshInv
<1>2. CASE FillDefaults
  <2>1. pc # "idle" /\ pc' = "pending" /\ UNCHANGED <<queued, instFresh>>
    BY <1>2 DEF FillDefaults
  <2> QED  BY <1>2, <2>1, FillDefaultsEffect DEF PassInv
<1>3. CASE MarkPending
  <2>1. pc # "idle" /\ pc' = "config" /\ UNCHANGED <<queued, instFresh>>
    BY <1>3 DEF MarkPending
  <2> QED  BY <1>3, <2>1, MarkPendingEffect DEF PassInv
<1>4. CASE CreateConfigMap
  <2>1. pc # "idle" /\ UNCHANGED <<kind, cr, fresh>>
    BY <1>4 DEF CreateConfigMap
  <2>2. pc' \in {"idle", "workload"}
    BY <1>4 DEF CreateConfigMap, Finish, Advance
  <2> QED  BY <1>4, <2>1, <2>2, ConfigEffect, SameKind DEF PassInv
<1>5. CASE InstallWorkload
  BY <1>5, InstallEffect DEF PassInv
<1>6. CASE EditSpec
  BY <1>6 DEF EditSpec, PassInv
<1>7. CASE RollOut \/ PodsRestart \/ PodsChange
  <2>1. UNCHANGED <<kind, cr, cm, copyVars, passVars, dropped, faults>>
    BY <1>7 DEF RollOut, PodsRestart, PodsChange
  <2> QED  BY <2>1, SameKind DEF PassInv
<1>8. CASE DeliverCR \/ DeliverConfigMap \/ DeliverWorkload \/ Resync \/ Restart
  BY <1>8 DEF DeliverCR, DeliverConfigMap, DeliverWorkload, Resync, Delivered, Restart, PassInv
<1>9. CASE UNCHANGED vars
  BY <1>9, SameKind DEF vars, PassInv
<1> QED
  BY <1>1, <1>2, <1>3, <1>4, <1>5, <1>6, <1>7, <1>8, <1>9 DEF Next, Reconcile

\* A pass that ends with nothing queued has gone by the stored resource, and has either
\* changed the workload, left it waiting for an approval, or found it as it should be.
LEMMA RestAfterPass ==
  ASSUME TypeOK, HistoryInv, FreshInv, PassInv, InstallWorkload
  PROVE  RestInv'
<1> SUFFICES ASSUME ~queued', fresh'
             PROVE  /\ depSeen'.tmpl = dep'.tmpl =>
                         /\ at' > 0 /\ Placed'
                         /\ faults' = 0 => PlacedInFull' /\ Told(depSeen.health)'
                    /\ cmSeen' = cm' /\ HasConfig' /\ ~dropped' =>
                         /\ Core(cr'.data) \subseteq cm'
                         /\ faults' = 0 => ConfigOf(cr.data)' \subseteq cm'
  BY DEF RestInv
<1>1. /\ pc = "workload" /\ UNCHANGED <<kind, cm, seen, cmSeen, depSeen, asked, dropped>>
  BY DEF InstallWorkload, caseVars
<1>2. ~queued /\ fresh /\ cr' = cr
  <2>1. queued' = (queued \/ TRUE) \/ queued' = (queued \/ FALSE)
    BY DEF InstallWorkload, CreateWorkload, UpdateWorkload, ReportState, Finish
  <2>2. ~queued
    BY <2>1
  <2> QED  BY <2>2, InstallEffect
<1>3. inst.edit = cr.edit /\ (cmSeen = cm /\ HasConfig /\ ~dropped => ConfigOf(inst.data) \subseteq cm)
  BY <1>1, <1>2 DEF PassInv
<1>4. Core(inst.data) = Core(cr.data) /\ inst.approved = cr.approved
  BY <1>3 DEF HistoryInv, Asking
<1>5. faults' = 0 => faults = 0 /\ instFresh /\ inst = cr
  <2>1. faults' = 0 => faults = 0
    BY FaultsGrow DEF Next, Reconcile
  <2> QED  BY <1>1, <1>2, <2>1 DEF PassInv
<1>6. cmSeen' = cm' /\ HasConfig' /\ ~dropped' =>
        /\ Core(cr'.data) \subseteq cm'
        /\ faults' = 0 => ConfigOf(cr.data)' \subseteq cm'
  <2>1. Core(inst.data) \subseteq ConfigOf(inst.data)
    BY ConfigCore DEF TypeOK, CR
  <2>2. ConfigOf(cr.data)' = ConfigOf(cr.data)
    BY <1>1, <1>2 DEF ConfigOf
  <2> QED  BY <1>1, <1>2, <1>3, <1>4, <1>5, <2>1, <2>2, SameKind
<1>7. inst.data # {} /\ (dep.tmpl # {} => at > 0) /\ dep \in Workload
  <2>1. inst.data # {} /\ dep \in Workload
    BY DataNotEmpty DEF TypeOK, CR
  <2>2. dep.tmpl # {} => at # 0
    BY DEF HistoryInv
  <2> QED  BY <2>1, <2>2, EditTypes
<1>8. depSeen'.tmpl = dep'.tmpl => UNCHANGED <<dep, at>>
  BY <1>1, <1>7, InstallEffect DEF Workload
<1>9. SUFFICES ASSUME depSeen.tmpl = dep.tmpl, UNCHANGED <<dep, at>>
               PROVE  /\ at > 0 /\ Placed
                      /\ faults' = 0 => PlacedInFull /\ Told(depSeen.health)
  BY <1>1, <1>2, <1>6, <1>8, SameKind DEF Told, Placed, PlacedInFull
<1>10. CASE CreateWorkload
  <2>1. dep'.tmpl # {} \/ queued'
    BY <1>7, <1>10 DEF CreateWorkload, PutTemplate, Finish, Workload
  <2> QED  BY <1>9, <1>10, <2>1 DEF CreateWorkload
<1>11. CASE UpdateWorkload
  <2>1. ~Approved
    BY <1>7, <1>9, <1>11 DEF UpdateWorkload, PutTemplate, Finish, Workload
  <2>2. StoreState("PendingApproval") /\ depSeen.tmpl # {} /\ depSeen.tmpl # inst.data
    BY <1>11, <2>1 DEF UpdateWorkload
  <2>3. Gated /\ ~cr.approved
    BY <1>4, <2>1 DEF Approved
  <2>4. faults' = 0 => cr.state = "PendingApproval"
    <3>1. "PendingApproval" \in State
      BY <2>3, States
    <3>2. faults' = 0 => cr = [cr EXCEPT !.state = "PendingApproval"]
      BY <1>2, <1>5, <2>2, <3>1, StoreStateEffect
    <3> QED  BY <3>2 DEF TypeOK, CR
  <2> QED  BY <1>5, <1>7, <1>9, <2>2, <2>3, <2>4 DEF Told, Placed, PlacedInFull
<1>12. CASE ReportState
  <2>1. dep.tmpl = inst.data /\ at > 0
    BY <1>7, <1>9, <1>12 DEF ReportState
  <2>2. ASSUME faults' = 0
        PROVE  StateFor(depSeen.health, cr.state) = cr.state
    <3> DEFINE s == StateFor(depSeen.health, inst.state)
    <3>1. CASE s = inst.state /\ UNCHANGED faults
      BY <1>5, <2>2, <3>1
    <3>2. CASE StoreState(s)
      <4>1. s \in State
        BY StateForType DEF TypeOK, CR, Workload
      <4> HIDE DEF s
      <4>2. instFresh => cr = [cr EXCEPT !.state = s]
        BY <1>2, <2>2, <3>2, <4>1, StoreStateEffect
      <4>3. inst = cr /\ cr = [cr EXCEPT !.state = s]
        BY <1>5, <2>2, <4>2
      <4>4. cr.state = s
        BY <4>3 DEF TypeOK, CR
      <4> QED  BY <4>3, <4>4 DEF s
    <3> QED  BY <1>12, <3>1, <3>2 DEF ReportState
  <2>3. faults' = 0 => dep.tmpl = cr.data
    BY <1>5, <2>1
  <2>4. dep.tmpl = cr.data /\ StateFor(depSeen.health, cr.state) = cr.state => Told(depSeen.health)
    BY DEF StateFor, Told
  <2> QED  BY <1>4, <2>1, <2>2, <2>3, <2>4 DEF Placed, PlacedInFull
<1> QED  BY <1>10, <1>11, <1>12 DEF InstallWorkload

LEMMA RestStep == TypeOK /\ IInv /\ [Next]_vars => RestInv'
<1> SUFFICES ASSUME TypeOK, HistoryInv, FreshInv, PassInv, RestInv, [Next]_vars
             PROVE  RestInv'
  BY DEF IInv
<1> USE DEF clusterVars, copyVars, passVars, caseVars, histVars
<1>1. CASE Fetch \/ FillDefaults \/ MarkPending
  BY <1>1 DEF Fetch, FillDefaults, MarkPending, RestInv
<1>2. CASE CreateConfigMap
  <2>1. (pc' = "idle" /\ queued') \/ pc' = "workload"
    BY <1>2 DEF CreateConfigMap, Finish, Advance
  <2> QED  BY <2>1 DEF RestInv
<1>3. CASE InstallWorkload
  BY <1>3, RestAfterPass
<1>4. CASE EditSpec
  BY <1>4 DEF EditSpec, RestInv
<1>5. CASE RollOut \/ PodsRestart \/ PodsChange
  <2>1. UNCHANGED <<kind, cr, cm, copyVars, passVars, histVars, faults>>
    BY <1>5 DEF RollOut, PodsRestart, PodsChange
  <2>2. dep'.tmpl = dep.tmpl
    BY <1>5 DEF RollOut, PodsRestart, PodsChange, TypeOK, Workload
  <2> QED  BY <2>1, <2>2, SameKind DEF RestInv, Told, Placed, PlacedInFull
<1>6. CASE DeliverCR \/ DeliverConfigMap \/ DeliverWorkload \/ Resync \/ Restart
  BY <1>6 DEF DeliverCR, DeliverConfigMap, DeliverWorkload, Resync, Delivered, Restart, RestInv
<1>7. CASE UNCHANGED vars
  BY <1>7, SameKind DEF vars, RestInv, Told, Placed, PlacedInFull
<1> QED
  BY <1>1, <1>2, <1>3, <1>4, <1>5, <1>6, <1>7 DEF Next, Reconcile

-----------------------------------------------------------------------------
(* The theorems. *)

\* The inductive invariant holds.
THEOREM IInvInvariant == Spec => [](TypeOK /\ IInv)
<1>1. TypeOK /\ IInv /\ [Next]_vars => (TypeOK /\ IInv)'
  BY TypeStep, HistoryStep, FreshStep, GroundsStep, DropStep, PassStep, RestStep DEF IInv
<1> QED  BY <1>1, TypeInit, InitInv, PTL DEF Spec

\* No write of the whole spec, from however old a copy, takes an edit back or leaves a
\* setting changed that a pass which went by the last edit had no grounds to change.
THEOREM NoEditIsLost == Spec => []NoLostEdit
<1>1. HistoryInv /\ GroundsInv => NoLostEdit
  BY DEF HistoryInv, GroundsInv, Kept, Changed, NoLostEdit
<1> QED  BY <1>1, IInvInvariant, PTL DEF IInv

\* A controller at rest has put the last spec in place, or waits for the approval, and no
\* entry is missing in the ConfigMap but where an error was ignored.
THEOREM ConvergenceCorrect == Spec => []RestMeansConverged
<1>1. TypeOK /\ IInv => RestMeansConverged
  <2> SUFFICES ASSUME TypeOK, HistoryInv, DropInv, RestInv, AtRest
               PROVE  /\ Core(dep.tmpl) = Core(cr.data) \/ (Waiting /\ dep.tmpl # {})
                      /\ HasConfig /\ ~dropped => Core(cr.data) \subseteq cm
                      /\ faults = 0 => dep.tmpl = cr.data \/ Waiting
                      /\ HasConfig /\ faults = 0 => ConfigOf(cr.data) \subseteq cm
    BY DEF IInv, RestMeansConverged
  <2>1. /\ at > 0 /\ Placed
        /\ faults = 0 => PlacedInFull
        /\ HasConfig /\ ~dropped => Core(cr.data) \subseteq cm
        /\ HasConfig /\ faults = 0 => ConfigOf(cr.data) \subseteq cm
    BY DEF AtRest, RestInv, DropInv
  <2>2. dep.tmpl # {}
    BY <2>1, EditTypes, PlacedIsNotEmpty
  <2> QED  BY <2>1, <2>2 DEF Waiting, Placed, PlacedInFull
<1> QED  BY <1>1, IInvInvariant, PTL

\* Without failed calls a controller at rest reports what the workload shows, whatever
\* status writes were lost to conflicts.
THEOREM ReportsTruly == Spec => []RestMeansReported
<1>1. TypeOK /\ IInv => RestMeansReported
  <2> SUFFICES ASSUME RestInv, AtRest, faults = 0
               PROVE  CASE Waiting -> cr.state = "PendingApproval"
                        [] ~Waiting /\ dep.health = "up" -> cr.state = "Running"
                        [] ~Waiting /\ dep.health = "down" -> cr.state \in {"Pending", Updating}
                        [] OTHER -> TRUE
    BY DEF IInv, RestMeansReported
  <2>1. Told(dep.health) /\ PlacedInFull
    BY DEF AtRest, RestInv
  <2> QED  BY <2>1 DEF Told, Waiting, PlacedInFull
<1> QED  BY <1>1, IInvInvariant, PTL

\* No step makes a state Pending again that has left it.
THEOREM PendingOnlyOnce == Spec => NeverPendingAgain
<1> DEFINE Forward == cr'.state = "Pending" => cr.state \in {"", "Pending"}
<1>1. TypeOK /\ IInv /\ [Next]_vars => [Forward]_vars
  <2> SUFFICES ASSUME TypeOK, HistoryInv, FreshInv, Next, cr'.state = "Pending"
               PROVE  cr.state \in {"", "Pending"}
    BY DEF IInv
  <2>1. inst.state \in State /\ cr.state \in State /\ depSeen.health \in Health /\ cr \in CR
    BY DEF TypeOK, CR, Workload
  <2>2. CASE FillDefaults
    BY <2>2, FillDefaultsEffect
  <2>3. CASE MarkPending
    <3>1. CASE UNCHANGED cr
      BY <3>1
    <3>2. CASE StoreState("Pending") /\ inst.state \notin Settled
      <4>1. cr' = cr \/ instFresh
        BY <3>2, StoreStateEffect DEF State
      <4>2. instFresh => cr.state = inst.state
        BY <2>3 DEF FreshInv, MarkPending
      <4>3. inst.state \in {"", "Pending"}
        BY <2>1, <3>2 DEF State
      <4> QED  BY <4>1, <4>2, <4>3
    <3> QED  BY <2>3, <3>1, <3>2 DEF MarkPending
  <2>4. CASE InstallWorkload
    <3>1. CASE UNCHANGED cr
      BY <3>1
    <3>2. CASE UpdateWorkload /\ ~Approved
      <4>1. StoreState("PendingApproval") /\ "PendingApproval" \in State
        BY <3>2, States DEF UpdateWorkload, Approved
      <4>2. cr' = cr \/ cr'.state = "PendingApproval"
        BY <2>1, <4>1, StoreStateEffect DEF CR
      <4> QED  BY <4>2
    <3>3. CASE ReportState /\ StateFor(depSeen.health, inst.state) # inst.state
      <4> DEFINE s == StateFor(depSeen.health, inst.state)
      <4>1. s \in State /\ s # "Pending"
        BY <2>1, <3>3, StateForType DEF StateFor, Updating
      <4>2. StoreState(s)
        BY <3>3 DEF ReportState
      <4> HIDE DEF s
      <4>3. cr' = cr \/ cr'.state = s
        BY <2>1, <4>1, <4>2, StoreStateEffect DEF CR
      <4> QED  BY <4>1, <4>3
    <3> QED
      BY <2>4, <3>1, <3>2, <3>3 DEF InstallWorkload, CreateWorkload, UpdateWorkload, ReportState
  <2>5. CASE EditSpec
    BY <2>5 DEF EditSpec, TypeOK, CR
  <2>6. CASE UNCHANGED cr
    BY <2>6
  <2> QED
    BY <2>2, <2>3, <2>4, <2>5, <2>6 DEF Next, Reconcile, Fetch, CreateConfigMap, RollOut, PodsRestart,
       PodsChange, DeliverCR, DeliverConfigMap, DeliverWorkload, Delivered, Restart, Resync, clusterVars
<1> QED  BY <1>1, IInvInvariant, PTL DEF Spec, NeverPendingAgain

\* Every operand's controller does nothing that LevelTriggered does not promise: it never
\* rolls the workload back, nor past an approval, nor rests before the last spec is in place.
THEOREM PromiseIsKept == Spec => Promise!Safely
<1>1. Init => Promise!Init
  <2> SUFFICES ASSUME Init
               PROVE  Promise!Init
    OBVIOUS
  <2>1. Asking(cr) \in Promise!Wish
    <3>1. cr.data \in Data
      BY DatasAreData DEF Init
    <3> QED  BY <3>1, DataCore DEF Init, Asking, Promise!Wish
  <2>2. asked = <<Asking(cr)>> /\ at = 0 /\ ~AtRest
    BY DEF Init, AtRest
  <2>3. AtRest = FALSE
    BY <2>2 DEF AtRest
  <2> QED  BY <2>1, <2>2, <2>3 DEF Promise!Init
<1>2. TypeOK /\ IInv /\ TypeOK' /\ IInv' /\ [Next]_vars => [Promise!Next]_(Promise!vars)
  <2> SUFFICES ASSUME TypeOK, HistoryInv, RestInv', TypeOK', HistoryInv', [Next]_vars
               PROVE  Promise!Next
    BY DEF IInv
  <2>0. AtRest' \in BOOLEAN
    BY DEF AtRest
  <2>1. CASE EditSpec
    <3>1. Asking(cr') \in Promise!Wish
      BY KindStays, SameKind, DataCore DEF TypeOK, CR, Asking, Promise!Wish
    <3>2. asked' = Append(asked, Asking(cr')) /\ UNCHANGED at /\ AtRest' = FALSE
      BY <2>1 DEF EditSpec, histVars, AtRest
    <3> QED  BY <3>1, <3>2 DEF Promise!Next, Promise!Ask
  <2>2. CASE InstallWorkload /\ dep' = [dep EXCEPT !.tmpl = inst.data] /\ at' = inst.edit
             /\ depSeen.tmpl # inst.data /\ (dep.tmpl = {} \/ ~Gated \/ inst.approved)
    <3>1. UNCHANGED <<asked, depSeen>> /\ pc = "workload"
      BY <2>2 DEF InstallWorkload, caseVars
    <3>2. dep'.tmpl # depSeen'.tmpl
      BY <2>2, <3>1 DEF TypeOK, Workload
    <3>3. AtRest' = FALSE
      BY <3>2 DEF AtRest
    <3>4. at <= inst.edit /\ inst.edit \in 1 .. Len(asked)
      BY <3>1, EditTypes DEF HistoryInv
    <3>5. at = 0 \/ asked[inst.edit].approved
      <4>1. CASE dep.tmpl = {}
        BY <4>1, PlacedIsNotEmpty
      <4>2. CASE ~Gated
        BY <3>4, <4>2 DEF HistoryInv
      <4>3. CASE inst.approved
        BY <4>3 DEF HistoryInv, Asking
      <4> QED  BY <2>2, <4>1, <4>2, <4>3
    <3> QED  BY <2>2, <3>1, <3>3, <3>4, <3>5 DEF Promise!Next, Promise!Apply
  <2>3. CASE UNCHANGED <<asked, at>>
    <3>1. CASE AtRest'
      <4>1. at' > 0 /\ (Core(dep'.tmpl) = Core(cr'.data) \/ ~cr'.approved)
        BY <3>1 DEF RestInv, AtRest, Placed
      <4>2. /\ Core(dep'.tmpl) = asked[at].value
            /\ Core(cr'.data) = asked[Len(asked)].value /\ cr'.approved = asked[Len(asked)].approved
        BY <2>3, <4>1, EditTypes DEF HistoryInv, Asking
      <4>3. Promise!Settled
        BY <2>3, <4>1, <4>2 DEF Promise!Settled, Promise!Last
      <4>4. AtRest' = TRUE
        BY <2>0, <3>1
      <4> QED  BY <2>3, <4>3, <4>4 DEF Promise!Next, Promise!Rest
    <3>2. CASE ~AtRest'
      <4>1. AtRest' = FALSE
        BY <2>0, <3>2
      <4> QED  BY <2>3, <4>1 DEF Promise!Next, Promise!Wake
    <3> QED  BY <3>1, <3>2
  <2>4. EditSpec \/ InstallWorkload \/ UNCHANGED <<asked, at>>
    BY DEF Next, Reconcile, Fetch, FillDefaults, MarkPending, CreateConfigMap, RollOut, PodsRestart,
       PodsChange, DeliverCR, DeliverConfigMap, DeliverWorkload, Delivered, Restart, Resync,
       vars, caseVars, histVars
  <2>5. InstallWorkload => UNCHANGED asked
    BY DEF InstallWorkload, caseVars
  <2> QED  BY <2>1, <2>2, <2>3, <2>4, <2>5, InstallEffect
<1> QED  BY <1>1, <1>2, IInvInvariant, PTL DEF Spec, Promise!Safely
=============================================================================
