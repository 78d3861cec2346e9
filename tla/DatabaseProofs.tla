--------------------------- MODULE DatabaseProofs ---------------------------
(* What holds of the KhulnasoftDatabase controller for every set of specs,   *)
(* every set of deletable objects and every bound.                         *)
EXTENDS Database, TLAPS

\* The password drawn for a new secret is a password: of five, one is not among the
\* four that may be in use.
LEMMA NewPasswordType == NewPassword \in Password
<1> DEFINE Free(p) == /\ p # password["secret"] /\ p # password["auditSecret"]
                      /\ p # data["deployment"] /\ p # data["auditDeployment"]
<1>1. Free(1) \/ Free(2) \/ Free(3) \/ Free(4) \/ Free(5)
  OBVIOUS
<1>2. \A p \in {1, 2, 3, 4, 5} : p \in Password
  BY DEF Password
<1>3. \E p \in Password : \A s \in Secrets, d \in Databases : p # password[s] /\ p # data[d]
  BY <1>1, <1>2 DEF Secrets, Databases
<1> QED
  BY <1>3 DEF NewPassword

\* How a pass ends, and how it goes on, keeps its variables in their types.
LEMMA FinishType ==
  ASSUME TypeOK, NEW r \in BOOLEAN, Finish(r)
  PROVE  /\ pc' = "idle" /\ queued' \in BOOLEAN /\ todo' = {}
         /\ inst' = seen /\ instFresh' = FALSE
BY DEF TypeOK, Finish

LEMMA FaultType ==
  ASSUME TypeOK, Fault \/ UNCHANGED faults
  PROVE  faults' \in 0 .. MaxFaults
BY DatabaseAssumption DEF TypeOK, Fault

LEMMA StoreStatusType ==
  ASSUME TypeOK, NEW s \in {"", "Pending", "Running"}, StoreStatus(s)
  PROVE  /\ cr' \in CR /\ fresh' \in BOOLEAN /\ faults' \in 0 .. MaxFaults
         /\ cr'.spec = cr.spec
         /\ cr' = cr \/ (instFresh /\ cr'.state = s)
         /\ fresh' => fresh /\ cr' = cr
<1>1. faults' \in 0 .. MaxFaults
  BY FaultType DEF StoreStatus
<1>2. cr' \in CR
  BY DEF TypeOK, StoreStatus, CR
<1>3. fresh' \in BOOLEAN
  BY DEF TypeOK, StoreStatus
<1>4. cr'.spec = cr.spec /\ (cr' = cr \/ (instFresh /\ cr'.state = s))
  BY DEF TypeOK, StoreStatus, CR
<1>5. fresh' => fresh /\ cr' = cr
  <2>1. CASE cr' = [cr EXCEPT !.state = s] /\ fresh' = (fresh /\ s = cr.state)
    <3>1. s = cr.state => cr' = cr
      BY <2>1 DEF TypeOK, CR
    <3> QED
      BY <2>1, <3>1, Zenon
  <2>2. CASE UNCHANGED <<cr, fresh>>
    BY <2>2
  <2> QED
    BY <2>1, <2>2 DEF StoreStatus
<1> QED
  BY <1>1, <1>2, <1>3, <1>4, <1>5, Zenon

LEMMA StoredType ==
  ASSUME TypeOK, NEW o \in Object, Stored(o)
  PROVE  /\ objs' \subseteq Object
         /\ password' \in [Secrets -> Password \union {None}]
         /\ scale' \in [Databases -> Nat]
<1>1. objs' \subseteq Object
  BY DEF TypeOK, Stored
<1>2. password' \in [Secrets -> Password \union {None}]
  BY NewPasswordType DEF TypeOK, Stored
<1>3. scale' \in [Databases -> Nat]
  BY DatabaseAssumption DEF TypeOK, Stored, CR
<1> QED
  BY <1>1, <1>2, <1>3

\* Every variable keeps its type.
THEOREM TypeCorrect == Spec => []TypeOK
<1>1. Init => TypeOK
  <2> SUFFICES ASSUME Init PROVE TypeOK
    OBVIOUS
  <2>1. cr \in CR
    BY DatabaseAssumption DEF Init, CR
  <2>2. objs \subseteq Object
    BY DEF Init, Object, InformerKinds, Secrets
  <2>3. password \in [Secrets -> Password \union {None}]
    <3>1. 1 \in Password
      BY DEF Password
    <3>2. password = [s \in Secrets |-> IF s \in objs THEN 1 ELSE None]
      BY DEF Init
    <3> QED
      BY <3>1, <3>2
  <2>4. edits \in 0 .. MaxEdits /\ faults \in 0 .. MaxFaults
    <3>1. \A m \in Nat : 0 \in 0 .. m
      OBVIOUS
    <3> QED
      BY <3>1, DatabaseAssumption DEF Init
  <2> QED
    BY <2>1, <2>2, <2>3, <2>4 DEF Init, TypeOK, None
<1>2. TypeOK /\ [Next]_vars => TypeOK'
  <2> SUFFICES ASSUME TypeOK, [Next]_vars PROVE TypeOK'
    OBVIOUS
  <2>1. CASE Fetch
    BY <2>1 DEF TypeOK, Fetch, Wanted, objVars, copyVars, userVars
  <2>2. CASE MarkPending
    <3>1. inst' \in CR
      BY <2>2 DEF TypeOK, MarkPending, CR
    <3>2. cr' \in CR /\ fresh' \in BOOLEAN /\ faults' \in 0 .. MaxFaults
      BY <2>2, StoreStatusType DEF MarkPending, TypeOK
    <3> QED
      BY <2>2, <3>1, <3>2 DEF TypeOK, MarkPending, objVars, userVars
  <2>3. CASE Install
    <3>1. PICK o \in Object : Turn(o) /\ (Create(o) \/ Skip(o) \/ Rescale(o) \/ ListNodes(o))
      BY <2>3 DEF Install
    <3>2. faults' \in 0 .. MaxFaults
      <4>1. Fault \/ UNCHANGED faults
        BY <3>1, Zenon DEF Create, Skip, Rescale, ListNodes
      <4> QED
        BY <4>1, FaultType
    <3>3. cr' \in CR /\ fresh' \in BOOLEAN
      BY <3>1 DEF TypeOK, Create, Skip, Rescale, ListNodes, CR
    <3>4. /\ objs' \subseteq Object
          /\ password' \in [Secrets -> Password \union {None}]
          /\ scale' \in [Databases -> Nat]
      <4>1. Stored(o) \/ UNCHANGED objVars
        BY <3>1 DEF Create, Skip, Rescale, ListNodes
      <4> QED
        BY <4>1, StoredType DEF TypeOK, objVars
    <3>5. Finish(TRUE) \/ Advance(o)
      BY <3>1 DEF Create, Skip, Rescale, ListNodes
    <3>6. pc' \in {"idle", "install"} /\ todo' \subseteq Object /\ queued' \in BOOLEAN
          /\ inst' \in CR /\ instFresh' \in BOOLEAN
      BY <2>3, <3>5, FinishType DEF TypeOK, Advance, Install
    <3> QED
      BY <2>3, <3>2, <3>3, <3>4, <3>6 DEF TypeOK, Install, userVars
  <2>4. CASE MarkRunning
    <3>1. cr' \in CR /\ fresh' \in BOOLEAN /\ faults' \in 0 .. MaxFaults
      BY <2>4, StoreStatusType DEF MarkRunning, TypeOK
    <3>2. Finish(FALSE)
      BY <2>4 DEF MarkRunning
    <3> QED
      BY <2>4, <3>1, <3>2, FinishType DEF TypeOK, MarkRunning, objVars, userVars
  <2>5. CASE EditSpec
    <3>1. cr' \in CR
      BY <2>5 DEF EditSpec, TypeOK, CR
    <3>2. edits' \in 0 .. MaxEdits
      BY <2>5, DatabaseAssumption DEF EditSpec, TypeOK
    <3> QED
      BY <2>5, <3>1, <3>2 DEF TypeOK, EditSpec, objVars
  <2>6. CASE Delete
    <3>1. faults' \in 0 .. MaxFaults
      BY <2>6, DatabaseAssumption DEF Delete, Fault, TypeOK
    <3>2. queued' \in BOOLEAN /\ objs' \subseteq Object /\ removed' \subseteq Object
      BY <2>6 DEF Delete, TypeOK
    <3> QED
      BY <2>6, <3>1, <3>2 DEF TypeOK, Delete, copyVars
  <2>7. CASE Initialise
    <3>1. data' \in [Databases -> Password \union {None}]
      BY <2>7 DEF TypeOK, Initialise, Secret, Secrets
    <3> QED
      BY <2>7, <3>1 DEF TypeOK, Initialise, objVars, copyVars, passVars, userVars
  <2>8. CASE DeliverCR
    BY <2>8 DEF TypeOK, DeliverCR, Delivered, objVars, userVars
  <2>9. CASE DeliverObject
    BY <2>9 DEF TypeOK, DeliverObject, Delivered, objVars, userVars
  <2>10. CASE Restart
    <3>1. faults' \in 0 .. MaxFaults
      BY <2>10, DatabaseAssumption DEF Restart, Fault, TypeOK
    <3> QED
      BY <2>10, <3>1 DEF TypeOK, Restart, objVars, userVars
  <2>11. CASE Resync
    BY <2>11 DEF TypeOK, Resync, Delivered, objVars, copyVars, userVars
  <2>12. CASE UNCHANGED vars
    BY <2>12 DEF TypeOK, vars, objVars, copyVars, passVars, userVars
  <2> QED
    BY <2>1, <2>2, <2>3, <2>4, <2>5, <2>6, <2>7, <2>8, <2>9, <2>10, <2>11, <2>12
    DEF Next, Reconcile
<1> QED
  BY <1>1, <1>2, PTL DEF Spec

-----------------------------------------------------------------------------
(* The password. *)

\* PasswordKept is inductive once one knows that data is only set up from a secret
\* that exists, and so stays or is deleted by a user.
PasswordInv ==
  /\ PasswordKept
  /\ \A d \in Databases : data[d] # None => Secret(d) \in objs \union removed

\* No database is ever locked out by a new password, unless a user deletes its secret.
THEOREM PasswordIsKept == Spec => []PasswordKept
<1>1. Init => PasswordInv
  BY DEF Init, PasswordInv, PasswordKept
<1>2. TypeOK /\ PasswordInv /\ [Next]_vars => PasswordInv'
  <2> SUFFICES ASSUME TypeOK, PasswordInv, [Next]_vars PROVE PasswordInv'
    OBVIOUS
  <2>1. CASE Install
    <3>1. PICK o \in Object : Turn(o) /\ (Create(o) \/ Skip(o) \/ Rescale(o) \/ ListNodes(o))
      BY <2>1 DEF Install
    <3>2. UNCHANGED <<data, removed>>
      BY <2>1 DEF Install, userVars
    <3>3. CASE o \notin objs /\ Stored(o)
      <4> SUFFICES ASSUME NEW d \in Databases, data[d] # None
                   PROVE  /\ Secret(d) \in objs' \union removed
                          /\ Secret(d) \in objs' \ removed => password'[Secret(d)] = data[d]
        BY <3>2 DEF PasswordInv, PasswordKept
      <4>1. Secret(d) \in objs \union removed /\ Secret(d) \in Secrets
        BY DEF PasswordInv, Secret, Secrets
      <4>2. Secret(d) # o \/ o \in removed
        BY <4>1, <3>3
      <4>3. Secret(d) # o => password'[Secret(d)] = password[Secret(d)]
        BY <4>1, <3>3 DEF Stored
      <4> QED
        BY <4>1, <4>2, <4>3, <3>3 DEF PasswordInv, PasswordKept, Stored
    <3>4. CASE UNCHANGED objVars
      BY <3>2, <3>4 DEF PasswordInv, PasswordKept, objVars
    <3> QED
      BY <3>1, <3>3, <3>4 DEF Create, Skip, Rescale, ListNodes
  <2>2. CASE Delete
    BY <2>2 DEF PasswordInv, PasswordKept, Delete
  <2>3. CASE Initialise
    <3>1. PICK e \in Databases : /\ Secret(e) \in objs
                                 /\ data' = [data EXCEPT ![e] = password[Secret(e)]]
      BY <2>3 DEF Initialise
    <3>2. UNCHANGED <<objs, password, removed>>
      BY <2>3 DEF Initialise, objVars, userVars
    <3>3. \A d \in Databases : data'[d] = IF d = e THEN password[Secret(e)] ELSE data[d]
      BY <3>1 DEF TypeOK
    <3> QED
      BY <3>1, <3>2, <3>3 DEF PasswordInv, PasswordKept
  <2>4. CASE UNCHANGED <<objs, password, data, removed>>
    BY <2>4 DEF PasswordInv, PasswordKept
  <2> QED
    BY <2>1, <2>2, <2>3, <2>4
    DEF Next, Reconcile, Fetch, MarkPending, MarkRunning, EditSpec, DeliverCR, DeliverObject,
        Delivered, Restart, Resync, vars, objVars, userVars
<1>3. PasswordInv => PasswordKept
  BY DEF PasswordInv
<1> QED
  BY <1>1, <1>2, <1>3, TypeCorrect, PTL DEF Spec

-----------------------------------------------------------------------------
(* Running means installed. *)

\* What the pass and the copies it reads can vouch for: what is no longer on the pass's
\* list, and what the informers show, is there or has been deleted by a user.
PassInv ==
  /\ visible \subseteq objs \union removed
  /\ fresh => seen = cr
  /\ pc = "idle" => ~instFresh
  /\ pc # "idle" => Wanted(inst.spec) \ todo \subseteq objs \union removed
  /\ instFresh => inst.spec = cr.spec
  /\ instFresh /\ inst.state = "Running" => cr.state = "Running"

\* The steps of the pass keep it, and it is what MarkRunning needs.
LEMMA PassInvHolds == Spec => []PassInv
<1>1. Init => PassInv
  BY DEF Init, PassInv
<1>2. TypeOK /\ PassInv /\ [Next]_vars => PassInv'
  <2> SUFFICES ASSUME TypeOK, PassInv, [Next]_vars PROVE PassInv'
    OBVIOUS
  <2>1. CASE Fetch
    BY <2>1 DEF PassInv, Fetch, objVars, copyVars, userVars
  <2>2. CASE MarkPending
    <3>1. UNCHANGED <<objs, removed, visible, seen, todo, instFresh>> /\ pc' = "install" /\ pc = "pending"
      BY <2>2 DEF MarkPending, objVars, userVars
    <3>2. CASE inst.state = "Running" /\ UNCHANGED <<cr, fresh, inst>>
      BY <3>1, <3>2 DEF PassInv
    <3>3. CASE StoreStatus("Pending") /\ inst' = [inst EXCEPT !.state = "Pending"]
      <4>1. inst'.spec = inst.spec /\ inst'.state = "Pending"
        BY <3>3 DEF TypeOK, CR
      <4>2. cr'.spec = cr.spec /\ (fresh' => fresh /\ cr' = cr)
        BY <3>3, StoreStatusType
      <4> QED
        BY <3>1, <4>1, <4>2 DEF PassInv
    <3> QED
      BY <2>2, <3>2, <3>3 DEF MarkPending
  <2>3. CASE Install
    <3>1. PICK o \in Object : Turn(o) /\ (Create(o) \/ Skip(o) \/ Rescale(o) \/ ListNodes(o))
      BY <2>3 DEF Install
    <3>2. UNCHANGED <<seen, visible, removed>> /\ pc = "install"
      BY <2>3 DEF Install, userVars
    <3>3. objs \subseteq objs'
      BY <3>1 DEF Create, Skip, Rescale, ListNodes, Stored, objVars
    <3>4. Finish(TRUE) \/ (Advance(o) /\ o \in objs' \union removed)
      BY <3>1 DEF Create, Skip, Rescale, ListNodes, Stored, objVars, PassInv
    <3>5. /\ cr'.spec = cr.spec
          /\ cr' = cr \/ cr'.state = inst.state
          /\ fresh' => fresh /\ cr' = cr
      <4>1. \/ cr' = cr /\ fresh' = fresh
            \/ cr' = [cr EXCEPT !.state = inst.state] /\ fresh' = FALSE
        BY <3>1, Zenon DEF Create, Skip, Rescale, ListNodes
      <4>2. cr' = [cr EXCEPT !.state = inst.state] => cr'.spec = cr.spec /\ cr'.state = inst.state
        BY DEF TypeOK, CR
      <4>3. CASE cr' = cr /\ fresh' = fresh
        BY <4>3
      <4>4. CASE cr' = [cr EXCEPT !.state = inst.state] /\ fresh' = FALSE
        BY <4>2, <4>4
      <4> QED
        BY <4>1, <4>3, <4>4
    <3>6. CASE Finish(TRUE)
      BY <3>2, <3>3, <3>5, <3>6 DEF PassInv, Finish
    <3>7. CASE Advance(o) /\ o \in objs' \union removed
      BY <3>2, <3>3, <3>5, <3>7 DEF PassInv, Advance
    <3> QED
      BY <3>4, <3>6, <3>7
  <2>4. CASE MarkRunning
    <3>1. fresh' => fresh /\ cr' = cr
      BY <2>4, StoreStatusType DEF MarkRunning
    <3> QED
      BY <2>4, <3>1 DEF PassInv, MarkRunning, Finish, objVars, userVars
  <2>5. CASE EditSpec
    BY <2>5 DEF PassInv, EditSpec, objVars
  <2>6. CASE Delete
    BY <2>6 DEF PassInv, Delete, copyVars
  <2>7. CASE Initialise
    BY <2>7 DEF PassInv, Initialise, objVars, copyVars, passVars, userVars
  <2>8. CASE DeliverCR
    BY <2>8 DEF PassInv, DeliverCR, Delivered, objVars, userVars
  <2>9. CASE DeliverObject
    BY <2>9 DEF PassInv, DeliverObject, Delivered, objVars, userVars
  <2>10. CASE Restart
    BY <2>10 DEF PassInv, Restart, objVars, userVars
  <2>11. CASE Resync
    BY <2>11 DEF PassInv, Resync, Delivered, objVars, copyVars, userVars
  <2>12. CASE UNCHANGED vars
    BY <2>12 DEF PassInv, vars, objVars, copyVars, passVars, userVars
  <2> QED
    BY <2>1, <2>2, <2>3, <2>4, <2>5, <2>6, <2>7, <2>8, <2>9, <2>10, <2>11, <2>12
    DEF Next, Reconcile
<1> QED
  BY <1>1, <1>2, TypeCorrect, PTL DEF Spec

\* The state becomes Running only when all the spec asks for is there, whatever calls
\* failed and however far the informers lag behind.
THEOREM RunningIsInstalled == Spec => RunningMeansInstalled
<1> DEFINE Step == cr.state # "Running" /\ cr'.state = "Running"
                   => Wanted(cr.spec) \subseteq objs \union removed
<1>1. TypeOK /\ PassInv /\ [Next]_vars => [Step]_vars
  <2> SUFFICES ASSUME TypeOK, PassInv, Next, cr.state # "Running", cr'.state = "Running"
               PROVE  Wanted(cr.spec) \subseteq objs \union removed
    OBVIOUS
  <2>1. CASE MarkPending
    BY <2>1, StoreStatusType DEF MarkPending
  <2>2. CASE Install
    BY <2>2 DEF Install, Create, Skip, Rescale, ListNodes, PassInv, TypeOK, CR
  <2>3. CASE MarkRunning
    <3>1. instFresh /\ todo = {} /\ pc = "install"
      BY <2>3, StoreStatusType DEF MarkRunning
    <3> QED
      BY <3>1 DEF PassInv
  <2>4. CASE EditSpec
    BY <2>4 DEF EditSpec, TypeOK, CR
  <2> QED
    BY <2>1, <2>2, <2>3, <2>4
    DEF Next, Reconcile, Fetch, Delete, Initialise, DeliverCR, DeliverObject, Delivered, Restart, Resync
<1> QED
  BY <1>1, TypeCorrect, PassInvHolds, PTL DEF Spec, RunningMeansInstalled

-----------------------------------------------------------------------------
(* At rest everything is installed. *)

\* The object is there, or its kind's copies differ from what there is, so that their
\* delivery will start a pass.
Covered(o) ==
  o \in objs \/ \E k \in InformerKinds : o \in k /\ visible \intersect k # objs \intersect k

\* What a pass on the last spec has looked after stays covered, and when nothing is
\* queued such a pass is the last that was run.
RestInv ==
  /\ pc # "idle" /\ ~queued /\ fresh
       => instFresh /\ \A o \in Wanted(inst.spec) \ todo : Covered(o)
  /\ pc = "idle" /\ ~queued /\ fresh
       => (\A o \in Wanted(cr.spec) : Covered(o)) /\ (faults = 0 => cr.state = "Running")

\* What the copies show is covered: it is there, or they are out of date.
LEMMA SeenIsCovered ==
  ASSUME NEW o \in Object, o \in visible
  PROVE  Covered(o)
<1>1. PICK k \in InformerKinds : o \in k
  BY DEF Object
<1> QED
  BY <1>1 DEF Covered

\* A creation that the copies do not show yet uncovers nothing,
LEMMA CreateKeepsCovered ==
  ASSUME NEW o, o \notin visible, objs' = objs \union {o}, visible' = visible,
         NEW p, Covered(p)
  PROVE  Covered(p)'
<1>1. CASE p \in objs
  BY <1>1 DEF Covered
<1>2. CASE p \notin objs
  <2>1. PICK k \in InformerKinds : p \in k /\ visible \intersect k # objs \intersect k
    BY <1>2 DEF Covered
  <2>2. CASE o \in k
    <3>1. o \in objs' \intersect k /\ o \notin visible' \intersect k
      BY <2>2
    <3> QED
      BY <2>1, <3>1, Zenon DEF Covered
  <2>3. CASE o \notin k
    <3>1. objs' \intersect k = objs \intersect k
      BY <2>3
    <3> QED
      BY <2>1, <3>1, Zenon DEF Covered
  <2> QED
    BY <2>2, <2>3
<1> QED
  BY <1>1, <1>2

\* nor does the deletion of an object that they show.
LEMMA DeleteKeepsCovered ==
  ASSUME NEW o \in Object, o \in visible, objs' = objs \ {o}, visible' = visible,
         NEW p, Covered(p)
  PROVE  Covered(p)'
<1>1. CASE p = o
  <2>1. PICK k \in InformerKinds : o \in k
    BY DEF Object
  <2>2. o \in visible' \intersect k /\ o \notin objs' \intersect k
    BY <2>1
  <2> QED
    BY <1>1, <2>1, <2>2, Zenon DEF Covered
<1>2. CASE p \in objs /\ p # o
  BY <1>2 DEF Covered
<1>3. CASE p \notin objs
  <2>1. PICK k \in InformerKinds : p \in k /\ visible \intersect k # objs \intersect k
    BY <1>3 DEF Covered
  <2>2. CASE o \in k
    <3>1. o \in visible' \intersect k /\ o \notin objs' \intersect k
      BY <2>2
    <3> QED
      BY <2>1, <3>1, Zenon DEF Covered
  <2>3. CASE o \notin k
    <3>1. objs' \intersect k = objs \intersect k
      BY <2>3
    <3> QED
      BY <2>1, <3>1, Zenon DEF Covered
  <2> QED
    BY <2>2, <2>3
<1> QED
  BY <1>1, <1>2, <1>3

LEMMA CoveredUnchanged ==
  ASSUME UNCHANGED <<objs, visible>>, NEW p
  PROVE  Covered(p)' = Covered(p)
BY DEF Covered

\* A step that leaves these variables alone leaves RestInv alone.
LEMMA RestUnchanged ==
  ASSUME RestInv, UNCHANGED <<objs, visible, pc, queued, instFresh, inst, todo, fresh, cr, faults>>
  PROVE  RestInv'
BY CoveredUnchanged DEF RestInv, Wanted

\* With a request in the queue, or a resource whose copy is out of date, nothing is asked.
LEMMA RestQueued ==
  ASSUME queued' \/ ~fresh'
  PROVE  RestInv'
BY DEF RestInv

LEMMA RestInvHolds == Spec => []RestInv
<1>1. Init => RestInv
  BY DEF Init, RestInv
<1>2. TypeOK /\ PassInv /\ RestInv /\ [Next]_vars => RestInv'
  <2> SUFFICES ASSUME TypeOK, PassInv, RestInv, [Next]_vars PROVE RestInv'
    OBVIOUS
  <2>1. CASE Fetch
    <3>1. pc' = "pending" /\ inst' = seen /\ todo' = Wanted(seen.spec)
      BY <2>1 DEF Fetch
    <3>2. fresh' => instFresh'
      BY <2>1, Zenon DEF Fetch, copyVars
    <3>3. Wanted(inst'.spec) \ todo' = {}
      BY <3>1
    <3> QED
      BY <3>1, <3>2, <3>3 DEF RestInv, Wanted
  <2>2. CASE MarkPending
    <3>1. UNCHANGED <<objs, visible, queued, instFresh, todo>> /\ pc' = "install" /\ pc = "pending"
      BY <2>2 DEF MarkPending, objVars
    <3>2. inst'.spec = inst.spec
      BY <2>2 DEF MarkPending, TypeOK, CR
    <3>3. fresh' => fresh
      <4>1. UNCHANGED fresh \/ StoreStatus("Pending")
        BY <2>2, Zenon DEF MarkPending
      <4> QED
        BY <4>1, StoreStatusType
    <3> QED
      BY <3>1, <3>2, <3>3, CoveredUnchanged DEF RestInv, Wanted
  <2>3. CASE Install
    <3>1. PICK o \in Object : Turn(o) /\ (Create(o) \/ Skip(o) \/ Rescale(o) \/ ListNodes(o))
      BY <2>3 DEF Install
    <3>2. UNCHANGED visible /\ pc = "install"
      BY <2>3 DEF Install
    <3>3. CASE Finish(TRUE)
      <4>1. queued'
        BY <3>3, Zenon DEF Finish
      <4> QED
        BY <4>1, RestQueued
    <3>4. CASE Advance(o) /\ UNCHANGED fresh
      <4>1. UNCHANGED <<queued, pc, inst, instFresh, fresh>> /\ todo' = todo \ {o}
        BY <3>4 DEF Advance
      <4>2. \/ o \notin visible /\ objs' = objs \union {o}
            \/ o \in visible /\ UNCHANGED objs
        BY <3>1, <3>2, <3>4 DEF Create, Skip, Rescale, ListNodes, Stored, Finish, Advance, objVars
      <4>3. Covered(o)'
        BY <3>2, <4>2, SeenIsCovered, CoveredUnchanged DEF Covered
      <4>4. \A p \in Object : Covered(p) => Covered(p)'
        BY <3>2, <4>2, CreateKeepsCovered, CoveredUnchanged
      <4>5. \A p \in Wanted(inst.spec) \ todo' : p = o \/ p \in Wanted(inst.spec) \ todo
        BY <4>1
      <4>6. Wanted(inst.spec) \subseteq Object
        BY DEF Wanted
      <4> QED
        BY <3>2, <4>1, <4>3, <4>4, <4>5, <4>6 DEF RestInv, Wanted
    <3>5. Finish(TRUE) \/ (Advance(o) /\ UNCHANGED fresh) \/ ~fresh'
      BY <3>1, Zenon DEF Create, Skip, Rescale, ListNodes
    <3> QED
      BY <3>3, <3>4, <3>5, RestQueued
  <2>4. CASE MarkRunning
    <3> SUFFICES ASSUME ~queued', fresh' PROVE RestInv'
      BY RestQueued
    <3>1. UNCHANGED <<objs, visible>> /\ pc' = "idle" /\ pc = "install" /\ todo = {}
      BY <2>4 DEF MarkRunning, Finish, objVars
    <3>2. ~queued
      BY <2>4, Zenon DEF MarkRunning, Finish
    <3>3. fresh /\ cr' = cr
      BY <2>4, StoreStatusType DEF MarkRunning
    <3>4. instFresh /\ inst.spec = cr.spec /\ \A o \in Wanted(cr.spec) : Covered(o)
      BY <3>1, <3>2, <3>3 DEF RestInv, PassInv
    <3>5. faults' = 0 => cr'.state = "Running"
      <4> SUFFICES ASSUME faults' = 0 PROVE cr'.state = "Running"
        OBVIOUS
      <4>1. ~Fault
        BY DEF Fault, TypeOK
      <4>2. CASE inst.state = "Running"
        BY <3>3, <3>4, <4>2 DEF PassInv
      <4>3. CASE StoreStatus("Running")
        <5>1. cr' = [cr EXCEPT !.state = "Running"]
          BY <3>4, <4>1, <4>3, Zenon DEF StoreStatus
        <5> QED
          BY <5>1 DEF TypeOK, CR
      <4> QED
        BY <2>4, <4>2, <4>3 DEF MarkRunning
    <3> QED
      BY <3>1, <3>3, <3>4, <3>5, CoveredUnchanged DEF RestInv, Wanted
  <2>5. CASE EditSpec
    BY <2>5, RestQueued DEF EditSpec
  <2>6. CASE Delete
    <3>1. PICK o \in Deletable \intersect objs :
            objs' = objs \ {o} /\ queued' = (queued \/ o \notin visible)
      BY <2>6 DEF Delete
    <3>2. UNCHANGED <<cr, visible, fresh, pc, inst, instFresh, todo>> /\ faults' # 0
      BY <2>6 DEF Delete, Fault, copyVars, TypeOK
    <3>3. o \in Object
      BY DatabaseAssumption
    <3>4. CASE o \notin visible
      <4>1. queued'
        BY <3>1, <3>4, Zenon
      <4> QED
        BY <4>1, RestQueued
    <3>5. CASE o \in visible
      <4>1. queued => queued'
        BY <3>1, Zenon
      <4>2. \A p : Covered(p) => Covered(p)'
        BY <3>1, <3>2, <3>3, <3>5, DeleteKeepsCovered
      <4> QED
        BY <3>2, <4>1, <4>2 DEF RestInv, Wanted
    <3> QED
      BY <3>4, <3>5
  <2>7. CASE Initialise
    BY <2>7, RestUnchanged DEF Initialise, objVars, copyVars, passVars
  <2>8. CASE DeliverCR \/ DeliverObject \/ Restart \/ Resync
    BY <2>8, RestQueued DEF DeliverCR, DeliverObject, Restart, Resync, Delivered
  <2>9. CASE UNCHANGED vars
    BY <2>9, RestUnchanged DEF vars, objVars, copyVars, passVars
  <2> QED
    BY <2>1, <2>2, <2>3, <2>4, <2>5, <2>6, <2>7, <2>8, <2>9 DEF Next, Reconcile
<1> QED
  BY <1>1, <1>2, TypeCorrect, PassInvHolds, PTL DEF Spec

\* At rest nothing that the spec asks for is missing, whichever calls failed, whatever
\* users deleted and however late the copies came.
THEOREM InstalledAtRest == Spec => []RestMeansInstalled
<1>1. RestInv => RestMeansInstalled
  <2> SUFFICES ASSUME RestInv, AtRest, NEW o \in Wanted(cr.spec) PROVE o \in objs
    BY DEF RestMeansInstalled
  <2>1. Covered(o)
    BY DEF RestInv, AtRest
  <2> QED
    BY <2>1 DEF Covered, AtRest
<1> QED
  BY <1>1, RestInvHolds, PTL

\* ... and unless a call has failed, the state is Running: the conflicts that the code
\* drops have all been made good.
THEOREM RunningAtRest == Spec => []RestMeansRunning
<1>1. RestInv => RestMeansRunning
  BY DEF RestInv, RestMeansRunning, AtRest
<1> QED
  BY <1>1, RestInvHolds, PTL
=============================================================================
