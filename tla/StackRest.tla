----------------------------- MODULE StackRest ------------------------------
(***************************************************************************)
(* RestMeansComplete of Stack, for every installation: what a pass leaves    *)
(* out when a Create fails and the error is dropped is made by a later pass, *)
(* which an event of what the same pass does make is sure to start.          *)
(***************************************************************************)
EXTENDS StackTemplates

-----------------------------------------------------------------------------
(* The witnesses. *)

\* Objects whose failure may be dropped, of any installation.
LenientThings ==
  {"readerBinding", "discoveryRole", "discoveryBinding", "serverConfig", "enforcerConfig",
   "scannerSecret", "scannerConfig"} \union (KubeEnforcerThings \ {"keSa"})

LEMMA LenientIs ==
  ASSUME NEW o
  PROVE  /\ Lenient(o) \subseteq LenientThings
         /\ ObjectsOf("kubeEnforcer", o) \ {"keSa"} \subseteq Lenient(o)
<1>1. ObjectsOf("kubeEnforcer", o) \subseteq KubeEnforcerThings
  <2>1. /\ Things("kubeEnforcer") = KubeEnforcerThings /\ "kubeEnforcer" \in Controllers
        /\ DOMAIN Plan("kubeEnforcer", o) = 1 .. Len(Plan("kubeEnforcer", o))
    BY PlanItems DEF Things, Controllers, Parts
  <2> QED
    BY <2>1, PlanIsOf DEF ObjectsOf
<1> QED
  BY <1>1 DEF Lenient, LenientThings, DiscoveryObjects

LEMMA WitnessesAre ==
  /\ \A c \in Parts : \A d \in Controllers \ {c} : Witnesses[c] \intersect Things(d) = {}
  /\ \A c \in Parts : Witnesses[c] \intersect (Parts \union Users \union {"sa"} \union Marks) = {}
  /\ \A c \in Parts : \A y \in Witnesses[c] : Watches(c, y)
  /\ \A c \in Parts \ {"database", "kubeEnforcer"} : Witnesses[c] \intersect LenientThings = {}
  /\ Witnesses["kubeEnforcer"] = {"keConfig", "keService"} /\ Witnesses["database"] = {}
<1>1. /\ Witnesses["server"] = {"serverDeployment"} /\ Witnesses["gateway"] = {"gatewayDeployment"}
      /\ Witnesses["enforcer"] = {"enforcerDaemonSet"}
      /\ Witnesses["scanner"] = {"scannerDeployment"}
      /\ Witnesses["kubeEnforcer"] = {"keConfig", "keService"} /\ Witnesses["database"] = {}
  BY DEF Witnesses
<1>2. /\ Things("csp") = CspThings /\ Things("database") = DatabaseThings
      /\ Things("server") = ServerThings /\ Things("gateway") = GatewayThings
      /\ Things("enforcer") = EnforcerThings /\ Things("kubeEnforcer") = KubeEnforcerThings
      /\ Things("scanner") = ScannerThings
  BY DEF Things
<1>3. Users = {"ownSecret", "grpcWeb", "grpcGateway", "grpcEnforcer", "grpcKubeEnforcer"}
  <2>1. DOMAIN MtlsSecret = {"server", "gateway", "enforcer", "kubeEnforcer"}
    BY DEF MtlsSecret
  <2>2. {MtlsSecret[c] : c \in {"server", "gateway", "enforcer", "kubeEnforcer"}}
          = {"grpcWeb", "grpcGateway", "grpcEnforcer", "grpcKubeEnforcer"}
    BY DEF MtlsSecret
  <2> QED
    BY <2>1, <2>2, Zenon DEF Users
<1>4. ASSUME NEW c \in Parts
      PROVE  /\ Witnesses[c] \subseteq {"serverDeployment", "gatewayDeployment", "enforcerDaemonSet",
                                        "scannerDeployment", "keConfig", "keService"}
             /\ \A d \in Controllers \ {c} : Witnesses[c] \intersect Things(d) = {}
  BY <1>1, <1>2 DEF Parts, Controllers, CspThings, DatabaseThings, ServerThings, GatewayThings,
                    EnforcerThings, KubeEnforcerThings, ScannerThings
<1>5. ASSUME NEW c \in Parts
      PROVE  /\ Witnesses[c] \intersect (Parts \union Users \union {"sa"} \union Marks) = {}
             /\ \A y \in Witnesses[c] : Watches(c, y)
  BY <1>3, <1>4 DEF Parts, Marks, Watches, ClusterScoped, DiscoveryObjects
<1>6. ASSUME NEW c \in Parts \ {"database", "kubeEnforcer"}
      PROVE  Witnesses[c] \intersect LenientThings = {}
  BY <1>1 DEF Parts, LenientThings, KubeEnforcerThings
<1> QED
  BY <1>1, <1>4, <1>5, <1>6

LEMMA FewerBehind ==
  ASSUME NEW s, NEW X, NEW F, NoneAfter(s, X, F), NEW G \in SUBSET F
  PROVE  NoneAfter(s, X, G)
BY DEF NoneAfter

\* Every plan has its witnesses, and those of the kube-enforcer come after its account.
LEMMA WitnessesPlanned ==
  ASSUME NEW c \in Parts, NEW o
  PROVE  /\ Witnesses[c] \subseteq Range(Plan(c, o))
         /\ c = "kubeEnforcer" => NoneAfter(Plan(c, o), Witnesses[c], {"keSa"})
<1>1. CASE c = "kubeEnforcer"
  <2> DEFINE S  == KubeEnforcerThings
             T  == KubeEnforcerThings \ {"keSa"}
             X  == {"keConfig", "keService"}
             s0 == <<"keRole", "keSa">>
             s1 == When(o.openshift, <<"keReaderBinding">>)
             s2 == <<"keBinding", "keNsRole", "keNsBinding">>
             s3 == <<"keDeployment", "starboard">>
  <2>1. /\ s0 \in Seq(S) /\ s2 \in Seq(T) /\ s3 \in Seq(T) /\ <<"keReaderBinding">> \in Seq(T)
        /\ KeWebhooks \in Seq(T) /\ KeData \in Seq(T) /\ s0 \in Seq({"keRole", "keSa"})
        /\ s3 \in Seq(S) /\ KeData \in Seq(S)
    BY DEF KubeEnforcerThings, KeWebhooks, KeData
  <2>2. s1 \in Seq(T)
    BY <2>1, WhenSeq
  <2>3. X \subseteq Range(KeData)
    <3>1. KeData[1] = "keConfig" /\ KeData[4] = "keService" /\ DOMAIN KeData = 1 .. 4
      BY DEF KeData
    <3> QED
      BY <3>1 DEF Range
  <2>4. NoneAfter(s0, X, {"keSa"})
    <3>1. Range(s0) \subseteq {"keRole", "keSa"}
      BY <2>1, SeqRange
    <3> QED
      BY <3>1, NothingBehind
  <2>5. T \in SUBSET S /\ T \intersect {"keSa"} = {}
    OBVIOUS
  <2>6. Plan(c, o) = s0 \o s1 \o s2 \o KeWebhooks \o KeData \o s3 /\ Witnesses[c] = X
    BY <1>1, WitnessesAre DEF Plan, KubeEnforcerPlan, KeRbac
  <2> DEFINE Good(s) == s \in Seq(S) /\ NoneAfter(s, X, {"keSa"})
  <2> HIDE DEF S, T, X, s0, s1, s2, s3
  <2>7. ASSUME NEW s, Good(s), NEW t \in Seq(T) PROVE Good(s \o t)
    BY <2>5, <2>7, GoesOn
  <2>8. Good(s0)
    BY <2>1, <2>4
  <2> HIDE DEF Good
  <2>9. Good(s0 \o s1 \o s2 \o KeWebhooks)
    BY <2>1, <2>2, <2>7, <2>8
  <2>10. Good(s0 \o s1 \o s2 \o KeWebhooks \o KeData) /\ Good(s0 \o s1 \o s2 \o KeWebhooks \o KeData \o s3)
    BY <2>1, <2>7, <2>9
  <2>11. X \subseteq Range(s0 \o s1 \o s2 \o KeWebhooks \o KeData)
    BY <2>1, <2>3, <2>9, ConcatSeq DEF Good
  <2>12. X \subseteq Range(s0 \o s1 \o s2 \o KeWebhooks \o KeData \o s3)
    BY <2>1, <2>10, <2>11, ConcatSeq DEF Good
  <2> QED
    BY <2>6, <2>10, <2>12 DEF Good
<1>2. CASE c # "kubeEnforcer"
  <2>1. /\ Witnesses["server"] = {"serverDeployment"} /\ Witnesses["gateway"] = {"gatewayDeployment"}
        /\ Witnesses["enforcer"] = {"enforcerDaemonSet"}
        /\ Witnesses["scanner"] = {"scannerDeployment"} /\ Witnesses["database"] = {}
    BY DEF Witnesses
  <2>2. /\ Plan("server", o) = ServerPlan(o) /\ Plan("gateway", o) = GatewayPlan(o)
        /\ Plan("enforcer", o) = EnforcerPlan(o) /\ Plan("scanner", o) = ScannerPlan(o)
    BY DEF Plan
  <2> QED
    BY <1>2, <2>1, <2>2, ServerPlanSeq, GatewayPlanSeq, EnforcerPlanSeq, ScannerPlanSeq DEF Parts
<1> QED
  BY <1>1, <1>2

\* Behind the workload of the other parts there is nothing that may be left out.
LEMMA WitnessesLast ==
  ASSUME NEW c \in Parts \ {"database", "kubeEnforcer"}, NEW o
  PROVE  NoneAfter(Plan(c, o), Witnesses[c], Lenient(o))
<1> DEFINE F == LenientThings
<1>1. ASSUME NEW S, {"sa", "readerBinding", "discoveryRole", "discoveryBinding"} \subseteq S
      PROVE  Rbac(o) \in Seq(S)
  BY <1>1, RbacSeq
<1>2. SUFFICES NoneAfter(Plan(c, o), Witnesses[c], F)
  BY LenientIs, FewerBehind
<1>3. /\ Witnesses["server"] = {"serverDeployment"} /\ Witnesses["gateway"] = {"gatewayDeployment"}
      /\ Witnesses["enforcer"] = {"enforcerDaemonSet"}
      /\ Witnesses["scanner"] = {"scannerDeployment"}
  BY DEF Witnesses
<1>4. ASSUME NEW S, NEW T \in SUBSET S, NEW U \in SUBSET S, NEW x, x \notin T, U \intersect F = {},
             NEW s \in Seq(T), NEW t \in Seq(U), NEW u \in Seq(S), NoneAfter(u, {x}, F)
      PROVE  NoneAfter(s \o u \o t, {x}, F) /\ NoneAfter(s \o u, {x}, F)
  <2>1. T \intersect {x} = {}
    BY <1>4
  <2>2. NoneAfter(s \o u, {x}, F) /\ s \o u \in Seq(S)
    BY <1>4, <2>1, BeginsWith
  <2> QED
    BY <1>4, <2>2, GoesOn
<1>5. CASE c = "server"
  <2> DEFINE S  == ServerThings
             s2 == <<"pending", "serverService">>
             s3 == When(o.logins, <<"adminSecret", "licenseSecret">>)
             s4 == When("enforcer" \in o.kids, <<"enforcerToken">>)
             s5 == <<"serverConfig", "serverDeployment">>
             s6 == When(o.openshift, <<"serverRoute">>)
             T  == S \ {"serverDeployment"}
             U  == S \ F
  <2>1. /\ s2 \in Seq(T) /\ s5 \in Seq(S) /\ <<"adminSecret", "licenseSecret">> \in Seq(T)
        /\ <<"enforcerToken">> \in Seq(T) /\ <<"serverRoute">> \in Seq(U)
    BY DEF ServerThings, LenientThings, KubeEnforcerThings
  <2>2. s3 \in Seq(T) /\ s4 \in Seq(T) /\ s6 \in Seq(U) /\ Rbac(o) \in Seq(T)
    BY <1>1, <2>1, WhenSeq DEF ServerThings
  <2>3. NoneAfter(s5, {"serverDeployment"}, F)
    <3>1. "serverDeployment" \notin F
      BY DEF LenientThings, KubeEnforcerThings
    <3> QED
      BY <3>1 DEF NoneAfter
  <2>4. Plan(c, o) = Rbac(o) \o s2 \o s3 \o s4 \o s5 \o s6
        /\ T \in SUBSET S /\ U \in SUBSET S /\ U \intersect F = {} /\ "serverDeployment" \notin T
    BY <1>5 DEF Plan, ServerPlan, ServerThings
  <2> HIDE DEF F, S, T, U, s2, s3, s4, s5, s6
  <2>5. Rbac(o) \o s2 \o s3 \o s4 \in Seq(T)
    BY <2>1, <2>2, ConcatSeq
  <2>6. NoneAfter(Rbac(o) \o s2 \o s3 \o s4 \o s5 \o s6, {"serverDeployment"}, F)
    BY <1>4, <2>1, <2>2, <2>3, <2>4, <2>5
  <2> QED
    BY <1>3, <1>5, <2>4, <2>6
<1>6. CASE c = "gateway"
  <2> DEFINE S  == GatewayThings
             s2 == <<"pending", "gatewayService", "gatewayDeployment">>
             s3 == When(o.openshift, <<"gatewayRoute">>)
             T  == S \ {"gatewayDeployment"}
             U  == S \ F
  <2>1. /\ s2 \in Seq(U) /\ s2 \in Seq(S) /\ <<"gatewayRoute">> \in Seq(U)
    BY DEF GatewayThings, LenientThings, KubeEnforcerThings
  <2>2. s3 \in Seq(U) /\ Rbac(o) \in Seq(T)
    BY <1>1, <2>1, WhenSeq DEF GatewayThings
  <2>3. NoneAfter(s2, {"gatewayDeployment"}, F)
    BY <2>1, SeqRange, NothingBehind
  <2>4. Plan(c, o) = Rbac(o) \o s2 \o s3
        /\ T \in SUBSET S /\ U \in SUBSET S /\ U \intersect F = {} /\ "gatewayDeployment" \notin T
    BY <1>6 DEF Plan, GatewayPlan, GatewayThings
  <2> HIDE DEF F, S, T, U, s2, s3
  <2>5. NoneAfter(Rbac(o) \o s2 \o s3, {"gatewayDeployment"}, F)
    BY <1>4, <2>1, <2>2, <2>3, <2>4
  <2> QED
    BY <1>3, <1>6, <2>4, <2>5
<1>7. CASE c = "enforcer"
  <2> DEFINE S  == EnforcerThings
             s2 == <<"enforcerConfig", "enforcerDaemonSet">>
             T  == S \ {"enforcerDaemonSet"}
             U  == S \ F
  <2>1. s2 \in Seq(S) /\ Rbac(o) \in Seq(T)
    BY <1>1 DEF EnforcerThings
  <2>2. NoneAfter(s2, {"enforcerDaemonSet"}, F)
    <3>1. "enforcerDaemonSet" \notin F
      BY DEF LenientThings, KubeEnforcerThings
    <3> QED
      BY <3>1 DEF NoneAfter
  <2>3. Plan(c, o) = Rbac(o) \o s2
        /\ T \in SUBSET S /\ U \in SUBSET S /\ U \intersect F = {} /\ "enforcerDaemonSet" \notin T /\ <<>> \in Seq(U)
    BY <1>7 DEF Plan, EnforcerPlan, EnforcerThings
  <2> HIDE DEF F, S, T, U, s2
  <2>4. NoneAfter(Rbac(o) \o s2, {"enforcerDaemonSet"}, F)
    BY <1>4, <2>1, <2>2, <2>3
  <2> QED
    BY <1>3, <1>7, <2>3, <2>4
<1>8. CASE c = "scanner"
  <2> DEFINE S  == ScannerThings
             s2 == <<"scannerSecret", "scannerConfig", "scannerDeployment">>
             T  == S \ {"scannerDeployment"}
             U  == S \ F
  <2>1. s2 \in Seq(S) /\ Rbac(o) \in Seq(T)
    BY <1>1 DEF ScannerThings
  <2>2. NoneAfter(s2, {"scannerDeployment"}, F)
    <3>1. "scannerDeployment" \notin F
      BY DEF LenientThings, KubeEnforcerThings
    <3> QED
      BY <3>1 DEF NoneAfter
  <2>3. Plan(c, o) = Rbac(o) \o s2
        /\ T \in SUBSET S /\ U \in SUBSET S /\ U \intersect F = {} /\ "scannerDeployment" \notin T /\ <<>> \in Seq(U)
    BY <1>8 DEF Plan, ScannerPlan, ScannerThings
  <2> HIDE DEF F, S, T, U, s2
  <2>4. NoneAfter(Rbac(o) \o s2, {"scannerDeployment"}, F)
    BY <1>4, <2>1, <2>2, <2>3
  <2> QED
    BY <1>3, <1>8, <2>3, <2>4
<1> QED
  BY <1>5, <1>6, <1>7, <1>8 DEF Parts
-----------------------------------------------------------------------------
(* What is left out is made good. *)

\* A part writes all that comes after its account in one go.
LEMMA LastStretch ==
  ASSUME TypeOK, NEW c \in Parts, Reading(c), Item(c) \notin Halts
  PROVE  Beyond(c) = Len(Plan(c, chosen)) + 1
<1>1. /\ opts \in Names /\ pos[c] \in 1 .. Len(Plan(c, chosen)) /\ Len(Plan(c, chosen)) \in Nat
      /\ Item(c) = Plan(c, chosen)[pos[c]] /\ c \in Controllers
  BY ReadingType, PartsControl
<1>2. /\ Beyond(c) \in 1 .. Len(Plan(c, chosen)) + 1 /\ pos[c] <= Beyond(c)
      /\ Beyond(c) <= Len(Plan(c, chosen)) => Plan(c, chosen)[Beyond(c)] \in Halts
  BY <1>1, BeyondType
<1>3. SUFFICES ASSUME Beyond(c) <= Len(Plan(c, chosen)) PROVE FALSE
  BY <1>1, <1>2
<1> DEFINE plan == Plan(c, chosen)
<1>4. Beyond(c) \in 1 .. Len(plan) /\ pos[c] < Beyond(c) /\ DOMAIN plan = 1 .. Len(plan)
  <2>1. pos[c] # Beyond(c)
    BY <1>1, <1>2, <1>3
  <2> QED
    BY <1>1, <1>2, <1>3, <2>1, PlanItems
<1>5. plan[Beyond(c)] \in Things(c) /\ plan[pos[c]] \in Things(c) \ {"sa"}
  BY <1>1, <1>4, PlanIsOf DEF Halts
<1>6. {"waitDb", "gate"} \intersect Things(c) = {}
  BY DEF Things, Parts, DatabaseThings, ServerThings, GatewayThings, EnforcerThings,
         KubeEnforcerThings, ScannerThings
<1>7. plan[Beyond(c)] = "sa"
  BY <1>2, <1>3, <1>5, <1>6 DEF Halts
<1>8. NoneAfter(plan, Things(c) \ {"sa"}, {"sa"})
  BY AccountOrder
<1> QED
  BY <1>1, <1>4, <1>5, <1>7, <1>8 DEF NoneAfter

\* What is not due is made.
LEMMA DueOrMade ==
  ASSUME TypeOK, NEW c, NEW x, ~Due(c, x)
  PROVE  x \in made \union Marks
BY DEF TypeOK, Due, Marks

LEMMA PlanObjects ==
  ASSUME NEW c \in Controllers, NEW o
  PROVE  /\ \A i \in 1 .. Len(Plan(c, o)) : Plan(c, o)[i] \notin Marks => Plan(c, o)[i] \in ObjectsOf(c, o)
         /\ \A x \in ObjectsOf(c, o) : x \notin Marks /\ \E i \in 1 .. Len(Plan(c, o)) : x = Plan(c, o)[i]
<1>1. DOMAIN Plan(c, o) = 1 .. Len(Plan(c, o))
  BY PlanItems
<1> QED
  BY <1>1 DEF ObjectsOf, Marks

LEMMA FaultsCount ==
  ASSUME TypeOK
  PROVE  faults \in Nat /\ MaxFaults[opts] \in Nat /\ faults <= MaxFaults[opts]
<1>1. MaxFaults[opts] \in Nat /\ faults \in 0 .. MaxFaults[opts]
  BY StackAssumption DEF TypeOK
<1> QED
  BY <1>1

\* A step that leaves the pass and the witnesses of a part alone.
LEMMA RestKept ==
  ASSUME TypeOK, CompletionInv, UNCHANGED opts, NEW c \in Parts, pos'[c] = pos[c],
         made \subseteq made', Witnesses[c] \intersect made' \subseteq made,
         c \in queued => c \in queued',
         c \in made' => c \in made \union queued',
         Coming(c) => Coming(c)' \/ c \in queued',
         UNCHANGED faults \/ Fault
  PROVE  (PassedMade(c) /\ RestSound(c) /\ WitnessSound(c))'
<1>1. PassedMade(c) /\ RestSound(c) /\ WitnessSound(c)
  BY DEF CompletionInv
<1>2. opts \in Names /\ c \in Controllers /\ PlanOf(c)' = PlanOf(c)
  BY PartsControl DEF TypeOK, PlanOf
<1>3. faults \in Nat /\ MaxFaults[opts] \in Nat
  BY FaultsCount
<1>4. (faults' = 0 => faults = 0) /\ (faults = MaxFaults[opts] => faults' = faults)
  BY <1>3 DEF Fault
<1>5. PassedMade(c)'
  BY <1>1, <1>2 DEF PassedMade
<1>6. RestSound(c)'
  BY <1>1, <1>4 DEF RestSound, chosen
<1>7. WitnessSound(c)'
  BY <1>1, <1>4 DEF WitnessSound, MayDrop, chosen
<1> QED
  BY <1>5, <1>6, <1>7

LEMMA BeginRest ==
  ASSUME TypeOK, CompletionInv, NEW d \in Controllers, Begin(d)
  PROVE  CompletionInv'
<1>1. /\ UNCHANGED <<opts, made, shown>> /\ (UNCHANGED faults \/ Fault)
      /\ \A c \in Controllers \ {d} : c \in queued => c \in queued'
  BY DEF Begin
<1>2. DOMAIN pos = Controllers /\ opts \in Names /\ shown \subseteq made
  BY DEF TypeOK
<1>3. pos' = [pos EXCEPT ![d] = NextStop(d, 1, shown)]
  BY DEF Begin
<1>4. ASSUME NEW c \in Parts \ {d} PROVE (PassedMade(c) /\ RestSound(c) /\ WitnessSound(c))'
  <2>1. c \in Controllers
    BY PartsControl
  <2>2. \E n : pos' = [pos EXCEPT ![d] = n]
    BY <1>3
  <2>3. pos'[c] = pos[c]
    BY <1>2, <2>1, <2>2
  <2>4. Coming(c) => Coming(c)'
    BY <1>1 DEF Coming
  <2> QED
    BY <1>1, <2>1, <2>3, <2>4, RestKept
<1>5. ASSUME d \in Parts PROVE (PassedMade(d) /\ RestSound(d) /\ WitnessSound(d))'
  <2>1. /\ 1 \in 1 .. Len(Plan(d, chosen)) + 1
        /\ NextStop(d, 1, shown) \in 1 .. Len(Plan(d, chosen))
        /\ Len(Plan(d, chosen)) \in Nat
    <3>1. Len(Plan(d, chosen)) \in Nat
      BY PlanItems
    <3>2. 1 \in 1 .. Len(Plan(d, chosen)) + 1
      BY <3>1
    <3> QED
      BY <1>2, <3>1, <3>2, NextStopType
  <2>2. pos'[d] \in 1 .. Len(Plan(d, chosen)) /\ pos'[d] = NextStop(d, 1, shown)
    BY <1>2, <1>3, <2>1
  <2>3. \A i \in 1 .. pos'[d] - 1 : Plan(d, chosen)[i] \in shown
    BY <1>2, <2>1, <2>2, PassedOver
  <2>4. PassedMade(d)'
    <3>1. PlanOf(d)' = Plan(d, chosen) /\ made' = made
      BY <1>1, <1>2, PlanOfIs DEF PlanOf
    <3> QED
      BY <1>2, <2>3, <3>1 DEF PassedMade
  <2>5. pos'[d] # 0
    BY <2>1, <2>2
  <2>6. RestSound(d)'
    BY <2>5 DEF RestSound
  <2>7. faults' = 0 => faults = 0
    BY <1>1, FaultsCount DEF Fault
  <2>8. WitnessSound(d)'
    <3>1. WitnessSound(d) /\ made' = made /\ opts' = opts
      BY <1>1, <1>5 DEF CompletionInv
    <3> QED
      BY <2>7, <3>1 DEF WitnessSound, MayDrop, chosen
  <2> QED
    BY <2>4, <2>6, <2>8
<1> QED
  BY <1>4, <1>5 DEF CompletionInv

LEMMA AccountRest ==
  ASSUME TypeOK, TypeOK', CompletionInv, NEW d \in Controllers, CreateAccount(d)
  PROVE  CompletionInv'
<1> DEFINE by == [inst[d] EXCEPT !.pull = KeepShown(inst[d].pull)]
<1>1. /\ UNCHANGED opts /\ (UNCHANGED faults \/ Fault)
      /\ made \subseteq made' /\ made' \subseteq made \union {"sa"}
      /\ shown' \subseteq shown \union {"sa"} /\ Reading(d) /\ Item(d) = "sa"
  BY Zenon DEF CreateAccount
<1>2. \/ "sa" \in made' /\ \E events : GoOnFrom(d, pos[d] + 1, by, events)
      \/ Finish(d, Retry(d))
  BY DEF CreateAccount
<1>3. /\ pos[d] \in 1 .. Len(Plan(d, chosen)) /\ Len(Plan(d, chosen)) \in Nat /\ opts \in Names
      /\ Plan(d, chosen)[pos[d]] = "sa" /\ pos[d] + 1 \in 1 .. Len(Plan(d, chosen)) + 1
  <2>1. /\ pos[d] \in 1 .. Len(Plan(d, chosen)) /\ Len(Plan(d, chosen)) \in Nat /\ opts \in Names
        /\ Plan(d, chosen)[pos[d]] = "sa"
    BY <1>1, ReadingType
  <2> QED
    BY <2>1
<1> HIDE DEF by
<1>4. /\ queued \subseteq queued' /\ \A c \in Controllers \ {d} : pos'[c] = pos[c]
      /\ \/ pos'[d] = 0 /\ d \in queued'
         \/ /\ "sa" \in made' /\ pos'[d] = 0
            /\ \A i \in pos[d] + 1 .. Len(Plan(d, chosen)) : Plan(d, chosen)[i] \in shown'
         \/ /\ "sa" \in made' /\ pos'[d] \in pos[d] + 1 .. Len(Plan(d, chosen))
            /\ \A i \in pos[d] + 1 .. pos'[d] - 1 : Plan(d, chosen)[i] \in shown'
  <2>1. CASE Finish(d, Retry(d))
    BY <2>1, PassEnds DEF Retry
  <2>2. ASSUME NEW events, GoOnFrom(d, pos[d] + 1, by, events)
        PROVE  /\ queued \subseteq queued' /\ \A c \in Controllers \ {d} : pos'[c] = pos[c]
               /\ \/ /\ pos'[d] = 0
                     /\ \A i \in pos[d] + 1 .. Len(Plan(d, chosen)) : Plan(d, chosen)[i] \in shown'
                  \/ /\ pos'[d] \in pos[d] + 1 .. Len(Plan(d, chosen))
                     /\ \A i \in pos[d] + 1 .. pos'[d] - 1 : Plan(d, chosen)[i] \in shown'
    BY <1>1, <1>3, <2>2, PassGoesOn
  <2> QED
    BY <1>2, <2>1, <2>2
<1>5. \A c \in Parts : Witnesses[c] \intersect made' \subseteq made /\ (Coming(c) => Coming(c)')
  <2>1. \A c \in Parts : "sa" \notin Witnesses[c]
    BY WitnessesAre
  <2> QED
    BY <1>1, <2>1 DEF Coming
<1>6. \A c \in Parts : c \in made' => c \in made
  BY <1>1 DEF Parts
<1>7. ASSUME NEW c \in Parts \ {d} PROVE (PassedMade(c) /\ RestSound(c) /\ WitnessSound(c))'
  <2>1. c \in Controllers
    BY PartsControl
  <2> QED
    BY <1>1, <1>4, <1>5, <1>6, <2>1, RestKept
<1>8. ASSUME d \in Parts PROVE (PassedMade(d) /\ RestSound(d) /\ WitnessSound(d))'
  <2>0. shown' \subseteq made'
    BY DEF TypeOK
  <2>1. /\ PlanOf(d) = Plan(d, chosen) /\ PlanOf(d)' = Plan(d, chosen) /\ shown' \subseteq made'
        /\ chosen' = chosen
    BY <1>1, <1>3, <2>0, PlanOfIs DEF PlanOf, chosen
  <2>2. \A i \in 1 .. pos[d] - 1 : Plan(d, chosen)[i] \in made' \union Marks
    BY <1>1, <1>8, <2>1 DEF CompletionInv, PassedMade
  <2>3. PassedMade(d)'
    BY <1>3, <1>4, <2>1, <2>2 DEF PassedMade
  <2>4. RestSound(d)'
    <3>1. CASE d \in queued' \/ pos'[d] # 0
      BY <3>1 DEF RestSound
    <3>2. CASE /\ "sa" \in made'
               /\ \A i \in pos[d] + 1 .. Len(Plan(d, chosen)) : Plan(d, chosen)[i] \in shown'
      <4>1. ASSUME NEW i \in 1 .. Len(Plan(d, chosen)) PROVE Plan(d, chosen)[i] \in made' \union Marks
        <5>1. i < pos[d] \/ i = pos[d] \/ i > pos[d]
          BY <1>3
        <5>2. CASE i < pos[d]
          BY <1>3, <2>2, <5>2
        <5>3. CASE i > pos[d]
          BY <1>3, <2>1, <3>2, <5>3
        <5> QED
          BY <1>3, <3>2, <5>1, <5>2, <5>3
      <4>2. ObjectsOf(d, chosen) \subseteq made'
        BY <4>1, PlanObjects
      <4> QED
        BY <2>1, <4>2 DEF RestSound
    <3> QED
      BY <1>3, <1>4, <3>1, <3>2
  <2>5. faults' = 0 => faults = 0
    BY <1>1, FaultsCount DEF Fault
  <2>6. WitnessSound(d)'
    <3>1. WitnessSound(d) /\ opts' = opts /\ made \subseteq made'
      BY <1>1, <1>8 DEF CompletionInv
    <3>2. Witnesses[d] \intersect made' \subseteq made
      BY <1>5, <1>8
    <3> QED
      BY <2>5, <3>1, <3>2 DEF WitnessSound, MayDrop, chosen
  <2> QED
    BY <2>3, <2>4, <2>6
<1> QED
  BY <1>7, <1>8 DEF CompletionInv
\* What may fail without ending a pass fails but once.
FailsOnce == \A n \in Names : MaxFaults[n] <= 1 \/ Failing \intersect Lenient(Choice[n]) = {}

\* A part writes: what it had behind it, what it makes, and what it leaves out.
LEMMA WriteMakes ==
  ASSUME TypeOK, CompletionInv, NEW c \in Parts, Reading(c),
         NEW new, NEW failed, NEW end \in pos[c] .. Beyond(c), Writes(c, new, failed, end)
  PROVE  \A i \in 1 .. end - 1 : Plan(c, chosen)[i] \in made \union new \union failed \union Marks
<1> SUFFICES ASSUME NEW i \in 1 .. end - 1
             PROVE  Plan(c, chosen)[i] \in made \union new \union failed \union Marks
  OBVIOUS
<1>1. c \in Controllers /\ opts \in Names /\ PlanOf(c) = Plan(c, chosen)
  BY ReadingType, PartsControl, PlanOfIs
<1>2. pos[c] \in Nat /\ end \in Nat
  BY <1>1, ReadingType, BeyondType
<1>3. CASE i < pos[c]
  BY <1>1, <1>2, <1>3 DEF CompletionInv, PassedMade
<1>4. CASE i >= pos[c]
  <2>1. i \in pos[c] .. end - 1
    BY <1>2, <1>4
  <2>2. Due(c, Plan(c, chosen)[i]) => Plan(c, chosen)[i] \in new \union failed \union made
    BY <2>1 DEF Writes
  <2> QED
    BY <2>2, DueOrMade
<1> QED
  BY <1>2, <1>3, <1>4

\* A pass that is not ended by a failure: if one thing was left out, a witness has been made.
LEMMA PassCompletes ==
  ASSUME TypeOK, CompletionInv, FailsOnce, NEW c \in Parts, Reading(c), Item(c) \notin Halts,
         NEW new, NEW failed \in SUBSET Failing, NEW end \in pos[c] .. Beyond(c),
         Writes(c, new, failed, end), end = Beyond(c)
  PROVE  /\ failed = {} => ObjectsOf(c, chosen) \subseteq made'
         /\ failed # {} => c \in queued' \/ (faults' = MaxFaults[opts] /\ Coming(c)')
<1> DEFINE plan == Plan(c, chosen)
<1>1. /\ c \in Controllers /\ opts \in Names /\ Len(plan) \in Nat /\ end = Len(plan) + 1
  BY ReadingType, PartsControl, LastStretch
<1>2. \A i \in 1 .. Len(plan) : plan[i] \in made \union new \union failed \union Marks
  <2>1. \A i \in 1 .. end - 1 : plan[i] \in made \union new \union failed \union Marks
    BY WriteMakes
  <2> QED
    BY <1>1, <2>1
<1>3. made' = made \union new /\ shown' = shown \union (new \ Lagging)
  BY DEF Writes, Store
<1>4. ObjectsOf(c, chosen) \subseteq made' \union failed
  BY <1>1, <1>2, <1>3, PlanObjects
<1>5. ASSUME failed # {} PROVE c \in queued' \/ (faults' = MaxFaults[opts] /\ Coming(c)')
  <2>1. PICK x \in failed : /\ failed = {x} /\ x \notin made \ shown
                            /\ \E i \in pos[c] .. Beyond(c) - 1 : x = plan[i]
    BY <1>5 DEF Writes
  <2>2. /\ x \in Dropping[opts] \ shown /\ Fault
        /\ GoOnFrom(c, Beyond(c), inst[c], Events(c, new)) /\ UNCHANGED opts
    BY <1>1, <1>5, <2>1 DEF Writes
  <2>3. x \notin made /\ x \in Failing /\ x \in Lenient(chosen) /\ MayDrop
    BY <2>1, <2>2, <1>1 DEF MayDrop, Dropping, chosen
  <2>4. faults = 0 /\ faults' = MaxFaults[opts]
    <3>1. MaxFaults[opts] <= 1
      BY <1>1, <2>3 DEF FailsOnce, chosen
    <3> QED
      BY <2>2, <3>1, FaultsCount DEF Fault
  <2>5. PICK i \in 1 .. Len(plan) : x = plan[i]
    BY <1>1, <2>1, ReadingType
  <2>6. x \in LenientThings /\ x \in Things(c) /\ x \notin Marks
    <3>1. x \in LenientThings /\ x \in Things(c)
      BY <1>1, <2>3, <2>5, LenientIs, PlanIsOf
    <3>2. LenientThings \intersect Marks = {}
      BY DEF LenientThings, KubeEnforcerThings, Marks
    <3> QED
      BY <3>1, <3>2
  <2>7. x \in ObjectsOf(c, chosen)
    BY <1>1, <2>5, <2>6, PlanObjects
  <2>8. Witnesses[c] \intersect made = {}
    BY <2>3, <2>4, <2>7 DEF CompletionInv, WitnessSound
  <2>9. PICK y \in Witnesses[c] : y # x
    <3>1. CASE c = "database"
      <4>1. LenientThings \intersect Things("database") = {}
        BY DEF LenientThings, KubeEnforcerThings, Things, DatabaseThings
      <4> QED
        BY <2>6, <3>1, <4>1
    <3>2. CASE c = "kubeEnforcer"
      BY <3>2, WitnessesAre
    <3>3. CASE c \notin {"database", "kubeEnforcer"}
      <4>1. Witnesses[c] # {} /\ Witnesses[c] \intersect LenientThings = {}
        BY <3>3, WitnessesAre DEF Witnesses, Parts
      <4> QED
        BY <2>6, <4>1
    <3> QED
      BY <3>1, <3>2, <3>3
  <2>10. y \in new
    <3>1. PICK j \in 1 .. Len(plan) : y = plan[j]
      <4>1. y \in Range(plan) /\ DOMAIN plan = 1 .. Len(plan)
        BY <1>1, WitnessesPlanned, PlanItems
      <4> QED
        BY <4>1 DEF Range
    <3>2. y \notin Marks /\ y \notin made
      BY <2>8, WitnessesAre
    <3> QED
      BY <1>2, <2>1, <2>9, <3>1, <3>2
  <2>11. CASE y \in Lagging
    <3>1. y \in made' \ shown'
      <4>1. shown \subseteq made
        BY DEF TypeOK
      <4> QED
        BY <1>3, <2>8, <2>10, <2>11, <4>1
    <3> QED
      BY <2>4, <3>1 DEF Coming
  <2>12. CASE y \notin Lagging
    <3>1. Watches(c, y)
      BY WitnessesAre
    <3>2. c \in Events(c, new)
      BY <2>10, <2>12, <3>1 DEF Events
    <3>3. Beyond(c) \in 1 .. Len(plan) + 1
      BY <1>1
    <3> QED
      BY <1>1, <2>2, <3>2, <3>3, PassGoesOn
  <2> QED
    BY <2>11, <2>12
<1> QED
  BY <1>3, <1>4, <1>5

\* A pass that something hidden ends, when nothing has failed: what it could leave out
\* before its witness is made.
LEMMA WitnessWritten ==
  ASSUME TypeOK, CompletionInv, NEW c \in Parts, Reading(c), Item(c) \notin Halts,
         NEW new, NEW end \in pos[c] .. Beyond(c),
         Writes(c, new, {}, end), end < Beyond(c), Witnesses[c] \intersect new # {}
  PROVE  Lenient(chosen) \intersect ObjectsOf(c, chosen) \subseteq made'
<1> DEFINE plan == Plan(c, chosen)
<1>1. /\ c \in Controllers /\ opts \in Names /\ Len(plan) \in Nat /\ Beyond(c) = Len(plan) + 1
      /\ pos[c] \in 1 .. Len(plan) /\ DOMAIN plan = 1 .. Len(plan)
  BY ReadingType, PartsControl, LastStretch, PlanItems
<1>2. end \in 1 .. Len(plan) /\ pos[c] <= end
  BY <1>1
<1>3. PICK y \in Witnesses[c] \intersect new : TRUE
  OBVIOUS
<1>4. PICK k \in pos[c] .. end - 1 : y = plan[k]
  BY <1>3 DEF Writes
<1>5. k \in 1 .. Len(plan) /\ k < end
  BY <1>1, <1>2, <1>4
<1>6. plan[end] \in made \ shown /\ plan[end] \notin Lenient(chosen)
  <2>1. plan[end] \in made \ shown /\ plan[end] \notin Dropping[opts] \ shown
    BY <1>1, <1>2 DEF Writes
  <2> QED
    BY <1>1, <2>1 DEF Dropping, chosen
<1>7. c # "database"
  BY <1>3, WitnessesAre
<1>8. c # "kubeEnforcer"
  <2> SUFFICES ASSUME c = "kubeEnforcer" PROVE FALSE
    OBVIOUS
  <2>1. plan[end] \in Things(c) /\ plan[end] \notin Marks
    <3>1. KubeEnforcerThings \intersect Marks = {} /\ Things("kubeEnforcer") = KubeEnforcerThings
      BY DEF KubeEnforcerThings, Marks, Things
    <3> QED
      BY <1>1, <1>2, <3>1, PlanIsOf
  <2>2. plan[end] = "keSa"
    BY <1>1, <1>2, <1>6, <2>1, PlanObjects, LenientIs
  <2>3. NoneAfter(plan, Witnesses[c], {"keSa"})
    BY WitnessesPlanned
  <2> QED
    BY <1>1, <1>2, <1>3, <1>4, <1>5, <2>2, <2>3 DEF NoneAfter
<1>9. NoneAfter(plan, Witnesses[c], Lenient(chosen))
  BY <1>7, <1>8, WitnessesLast
<1>10. ASSUME NEW z \in Lenient(chosen) \intersect ObjectsOf(c, chosen) PROVE z \in made'
  <2>1. PICK i \in 1 .. Len(plan) : z = plan[i]
    BY <1>1, PlanObjects
  <2>2. i <= k
    BY <1>1, <1>3, <1>4, <1>5, <1>9, <2>1 DEF NoneAfter
  <2>3. i \in 1 .. end - 1 /\ z \notin Marks
    BY <1>1, <1>2, <1>5, <2>1, <2>2, PlanObjects
  <2>4. plan[i] \in made \union new
    BY <2>1, <2>3, WriteMakes
  <2> QED
    BY <2>1, <2>4 DEF Writes, Store
<1> QED
  BY <1>10

LEMMA WriteRest ==
  ASSUME TypeOK, TypeOK', CompletionInv, FailsOnce, NEW d \in Controllers, Write(d)
  PROVE  CompletionInv'
<1>1. Reading(d) /\ Item(d) \notin Halts
  BY DEF Write
<1>2. PICK new \in SUBSET (Objects[opts] \ {"sa"}) : \E failed \in SUBSET Failing :
        \E end \in pos[d] .. Beyond(d) : Writes(d, new, failed, end)
  BY WriteItems
<1>3. PICK failed \in SUBSET Failing, end \in pos[d] .. Beyond(d) : Writes(d, new, failed, end)
  BY <1>2
<1>4. /\ opts \in Names /\ UNCHANGED opts /\ made' = made \union new
      /\ \A c \in Controllers \ {d} : pos'[c] = pos[c]
      /\ queued \union Events(d, new) \subseteq queued'
      /\ \A x \in new : x \in Things(d) /\ x \notin made \ shown
  BY <1>1, <1>3, WritesPass
<1>5. /\ shown' = shown \union (new \ Lagging) /\ (UNCHANGED faults \/ Fault)
      /\ failed = {} => UNCHANGED faults
      /\ failed # {} => Fault
  BY <1>3 DEF Writes, Store
<1>6. ASSUME NEW c \in Parts \ {d} PROVE (PassedMade(c) /\ RestSound(c) /\ WitnessSound(c))'
  <2>1. c \in Controllers
    BY PartsControl
  <2>2. Witnesses[c] \intersect new = {}
    <3>1. Witnesses[c] \intersect Things(d) = {}
      BY <1>6, WitnessesAre
    <3> QED
      BY <1>4, <3>1
  <2>3. c \in new => c \in queued'
    BY <1>4 DEF Events
  <2>4. Coming(c) => Coming(c)'
    BY <1>4, <1>5, <2>2 DEF Coming
  <2> QED
    BY <1>4, <1>5, <2>1, <2>2, <2>3, <2>4, RestKept
<1>7. ASSUME d \in Parts PROVE (PassedMade(d) /\ RestSound(d) /\ WitnessSound(d))'
  <2>1. /\ Beyond(d) = Len(Plan(d, chosen)) + 1 /\ Len(Plan(d, chosen)) \in Nat
        /\ Beyond(d) \in 1 .. Len(Plan(d, chosen)) + 1
    BY <1>1, <1>7, LastStretch, ReadingType
  <2>2. \/ end = Beyond(d) /\ GoOnFrom(d, Beyond(d), inst[d], Events(d, new))
        \/ end < Beyond(d) /\ Finish(d, Retry(d) \union Events(d, new))
    BY <1>3 DEF Writes
  <2>3. pos'[d] = 0
    <3>1. CASE GoOnFrom(d, Beyond(d), inst[d], Events(d, new))
      BY <1>4, <2>1, <3>1, PassGoesOn
    <3>2. CASE Finish(d, Retry(d) \union Events(d, new))
      BY <3>2, PassEnds
    <3> QED
      BY <2>2, <3>1, <3>2
  <2>4. PassedMade(d)'
    BY <2>3 DEF PassedMade
  <2>5. chosen' = chosen
    BY <1>4 DEF chosen
  <2>6. CASE end = Beyond(d)
    <3>1. /\ failed = {} => ObjectsOf(d, chosen) \subseteq made'
          /\ failed # {} => d \in queued' \/ (faults' = MaxFaults[opts] /\ Coming(d)')
      BY <1>1, <1>3, <1>7, <2>6, PassCompletes
    <3>2. RestSound(d)'
      BY <1>4, <2>5, <3>1 DEF RestSound
    <3>3. failed # {} => faults' # 0
      BY <1>5, FaultsCount DEF Fault
    <3>4. WitnessSound(d)'
      BY <2>5, <3>1, <3>3 DEF WitnessSound
    <3> QED
      BY <2>4, <3>2, <3>4
  <2>7. CASE end < Beyond(d) /\ Finish(d, Retry(d) \union Events(d, new))
    <3>1. d \in queued'
      BY <2>7, PassEnds DEF Retry
    <3>2. RestSound(d)'
      BY <3>1 DEF RestSound
    <3>3. failed # {} => faults' # 0
      BY <1>5, FaultsCount DEF Fault
    <3>4. ASSUME failed # {} PROVE WitnessSound(d)'
      BY <3>3, <3>4 DEF WitnessSound
    <3>5. ASSUME failed = {}, Witnesses[d] \intersect new # {} PROVE WitnessSound(d)'
      <4>1. Lenient(chosen) \intersect ObjectsOf(d, chosen) \subseteq made'
        BY <1>1, <1>3, <1>7, <2>7, <3>5, WitnessWritten
      <4> QED
        BY <2>5, <4>1 DEF WitnessSound
    <3>6. ASSUME failed = {}, Witnesses[d] \intersect new = {} PROVE WitnessSound(d)'
      <4>1. WitnessSound(d) /\ opts' = opts /\ faults' = faults /\ made' = made \union new
        BY <1>4, <1>5, <1>7, <3>6 DEF CompletionInv
      <4> QED
        BY <2>5, <3>6, <4>1 DEF WitnessSound, MayDrop
    <3>7. WitnessSound(d)'
      BY <3>4, <3>5, <3>6
    <3> QED
      BY <2>4, <3>2, <3>7
  <2> QED
    BY <2>2, <2>6, <2>7
<1> QED
  BY <1>6, <1>7 DEF CompletionInv
\* What is neither a pass of a controller nor a restart.
LEMMA EnvironmentRest ==
  ASSUME TypeOK, TypeOK', CompletionInv, Gate \/ Deliver \/ StartPods \/ AddScanner
  PROVE  CompletionInv'
<1>1. opts \in Names /\ shown \subseteq made /\ DOMAIN pos = Controllers
  BY DEF TypeOK
<1> SUFFICES ASSUME NEW c \in Parts PROVE (PassedMade(c) /\ RestSound(c) /\ WitnessSound(c))'
  BY DEF CompletionInv
<1>2. c \in Controllers /\ c # "csp" /\ "csp" \in Controllers
  BY PartsControl DEF Parts
<1>3. CASE Gate
  <2>1. UNCHANGED <<opts, made, shown, faults>>
    BY <1>3 DEF Gate, apiVars
  <2>2. GoOnFrom("csp", pos["csp"] + 1, inst["csp"], {}) \/ Finish("csp", {"csp"})
    BY <1>3 DEF Gate
  <2>3. pos["csp"] + 1 \in 1 .. Len(Plan("csp", chosen)) + 1
    <3>1. pos["csp"] \in 1 .. Len(Plan("csp", chosen)) /\ Len(Plan("csp", chosen)) \in Nat
      BY <1>2, <1>3, ReadingType DEF Gate
    <3> QED
      BY <3>1
  <2>4. pos'[c] = pos[c] /\ queued \subseteq queued'
    <3>1. CASE GoOnFrom("csp", pos["csp"] + 1, inst["csp"], {})
      BY <1>2, <2>1, <2>3, <3>1, PassGoesOn
    <3>2. CASE Finish("csp", {"csp"})
      BY <1>2, <3>2, PassEnds
    <3> QED
      BY <2>2, <3>1, <3>2
  <2>5. Coming(c) => Coming(c)'
    BY <2>1 DEF Coming
  <2> QED
    BY <2>1, <2>4, <2>5, RestKept
<1>4. CASE Deliver
  <2>1. PICK object \in made \ shown :
          /\ shown' = shown \union {object}
          /\ queued' = queued \union
               (IF object \in Users /\ ~chosen.registry THEN {}
                ELSE {e \in OwnerOf(object) : Watches(e, object)})
          /\ UNCHANGED <<opts, made, pos, faults>>
    BY <1>4 DEF Deliver
  <2>2. ASSUME object \in Witnesses[c] PROVE c \in queued'
    <3>1. object \notin Users \union {"sa"} \union Marks /\ Watches(c, object)
      BY <2>2, WitnessesAre
    <3>2. object \in ObjectsOf(c, chosen)
      <4>1. object \in Range(Plan(c, chosen)) /\ DOMAIN Plan(c, chosen) = 1 .. Len(Plan(c, chosen))
        BY <1>2, <2>2, WitnessesPlanned, PlanItems
      <4>2. PICK i \in 1 .. Len(Plan(c, chosen)) : object = Plan(c, chosen)[i]
        BY <4>1 DEF Range
      <4> QED
        BY <1>2, <3>1, <4>2, PlanObjects
    <3>3. c \in OwnerOf(object)
      BY <1>2, <3>1, <3>2 DEF OwnerOf
    <3> QED
      BY <2>1, <3>1, <3>3
  <2>3. Coming(c) => Coming(c)' \/ c \in queued'
    BY <2>1, <2>2 DEF Coming
  <2>4. queued \subseteq queued'
    BY <2>1
  <2> QED
    BY <2>1, <2>3, <2>4, RestKept
<1>5. CASE StartPods
  <2>1. UNCHANGED <<opts, made, shown, pos, faults>> /\ queued \subseteq queued'
    BY <1>5 DEF StartPods, apiVars
  <2>2. Coming(c) => Coming(c)'
    BY <2>1 DEF Coming
  <2> QED
    BY <2>1, <2>2, RestKept
<1>6. CASE AddScanner
  <2>1. /\ made' = made \union {"scanner"} /\ shown' = shown \union {"scanner"}
        /\ queued' = queued \union {"scanner"} /\ UNCHANGED <<opts, pos, faults>>
    BY <1>6 DEF AddScanner
  <2>2. "scanner" \notin Witnesses[c]
    BY WitnessesAre DEF Parts
  <2>3. Coming(c) => Coming(c)'
    BY <2>1, <2>2 DEF Coming
  <2> QED
    BY <2>1, <2>2, <2>3, RestKept
<1> QED
  BY <1>3, <1>4, <1>5, <1>6

\* After a restart every part there is is in the queue.
LEMMA RestartRest ==
  ASSUME TypeOK, Restart
  PROVE  CompletionInv'
<1> SUFFICES ASSUME NEW c \in Parts PROVE (PassedMade(c) /\ RestSound(c) /\ WitnessSound(c))'
  BY DEF CompletionInv
<1>1. /\ pos'[c] = 0 /\ UNCHANGED made /\ Fault /\ (c \in made => c \in queued')
  BY PartsControl DEF Restart
<1>2. PassedMade(c)'
  BY <1>1 DEF PassedMade
<1>3. RestSound(c)'
  BY <1>1 DEF RestSound
<1>4. faults' # 0
  BY <1>1, FaultsCount DEF Fault
<1>5. WitnessSound(c)'
  BY <1>4 DEF WitnessSound
<1> QED
  BY <1>2, <1>3, <1>5

LEMMA InitRest == Init => CompletionInv
<1> SUFFICES ASSUME Init, NEW c \in Parts PROVE PassedMade(c) /\ RestSound(c) /\ WitnessSound(c)
  BY DEF CompletionInv
<1>1. pos[c] = 0
  BY PartsControl DEF Init
<1>2. made \subseteq Users
  <2>1. "ownSecret" \in Users
    BY DEF Users
  <2> QED
    BY <2>1 DEF Init
<1>3. Users \intersect Parts = {}
  <2>1. DOMAIN MtlsSecret = {"server", "gateway", "enforcer", "kubeEnforcer"}
    BY DEF MtlsSecret
  <2>2. {MtlsSecret[d] : d \in {"server", "gateway", "enforcer", "kubeEnforcer"}}
          = {"grpcWeb", "grpcGateway", "grpcEnforcer", "grpcKubeEnforcer"}
    BY DEF MtlsSecret
  <2>3. Users = {"ownSecret", "grpcWeb", "grpcGateway", "grpcEnforcer", "grpcKubeEnforcer"}
    BY <2>1, <2>2, Zenon DEF Users
  <2> QED
    BY <2>3 DEF Parts
<1>4. Witnesses[c] \intersect made = {}
  BY <1>2, WitnessesAre
<1>5. PassedMade(c)
  BY <1>1 DEF PassedMade
<1>6. RestSound(c)
  BY <1>2, <1>3 DEF RestSound
<1>7. WitnessSound(c)
  BY <1>4 DEF WitnessSound
<1> QED
  BY <1>5, <1>6, <1>7

\* As long as what may fail without ending a pass fails but once, what a pass has left out
\* is made good: every part that lacks an object has a request in its queue, or an event
\* under way that makes one, through any interleaving of the controllers.
THEOREM LeftOutIsMadeGood ==
  ASSUME FailsOnce
  PROVE  Spec => []CompletionInv
<1>1. TypeOK /\ TypeOK' /\ CompletionInv /\ [Next]_vars => CompletionInv'
  <2> SUFFICES ASSUME TypeOK, TypeOK', CompletionInv, [Next]_vars PROVE CompletionInv'
    OBVIOUS
  <2>1. ASSUME NEW c \in Controllers, Reconcile(c) PROVE CompletionInv'
    BY <2>1, BeginRest, AccountRest, WriteRest, EnvironmentRest DEF Reconcile
  <2>2. CASE UNCHANGED vars
    <3>1. UNCHANGED <<opts, made, shown, queued, pos, faults>>
      BY <2>2 DEF vars, apiVars, passVars
    <3>2. ASSUME NEW c \in Parts PROVE (PassedMade(c) /\ RestSound(c) /\ WitnessSound(c))'
      <4>1. Coming(c) => Coming(c)'
        BY <3>1 DEF Coming
      <4> QED
        BY <3>1, <4>1, RestKept
    <3> QED
      BY <3>2 DEF CompletionInv
  <2> QED
    BY <2>1, <2>2, EnvironmentRest, RestartRest DEF Next
<1> QED
  BY <1>1, InitRest, TypeCorrect, PTL DEF Spec

\* Then a part whose controller has nothing left to do, when no event is under way, has
\* all of its objects.
THEOREM RestIsComplete ==
  ASSUME FailsOnce
  PROVE  Spec => []RestMeansComplete
<1>1. CompletionInv => RestMeansComplete
  BY DEF CompletionInv, RestMeansComplete, RestSound, Coming
<1> QED
  BY <1>1, LeftOutIsMadeGood, PTL
=============================================================================
