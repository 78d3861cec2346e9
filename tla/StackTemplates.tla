--------------------------- MODULE StackTemplates ---------------------------
(***************************************************************************)
(* NoTemplateReturns of Stack, for every installation: whose objects the     *)
(* plans name and in what order, what a step of a pass writes, and why the   *)
(* templates of a workload can only climb.                                   *)
(***************************************************************************)
EXTENDS StackInv, StackProofs

-----------------------------------------------------------------------------
(* Whose object is what. *)

\* What the plan of a controller is a list of.
Things(c) ==
  CASE c = "csp"          -> CspThings
    [] c = "database"     -> DatabaseThings
    [] c = "server"       -> ServerThings
    [] c = "gateway"      -> GatewayThings
    [] c = "enforcer"     -> EnforcerThings
    [] c = "kubeEnforcer" -> KubeEnforcerThings
    [] c = "scanner"      -> ScannerThings

LEMMA PlanIsOf ==
  ASSUME NEW c \in Controllers, NEW o
  PROVE  /\ Plan(c, o) \in Seq(Things(c))
         /\ \A i \in 1 .. Len(Plan(c, o)) : Plan(c, o)[i] \in Things(c)
<1>1. Plan(c, o) \in Seq(Things(c))
  <2>1. CASE c = "csp"
    BY <2>1, CspPlanSeq DEF Plan, Things
  <2>2. CASE c = "database"
    BY <2>2, DatabasePlanSeq DEF Plan, Things
  <2>3. CASE c = "server"
    BY <2>3, ServerPlanSeq DEF Plan, Things
  <2>4. CASE c = "gateway"
    BY <2>4, GatewayPlanSeq DEF Plan, Things
  <2>5. CASE c = "enforcer"
    BY <2>5, EnforcerPlanSeq DEF Plan, Things
  <2>6. CASE c = "kubeEnforcer"
    BY <2>6, KubeEnforcerPlanSeq DEF Plan, Things
  <2>7. CASE c = "scanner"
    BY <2>7, ScannerPlanSeq DEF Plan, Things
  <2> QED
    BY <2>1, <2>2, <2>3, <2>4, <2>5, <2>6, <2>7 DEF Controllers, Parts
<1> QED
  BY <1>1, ElementOfSeq

\* A workload is written by the controller of its part, a part's resource by the CSP's.
LEMMA Ownership ==
  ASSUME NEW c \in Controllers
  PROVE  /\ \A w \in Workloads \intersect Things(c) :
              \/ c \in DOMAIN Deployment /\ w = Deployment[c]
              \/ c = "database" /\ w \in {"dbDeployment", "auditDbDeployment"}
         /\ c # "csp" => Parts \intersect Things(c) = {}
         /\ "scanner" \notin Things("csp")
<1>1. DOMAIN Deployment = {"server", "gateway", "enforcer", "kubeEnforcer", "scanner"}
  BY DEF Deployment
<1>2. /\ Things("csp") = CspThings /\ Things("database") = DatabaseThings
      /\ Things("server") = ServerThings /\ Things("gateway") = GatewayThings
      /\ Things("enforcer") = EnforcerThings /\ Things("kubeEnforcer") = KubeEnforcerThings
      /\ Things("scanner") = ScannerThings
  BY DEF Things
<1>3. /\ CspThings \intersect Workloads = {} /\ "scanner" \notin CspThings
      /\ DatabaseThings \intersect Workloads \subseteq {"dbDeployment", "auditDbDeployment"}
      /\ ServerThings \intersect Workloads \subseteq {"serverDeployment"}
      /\ GatewayThings \intersect Workloads \subseteq {"gatewayDeployment"}
      /\ EnforcerThings \intersect Workloads \subseteq {"enforcerDaemonSet"}
      /\ KubeEnforcerThings \intersect Workloads \subseteq {"keDeployment"}
      /\ ScannerThings \intersect Workloads \subseteq {"scannerDeployment"}
  BY WorkloadNames DEF CspThings, DatabaseThings, ServerThings, GatewayThings, EnforcerThings,
                       KubeEnforcerThings, ScannerThings
<1>4. \A w \in Workloads \intersect Things(c) :
              \/ c \in DOMAIN Deployment /\ w = Deployment[c]
              \/ c = "database" /\ w \in {"dbDeployment", "auditDbDeployment"}
  BY <1>1, <1>2, <1>3 DEF Controllers, Parts, Deployment
<1>5. c # "csp" => Parts \intersect Things(c) = {}
  BY <1>2 DEF Controllers, Parts, DatabaseThings, ServerThings, GatewayThings, EnforcerThings,
              KubeEnforcerThings, ScannerThings
<1> QED
  BY <1>2, <1>3, <1>4, <1>5

-----------------------------------------------------------------------------
(* What comes before what. *)

\* Behind an item of X in the list s comes none of F.
NoneAfter(s, X, F) ==
  \A i, j \in DOMAIN s : s[i] \in X /\ i < j => s[j] \notin F

LEMMA ConcatOrder ==
  ASSUME NEW S, NEW s \in Seq(S), NEW t \in Seq(S), NEW X, NEW F,
         NoneAfter(s, X, F), NoneAfter(t, X, F),
         Range(s) \intersect X = {} \/ Range(t) \intersect F = {}
  PROVE  NoneAfter(s \o t, X, F)
<1>1. /\ DOMAIN (s \o t) = 1 .. Len(s) + Len(t)
      /\ \A i \in 1 .. Len(s) + Len(t) : (s \o t)[i] = IF i <= Len(s) THEN s[i] ELSE t[i - Len(s)]
      /\ Len(s) \in Nat /\ DOMAIN s = 1 .. Len(s) /\ Len(t) \in Nat /\ DOMAIN t = 1 .. Len(t)
  BY ConcatProperties, LenProperties
<1> SUFFICES ASSUME NEW i \in 1 .. Len(s) + Len(t), NEW j \in 1 .. Len(s) + Len(t),
                    (s \o t)[i] \in X, i < j, (s \o t)[j] \in F
             PROVE  FALSE
  BY <1>1 DEF NoneAfter
<1>2. CASE j <= Len(s)
  BY <1>1, <1>2 DEF NoneAfter
<1>3. CASE i > Len(s)
  <2>1. i - Len(s) \in 1 .. Len(t) /\ j - Len(s) \in 1 .. Len(t) /\ i - Len(s) < j - Len(s)
    BY <1>1, <1>3
  <2>2. t[i - Len(s)] \in X /\ t[j - Len(s)] \in F
    BY <1>1, <1>3
  <2> QED
    BY <1>1, <2>1, <2>2 DEF NoneAfter
<1>4. CASE i <= Len(s) /\ j > Len(s)
  <2>1. i \in 1 .. Len(s) /\ j - Len(s) \in 1 .. Len(t)
    BY <1>1, <1>4
  <2>2. s[i] \in X /\ t[j - Len(s)] \in F
    BY <1>1, <1>4
  <2> QED
    BY <1>1, <2>1, <2>2 DEF Range
<1> QED
  BY <1>1, <1>2, <1>3, <1>4

\* A list in which nothing is to come behind, or nothing is that nothing may follow.
LEMMA NothingBehind ==
  ASSUME NEW s, NEW X, NEW F, Range(s) \intersect X = {} \/ Range(s) \intersect F = {}
  PROVE  NoneAfter(s, X, F)
BY DEF NoneAfter, Range

LEMMA SeqRange ==
  ASSUME NEW S, NEW s \in Seq(S)
  PROVE  Range(s) \subseteq S
BY ElementOfSeq, LenProperties DEF Range

LEMMA WiderSeq ==
  ASSUME NEW S, NEW T \in SUBSET S, NEW s \in Seq(T)
  PROVE  s \in Seq(S)
<1>1. Len(s) \in Nat /\ s \in [1 .. Len(s) -> T]
  BY SeqDef, LenProperties, ElementOfSeq
<1> QED
  BY <1>1

\* A list goes on with what is not to be ruled out, or begins with what rules out nothing.
LEMMA GoesOn ==
  ASSUME NEW S, NEW s \in Seq(S), NEW T \in SUBSET S, NEW t \in Seq(T), NEW X, NEW F,
         T \intersect F = {}, NoneAfter(s, X, F)
  PROVE  NoneAfter(s \o t, X, F) /\ s \o t \in Seq(S)
<1>1. t \in Seq(S) /\ Range(t) \intersect F = {}
  BY SeqRange
<1>2. NoneAfter(t, X, F)
  BY <1>1, NothingBehind
<1> QED
  BY <1>1, <1>2, ConcatOrder, ConcatSeq

LEMMA BeginsWith ==
  ASSUME NEW S, NEW T \in SUBSET S, NEW s \in Seq(T), NEW t \in Seq(S), NEW X, NEW F,
         T \intersect X = {}, NoneAfter(t, X, F)
  PROVE  NoneAfter(s \o t, X, F) /\ s \o t \in Seq(S)
<1>1. s \in Seq(S) /\ Range(s) \intersect X = {}
  BY SeqRange
<1>2. NoneAfter(s, X, F)
  BY <1>1, NothingBehind
<1> QED
  BY <1>1, <1>2, ConcatOrder, ConcatSeq

\* The account comes first in the passes that make it.
LEMMA RbacOrder ==
  ASSUME NEW o, NEW X, "sa" \notin X
  PROVE  NoneAfter(Rbac(o), X, {"sa"}) /\ "sa" \in Range(Rbac(o))
<1> DEFINE S == {"sa", "readerBinding", "discoveryRole", "discoveryBinding"}
           T == {"readerBinding", "discoveryRole", "discoveryBinding"}
           s2 == When(o.openshift, <<"readerBinding">>)
           s3 == <<"discoveryRole", "discoveryBinding">>
<1>1. <<"sa">> \in Seq({"sa"}) /\ <<"sa">> \in Seq(S)
  OBVIOUS
<1>2. <<"readerBinding">> \in Seq(T) /\ s3 \in Seq(T)
  OBVIOUS
<1>3. s2 \in Seq(T)
  BY <1>2, WhenSeq
<1>4. Range(<<"sa">>) \intersect X = {}
  BY <1>1, SeqRange
<1>5. "sa" \in Range(<<"sa">>)
  BY DEF Range
<1>6. NoneAfter(<<"sa">>, X, {"sa"})
  BY <1>4, NothingBehind
<1>7. s2 \in Seq(S) /\ s3 \in Seq(S)
  BY <1>2, <1>3
<1>0. T \in SUBSET S /\ T \intersect {"sa"} = {}
  OBVIOUS
<1> HIDE DEF S, T, s2, s3
<1>8. NoneAfter(<<"sa">> \o s2, X, {"sa"}) /\ <<"sa">> \o s2 \in Seq(S)
  BY <1>0, <1>1, <1>3, <1>6, GoesOn
<1>9. NoneAfter(<<"sa">> \o s2 \o s3, X, {"sa"})
  BY <1>0, <1>2, <1>8, GoesOn
<1>10. "sa" \in Range(<<"sa">> \o s2 \o s3)
  BY <1>1, <1>5, <1>7, <1>8, ConcatSeq
<1> QED
  BY <1>9, <1>10 DEF Rbac, s2, s3

\* The KhulnasoftCsp's pass makes the account, and no part before.
LEMMA CspOrder ==
  ASSUME NEW o
  PROVE  NoneAfter(CspPlan(o), Parts, {"sa"}) /\ "sa" \in Range(CspPlan(o))
<1> DEFINE T  == CspThings \ {"sa"}
           s1 == When(o.registry, <<IF o.named THEN "ownSecret" ELSE "registrySecret">>)
           s3 == <<"dbSecret">>
           s4 == IF o.external THEN When(o.split, <<"auditSecret">>) ELSE <<"database", "waitDb">>
           s5 == <<"server", "gateway", "gate">>
           s6 == When("enforcer" \in o.kids, <<"enforcer">>)
           s7 == When("kubeEnforcer" \in o.kids, <<"kubeEnforcer">>)
<1>1. /\ <<IF o.named THEN "ownSecret" ELSE "registrySecret">> \in Seq({"ownSecret", "registrySecret"})
      /\ <<"dbSecret">> \in Seq(T)
      /\ <<"auditSecret">> \in Seq(T)
      /\ <<"database", "waitDb">> \in Seq(T)
      /\ <<"server", "gateway", "gate">> \in Seq(T)
      /\ <<"enforcer">> \in Seq(T)
      /\ <<"kubeEnforcer">> \in Seq(T)
  BY DEF CspThings
<1>2. /\ s1 \in Seq({"ownSecret", "registrySecret"}) /\ s3 \in Seq(T) /\ s4 \in Seq(T)
      /\ s5 \in Seq(T) /\ s6 \in Seq(T) /\ s7 \in Seq(T)
  BY <1>1, WhenSeq
<1>3. Rbac(o) \in Seq(CspThings)
  BY RbacSeq DEF CspThings
<1>4. /\ T \in SUBSET CspThings /\ T \intersect {"sa"} = {}
      /\ {"ownSecret", "registrySecret"} \in SUBSET CspThings
      /\ {"ownSecret", "registrySecret"} \intersect Parts = {} /\ "sa" \notin Parts
  BY DEF CspThings, Parts
<1>5. /\ s3 \in Seq(CspThings) /\ s4 \in Seq(CspThings) /\ s5 \in Seq(CspThings)
      /\ s6 \in Seq(CspThings) /\ s7 \in Seq(CspThings) /\ s1 \in Seq(CspThings)
  <2> HIDE DEF T, s1, s3, s4, s5, s6, s7
  <2> QED
    BY <1>2, <1>4, WiderSeq
<1> HIDE DEF T, s1, s3, s4, s5, s6, s7
<1>6. /\ NoneAfter(s1 \o Rbac(o), Parts, {"sa"}) /\ s1 \o Rbac(o) \in Seq(CspThings)
      /\ "sa" \in Range(s1 \o Rbac(o))
  <2>1. NoneAfter(Rbac(o), Parts, {"sa"}) /\ "sa" \in Range(Rbac(o))
    BY <1>4, RbacOrder
  <2>2. NoneAfter(s1 \o Rbac(o), Parts, {"sa"}) /\ s1 \o Rbac(o) \in Seq(CspThings)
    BY <1>2, <1>3, <1>4, <2>1, BeginsWith
  <2>3. "sa" \in Range(s1 \o Rbac(o))
    BY <1>3, <1>5, <2>1, ConcatSeq
  <2> QED
    BY <2>2, <2>3
<1>7. ASSUME NEW s \in Seq(CspThings), NoneAfter(s, Parts, {"sa"}), "sa" \in Range(s),
             NEW t \in Seq(T)
      PROVE  /\ s \o t \in Seq(CspThings) /\ NoneAfter(s \o t, Parts, {"sa"})
             /\ "sa" \in Range(s \o t)
  <2>1. t \in Seq(CspThings)
    BY <1>4, WiderSeq
  <2> QED
    BY <1>4, <1>7, <2>1, GoesOn, ConcatSeq
<1> DEFINE Good(s) == s \in Seq(CspThings) /\ NoneAfter(s, Parts, {"sa"}) /\ "sa" \in Range(s)
<1>8. Good(s1 \o Rbac(o) \o s3)
  BY <1>2, <1>6, <1>7
<1>9. Good(s1 \o Rbac(o) \o s3 \o s4)
  BY <1>2, <1>8, <1>7
<1>10. Good(s1 \o Rbac(o) \o s3 \o s4 \o s5)
  BY <1>2, <1>9, <1>7
<1>11. Good(s1 \o Rbac(o) \o s3 \o s4 \o s5 \o s6)
  BY <1>2, <1>10, <1>7
<1>12. Good(s1 \o Rbac(o) \o s3 \o s4 \o s5 \o s6 \o s7)
  BY <1>2, <1>11, <1>7
<1> QED
  BY <1>12 DEF CspPlan, s1, s3, s4, s5, s6, s7

\* In the passes of the parts the account is the first thing, if it is one at all.
LEMMA AccountOrder ==
  ASSUME NEW c \in Parts, NEW o
  PROVE  NoneAfter(Plan(c, o), Things(c) \ {"sa"}, {"sa"})
<1>1. ASSUME NEW S, {"sa", "readerBinding", "discoveryRole", "discoveryBinding"} \subseteq S
      PROVE  Rbac(o) \in Seq(S) /\ NoneAfter(Rbac(o), S \ {"sa"}, {"sa"})
  BY <1>1, RbacSeq, RbacOrder
<1>2. ASSUME NEW S, NEW s \in Seq(S), NEW t \in Seq(S \ {"sa"}), NoneAfter(s, S \ {"sa"}, {"sa"})
      PROVE  s \o t \in Seq(S) /\ NoneAfter(s \o t, S \ {"sa"}, {"sa"})
  <2>1. S \ {"sa"} \in SUBSET S /\ (S \ {"sa"}) \intersect {"sa"} = {}
    OBVIOUS
  <2> QED
    BY <1>2, <2>1, GoesOn
<1>3. CASE c = "database"
  <2> DEFINE S  == DatabaseThings
             s1 == <<"sa", "dbPvc", "dbDeployment", "dbService">>
             s2 == When(o.split, <<"auditSecret", "auditPvc", "auditDbService", "auditDbDeployment">>)
  <2>1. s1 \in Seq(S) /\ <<"auditSecret", "auditPvc", "auditDbService", "auditDbDeployment">>
                            \in Seq(S \ {"sa"})
    BY DEF DatabaseThings
  <2>2. NoneAfter(s1, S \ {"sa"}, {"sa"})
    BY DEF NoneAfter
  <2>3. s2 \in Seq(S \ {"sa"})
    BY <2>1, WhenSeq
  <2>4. Plan(c, o) = s1 \o s2 /\ Things(c) = S
    BY <1>3 DEF Plan, DatabasePlan, Things
  <2> HIDE DEF S, s1, s2
  <2> QED
    BY <1>2, <2>1, <2>2, <2>3, <2>4
<1>4. CASE c = "server"
  <2> DEFINE S  == ServerThings
             s2 == <<"pending", "serverService">>
             s3 == When(o.logins, <<"adminSecret", "licenseSecret">>)
             s4 == When("enforcer" \in o.kids, <<"enforcerToken">>)
             s5 == <<"serverConfig", "serverDeployment">>
             s6 == When(o.openshift, <<"serverRoute">>)
  <2>1. /\ s2 \in Seq(S \ {"sa"}) /\ s5 \in Seq(S \ {"sa"})
        /\ <<"adminSecret", "licenseSecret">> \in Seq(S \ {"sa"})
        /\ <<"enforcerToken">> \in Seq(S \ {"sa"}) /\ <<"serverRoute">> \in Seq(S \ {"sa"})
    BY DEF ServerThings
  <2>2. s3 \in Seq(S \ {"sa"}) /\ s4 \in Seq(S \ {"sa"}) /\ s6 \in Seq(S \ {"sa"})
    BY <2>1, WhenSeq
  <2>3. Rbac(o) \in Seq(S) /\ NoneAfter(Rbac(o), S \ {"sa"}, {"sa"})
    BY <1>1 DEF ServerThings
  <2>4. Plan(c, o) = Rbac(o) \o s2 \o s3 \o s4 \o s5 \o s6 /\ Things(c) = S
    BY <1>4 DEF Plan, ServerPlan, Things
  <2> DEFINE Good(s) == s \in Seq(S) /\ NoneAfter(s, S \ {"sa"}, {"sa"})
  <2> HIDE DEF S, s2, s3, s4, s5, s6
  <2>5. ASSUME NEW s, Good(s), NEW t \in Seq(S \ {"sa"}) PROVE Good(s \o t)
    BY <1>2, <2>5
  <2> HIDE DEF Good
  <2>6. Good(Rbac(o) \o s2 \o s3)
    BY <2>1, <2>2, <2>3, <2>5 DEF Good
  <2>7. Good(Rbac(o) \o s2 \o s3 \o s4 \o s5 \o s6)
    BY <2>1, <2>2, <2>5, <2>6
  <2> QED
    BY <2>4, <2>7 DEF Good
<1>5. CASE c = "gateway"
  <2> DEFINE S  == GatewayThings
             s2 == <<"pending", "gatewayService", "gatewayDeployment">>
             s3 == When(o.openshift, <<"gatewayRoute">>)
  <2>1. s2 \in Seq(S \ {"sa"}) /\ <<"gatewayRoute">> \in Seq(S \ {"sa"})
    BY DEF GatewayThings
  <2>2. s3 \in Seq(S \ {"sa"})
    BY <2>1, WhenSeq
  <2>3. Rbac(o) \in Seq(S) /\ NoneAfter(Rbac(o), S \ {"sa"}, {"sa"})
    BY <1>1 DEF GatewayThings
  <2>4. Plan(c, o) = Rbac(o) \o s2 \o s3 /\ Things(c) = S
    BY <1>5 DEF Plan, GatewayPlan, Things
  <2> HIDE DEF S, s2, s3
  <2>5. Rbac(o) \o s2 \in Seq(S) /\ NoneAfter(Rbac(o) \o s2, S \ {"sa"}, {"sa"})
    BY <1>2, <2>1, <2>3
  <2> QED
    BY <1>2, <2>2, <2>4, <2>5
<1>6. CASE c = "enforcer"
  <2>1. <<"enforcerConfig", "enforcerDaemonSet">> \in Seq(EnforcerThings \ {"sa"})
    BY DEF EnforcerThings
  <2>2. Rbac(o) \in Seq(EnforcerThings) /\ NoneAfter(Rbac(o), EnforcerThings \ {"sa"}, {"sa"})
    BY <1>1 DEF EnforcerThings
  <2>3. Plan(c, o) = Rbac(o) \o <<"enforcerConfig", "enforcerDaemonSet">>
        /\ Things(c) = EnforcerThings
    BY <1>6 DEF Plan, EnforcerPlan, Things
  <2> QED
    BY <1>2, <2>1, <2>2, <2>3
<1>7. CASE c = "scanner"
  <2>1. <<"scannerSecret", "scannerConfig", "scannerDeployment">> \in Seq(ScannerThings \ {"sa"})
    BY DEF ScannerThings
  <2>2. Rbac(o) \in Seq(ScannerThings) /\ NoneAfter(Rbac(o), ScannerThings \ {"sa"}, {"sa"})
    BY <1>1 DEF ScannerThings
  <2>3. Plan(c, o) = Rbac(o) \o <<"scannerSecret", "scannerConfig", "scannerDeployment">>
        /\ Things(c) = ScannerThings
    BY <1>7 DEF Plan, ScannerPlan, Things
  <2> QED
    BY <1>2, <2>1, <2>2, <2>3
<1>8. CASE c = "kubeEnforcer"
  <2>1. "sa" \notin KubeEnforcerThings /\ Things(c) = KubeEnforcerThings
    BY <1>8 DEF KubeEnforcerThings, Things
  <2>2. Plan(c, o) \in Seq(KubeEnforcerThings)
    BY <1>8, KubeEnforcerPlanSeq DEF Plan
  <2>3. Range(Plan(c, o)) \intersect {"sa"} = {}
    BY <2>1, <2>2, SeqRange
  <2> QED
    BY <2>3, NothingBehind
<1> QED
  BY <1>3, <1>4, <1>5, <1>6, <1>7, <1>8 DEF Parts

-----------------------------------------------------------------------------
(* The steps of a pass. *)

\* What a pass does not look at is shown.
LEMMA PassedOver ==
  ASSUME opts \in Names, NEW c \in Controllers,
         NEW from \in 1 .. Len(Plan(c, chosen)) + 1, NEW there
  PROVE  \A i \in from .. NextStop(c, from, there) - 1 :
           i \in 1 .. Len(Plan(c, chosen)) /\ Plan(c, chosen)[i] \in there
<1> DEFINE L == Len(Plan(c, chosen))
           Stops == {i \in from .. L : ~(/\ Plan(c, chosen)[i] \in there
                                          /\ Plan(c, chosen)[i] \in Plain)}
                    \union {L + 1}
<1>1. L \in Nat
  BY PlanItems
<1>2. NextStop(c, from, there) = Min(Stops)
  BY PlanOfIs DEF NextStop
<1>3. Stops \in SUBSET Nat /\ Stops # {}
  BY <1>1
<1>4. Min(Stops) \in Stops /\ \A n \in Stops : Min(Stops) <= n
  BY <1>3, MinIsLeast
<1>5. ASSUME NEW i \in from .. Min(Stops) - 1
      PROVE  i \in 1 .. L /\ Plan(c, chosen)[i] \in there
  <2>1. Min(Stops) \in 1 .. L + 1
    BY <1>1, <1>4
  <2>2. i \in from .. L /\ ~(Min(Stops) <= i)
    BY <1>1, <2>1
  <2>3. i \notin Stops
    BY <1>4, <2>2
  <2> QED
    BY <1>1, <2>2, <2>3
<1> QED
  BY <1>2, <1>5

\* The least of some numbers from a on, or the bound b above them.
LEMMA LeastOrBound ==
  ASSUME NEW a \in Nat, NEW b \in Nat, a <= b, NEW F \in SUBSET (a .. b - 1)
  PROVE  /\ Min(F \union {b}) \in a .. b /\ (F = {} => Min(F \union {b}) = b)
         /\ F # {} => Min(F \union {b}) \in F /\ Min(F \union {b}) < b
<1>1. F \union {b} \in SUBSET Nat /\ F \union {b} # {}
  OBVIOUS
<1>2. PICK m : m = Min(F \union {b}) /\ m \in F \union {b} /\ \A k \in F \union {b} : m <= k
  BY <1>1, MinIsLeast
<1>3. \A k \in F : k \in Nat /\ a <= k /\ k < b
  OBVIOUS
<1>4. m \in a .. b /\ (F = {} => m = b)
  BY <1>2, <1>3
<1>5. ASSUME F # {} PROVE m \in F /\ m < b
  <2>1. PICK k \in F : TRUE
    BY <1>5
  <2> QED
    BY <1>2, <1>3, <2>1
<1> QED
  BY <1>2, <1>4, <1>5, Zenon

\* The step in which a pass writes, item by item: what is new was due in the pass and not
\* hidden, what was due before the end is new, or there, or failed, and an error that is
\* dropped does not end the pass.
Writes(c, new, failed, end) ==
  LET plan == Plan(c, chosen) IN
  /\ Store(c, new) /\ (\E read : SetStatus(c, read)) /\ UNCHANGED <<opts, sa>>
  /\ \A x \in new : /\ x \notin made \ shown /\ Due(c, x)
                    /\ \E i \in pos[c] .. end - 1 : x = plan[i]
  /\ \A x \in failed : /\ failed = {x} /\ x \notin made \ shown /\ Due(c, x)
                       /\ \E i \in pos[c] .. Beyond(c) - 1 : x = plan[i]
  /\ IF failed = {} THEN UNCHANGED faults ELSE Fault
  /\ \A i \in pos[c] .. end - 1 : Due(c, plan[i]) => plan[i] \in new \union failed \union made
  /\ \/ /\ end = Beyond(c) /\ failed \subseteq Dropping[opts] \ shown
        /\ GoOnFrom(c, Beyond(c), inst[c], Events(c, new))
     \/ /\ end < Beyond(c) /\ plan[end] \notin Dropping[opts] \ shown
        /\ plan[end] \in failed \union (made \ shown)
        /\ Finish(c, Retry(c) \union Events(c, new))

LEMMA WriteItems ==
  ASSUME TypeOK, NEW c \in Controllers, Write(c)
  PROVE  \E new \in SUBSET (Objects[opts] \ {"sa"}) : \E failed \in SUBSET Failing :
           \E end \in pos[c] .. Beyond(c) : Writes(c, new, failed, end)
<1>1. Reading(c)
  BY DEF Write
<1>2. /\ opts \in Names /\ pos[c] \in 1 .. Len(Plan(c, chosen)) /\ PlanOf(c) = Plan(c, chosen)
      /\ Beyond(c) \in 1 .. Len(Plan(c, chosen)) + 1 /\ Len(Plan(c, chosen)) \in Nat
      /\ \A i \in pos[c] .. Beyond(c) - 1 :
              i \in 1 .. Len(Plan(c, chosen)) /\ Plan(c, chosen)[i] \notin Halts
  BY <1>1, ReadingType, PlanOfIs, BeyondType
<1> DEFINE plan    == PlanOf(c)
           due     == {i \in pos[c] .. Beyond(c) - 1 : Due(c, plan[i])}
           refused == {i \in due : plan[i] \in made \ shown}
           drops   == Dropping[opts] \ shown
           fatal(failed) == {i \in failed \union refused : plan[i] \notin drops}
           end(failed) == Min(fatal(failed) \union {Beyond(c)})
           new(failed) == {plan[i] : i \in {j \in due \ (failed \union refused) : j < end(failed)}}
           settled(failed) == {plan[i] : i \in (pos[c] .. end(failed) - 1) \ due}
<1>3. PICK failed \in {{}} \union {{i} : i \in {j \in due \ refused : plan[j] \in Failing}} :
        /\ \A i \in failed : i <= end(failed)
        /\ IF failed = {} THEN UNCHANGED faults ELSE Fault
        /\ Store(c, new(failed))
        /\ SetStatus(c, settled(failed))
        /\ IF fatal(failed) = {} THEN GoOnFrom(c, Beyond(c), inst[c], Events(c, new(failed)))
                                 ELSE Finish(c, Retry(c) \union Events(c, new(failed)))
        /\ UNCHANGED <<opts, sa>>
  BY Zenon DEF Write
<1> DEFINE n == new(failed)
           e == end(failed)
           f == {plan[i] : i \in failed}
<1>4. PICK r : SetStatus(c, r) /\ Store(c, n)
  BY <1>3
<1>5. pos[c] <= Beyond(c)
  BY <1>1, ReadingType, BeyondType
<1>6. /\ e \in pos[c] .. Beyond(c) /\ (fatal(failed) = {} => e = Beyond(c))
      /\ fatal(failed) # {} => e \in fatal(failed) /\ e < Beyond(c)
  <2> DEFINE F == fatal(failed)
  <2>1. pos[c] \in Nat /\ Beyond(c) \in Nat
    BY <1>2
  <2>2. F \in SUBSET (pos[c] .. Beyond(c) - 1)
    OBVIOUS
  <2> HIDE DEF fatal
  <2> QED
    BY <1>5, <2>1, <2>2, LeastOrBound, Zenon
<1>7. /\ failed \subseteq due \ refused /\ \A i, j \in failed : i = j
      /\ \A i \in failed : plan[i] \in Failing
  OBVIOUS
<1>8. /\ f \in SUBSET Failing /\ (failed = {} <=> f = {})
      /\ \A x \in f : f = {x} /\ x \notin made \ shown /\ Due(c, x)
                      /\ \E i \in pos[c] .. Beyond(c) - 1 : x = plan[i]
  BY <1>7
<1>9. /\ n \in SUBSET (Objects[opts] \ {"sa"})
      /\ \A x \in n : /\ x \notin made \ shown /\ Due(c, x)
                      /\ \E i \in pos[c] .. e - 1 : x = plan[i]
  <2> SUFFICES ASSUME NEW j \in due \ (failed \union refused), j < e
               PROVE  /\ plan[j] \in Objects[opts] /\ plan[j] # "sa" /\ j \in pos[c] .. e - 1
                      /\ plan[j] \notin made \ shown /\ Due(c, plan[j])
    OBVIOUS
  <2>1. j \in pos[c] .. Beyond(c) - 1 /\ Due(c, plan[j]) /\ plan[j] \notin made \ shown
    OBVIOUS
  <2>2. j \in 1 .. Len(plan) /\ plan[j] \notin Halts
    BY <1>2, <2>1
  <2>3. ~Due(c, "pending")
    BY WorkloadNames DEF Due, Parts
  <2>4. plan[j] \in Objects[opts]
    BY <1>2, <2>1, <2>2, <2>3, ItemMade DEF Halts
  <2>5. j \in pos[c] .. e - 1
    BY <1>2, <1>6, <2>1
  <2> QED
    BY <2>1, <2>2, <2>4, <2>5 DEF Halts
<1>10. \A i \in pos[c] .. e - 1 : Due(c, plan[i]) => plan[i] \in n \union f \union made
  <2> SUFFICES ASSUME NEW i \in pos[c] .. e - 1, Due(c, plan[i]), plan[i] \notin f \union made
               PROVE  plan[i] \in n
    OBVIOUS
  <2>1. i \in pos[c] .. Beyond(c) - 1 /\ i < e
    BY <1>2, <1>6
  <2>2. i \in due /\ i \notin failed /\ i \notin refused
    BY <2>1
  <2> QED
    BY <2>1, <2>2
<1>11. CASE fatal(failed) = {}
  <2>1. e = Beyond(c) /\ GoOnFrom(c, Beyond(c), inst[c], Events(c, n))
    BY <1>3, <1>6, <1>11
  <2>2. f \subseteq Dropping[opts] \ shown
    BY <1>11
  <2> HIDE DEF n, e, f, plan
  <2>3. /\ n \in SUBSET (Objects[opts] \ {"sa"}) /\ f \in SUBSET Failing
        /\ e \in pos[c] .. Beyond(c)
        /\ Store(c, n) /\ (\E read : SetStatus(c, read)) /\ UNCHANGED <<opts, sa>>
        /\ (IF f = {} THEN UNCHANGED faults ELSE Fault)
    BY <1>3, <1>4, <1>6, <1>8, <1>9
  <2>4. Writes(c, n, f, e)
    BY <1>2, <1>8, <1>9, <1>10, <2>1, <2>2, <2>3 DEF Writes, plan
  <2> QED
    BY <1>9, <2>3, <2>4, Zenon
<1>12. CASE fatal(failed) # {}
  <2>1. e \in fatal(failed) /\ e < Beyond(c) /\ Finish(c, Retry(c) \union Events(c, n))
    BY <1>3, <1>6, <1>12
  <2>2. plan[e] \notin Dropping[opts] \ shown /\ plan[e] \in f \union (made \ shown)
    BY <2>1
  <2> HIDE DEF n, e, f, plan
  <2>3. /\ n \in SUBSET (Objects[opts] \ {"sa"}) /\ f \in SUBSET Failing
        /\ e \in pos[c] .. Beyond(c)
        /\ Store(c, n) /\ (\E read : SetStatus(c, read)) /\ UNCHANGED <<opts, sa>>
        /\ (IF f = {} THEN UNCHANGED faults ELSE Fault)
    BY <1>3, <1>4, <1>6, <1>8, <1>9
  <2>4. Writes(c, n, f, e)
    BY <1>2, <1>8, <1>9, <1>10, <2>1, <2>2, <2>3 DEF Writes, plan
  <2> QED
    BY <1>9, <2>3, <2>4, Zenon
<1> QED
  BY <1>11, <1>12

\* The end of a pass, and the step in which it goes on.
LEMMA PassEnds ==
  ASSUME TypeOK, NEW c \in Controllers, NEW events, Finish(c, events)
  PROVE  /\ queued' = queued \union events /\ pos'[c] = 0
         /\ \A d \in Controllers \ {c} : pos'[d] = pos[d] /\ inst'[d] = inst[d]
BY DEF Finish, TypeOK

LEMMA PassGoesOn ==
  ASSUME TypeOK, UNCHANGED opts, NEW c \in Controllers, NEW from \in 1 .. Len(Plan(c, chosen)) + 1,
         NEW by, NEW events, GoOnFrom(c, from, by, events)
  PROVE  /\ queued \union events \subseteq queued'
         /\ \A d \in Controllers \ {c} : pos'[d] = pos[d] /\ inst'[d] = inst[d]
         /\ \/ pos'[c] = 0 /\ \A i \in from .. Len(Plan(c, chosen)) : Plan(c, chosen)[i] \in shown'
            \/ /\ pos'[c] \in from .. Len(Plan(c, chosen)) /\ inst'[c] = by
               /\ \A i \in from .. pos'[c] - 1 : Plan(c, chosen)[i] \in shown'
<1> DEFINE stop == NextStop(c, from, shown')
           L == Len(Plan(c, chosen))
<1>1. opts \in Names /\ DOMAIN pos = Controllers /\ DOMAIN inst = Controllers
  BY DEF TypeOK
<1>2. stop \in from .. L + 1 /\ L \in Nat /\ Last(c) = L
  BY <1>1, NextStopType, PlanOfIs
<1>3. \A i \in from .. stop - 1 : i \in 1 .. L /\ Plan(c, chosen)[i] \in shown'
  BY <1>1, PassedOver
<1>4. CASE stop > Last(c)
  <2>1. Finish(c, events \union (IF c = "csp" /\ chosen.kids # {} THEN {c} ELSE {}))
    BY <1>4 DEF GoOnFrom
  <2>2. \A i \in from .. L : Plan(c, chosen)[i] \in shown'
    BY <1>2, <1>3, <1>4
  <2> QED
    BY <2>1, <2>2, PassEnds
<1>5. CASE ~(stop > Last(c))
  <2>1. /\ pos' = [pos EXCEPT ![c] = stop] /\ inst' = [inst EXCEPT ![c] = by]
        /\ queued' = queued \union events
    BY <1>5 DEF GoOnFrom
  <2>2. stop \in from .. L
    BY <1>2, <1>5
  <2> HIDE DEF stop
  <2> QED
    BY <1>1, <1>3, <2>1, <2>2
<1> QED
  BY <1>4, <1>5

-----------------------------------------------------------------------------
(* Templates: what is below what. *)

LEMMA PartWorkloads ==
  /\ DOMAIN Deployment = {"server", "gateway", "enforcer", "kubeEnforcer", "scanner"}
  /\ DOMAIN Deployment \subseteq Parts /\ DOMAIN Deployment \subseteq Controllers
  /\ \A c \in DOMAIN Deployment : Deployment[c] \in Workloads
  /\ \A c, d \in DOMAIN Deployment : Deployment[c] = Deployment[d] => c = d
  /\ \A c \in DOMAIN Deployment : Deployment[c] \notin {"dbDeployment", "auditDbDeployment"}
  /\ Parts \intersect Workloads = {} /\ "sa" \notin Workloads \union Parts
<1>1. DOMAIN Deployment = {"server", "gateway", "enforcer", "kubeEnforcer", "scanner"}
  BY DEF Deployment
<1>2. /\ Deployment["server"] = "serverDeployment" /\ Deployment["gateway"] = "gatewayDeployment"
      /\ Deployment["enforcer"] = "enforcerDaemonSet"
      /\ Deployment["kubeEnforcer"] = "keDeployment"
      /\ Deployment["scanner"] = "scannerDeployment"
  BY DEF Deployment
<1>3. /\ \A c \in DOMAIN Deployment : Deployment[c] \in Workloads
      /\ \A c, d \in DOMAIN Deployment : Deployment[c] = Deployment[d] => c = d
      /\ \A c \in DOMAIN Deployment : Deployment[c] \notin {"dbDeployment", "auditDbDeployment"}
  BY <1>1, <1>2, WorkloadNames
<1>4. Parts \intersect Workloads = {} /\ "sa" \notin Workloads \union Parts
  BY WorkloadNames DEF Parts
<1> QED
  BY <1>1, <1>3, <1>4 DEF Parts, Controllers

\* Unset is told from the secrets and the states.
LEMMA UnsetIs ==
  /\ Unset \notin {"keRegistrySecret", "registrySecret", "ownSecret"}
  /\ Unset \notin {"Pending", "Running", "UpdateInProgress"}
  /\ PullSecret = {Unset, "keRegistrySecret", "registrySecret", "ownSecret"}
  /\ Blank = [pull |-> Unset, mtls |-> FALSE]
BY Zenon DEF Unset, PullSecret, Blank

\* The order of the settings is one.
LEMMA BelowOrder ==
  /\ \A s \in Setting : Below(s, s)
  /\ \A s, t \in Setting : Below(s, t) /\ Below(t, s) => s = t
  /\ \A s, t, u \in Setting : Below(s, t) /\ Below(t, u) => Below(s, u)
<1>1. /\ Rank[Unset] = 0 /\ Rank["keRegistrySecret"] = 1 /\ Rank["registrySecret"] = 2
      /\ Rank["ownSecret"] = 3
  BY UnsetIs DEF Rank
<1>2. \A p \in PullSecret : Rank[p] \in Nat
  BY <1>1, UnsetIs
<1>3. \A p, q \in PullSecret : Rank[p] <= Rank[q] /\ Rank[q] <= Rank[p] => p = q
  BY <1>1, UnsetIs
<1>4. \A s \in Setting : /\ s.pull \in PullSecret /\ s.mtls \in BOOLEAN
                         /\ s = [pull |-> s.pull, mtls |-> s.mtls]
  BY DEF Setting
<1>5. \A s, t \in Setting : Below(s, t) /\ Below(t, s) => s = t
  <2> SUFFICES ASSUME NEW s \in Setting, NEW t \in Setting, Below(s, t), Below(t, s)
               PROVE  s = t
    OBVIOUS
  <2>1. s.pull = t.pull
    BY <1>3, <1>4 DEF Below
  <2>2. s.mtls = t.mtls
    BY <1>4 DEF Below
  <2> QED
    BY <1>4, <2>1, <2>2
<1>6. \A s \in Setting : Below(s, s)
  BY <1>2, <1>4 DEF Below
<1>7. \A s, t, u \in Setting : Below(s, t) /\ Below(t, u) => Below(s, u)
  BY <1>2, <1>4 DEF Below
<1> QED
  BY <1>5, <1>6, <1>7

\* Who names a pull secret of his own does not get one from the operator.
LEMMA OneSecret ==
  ASSUME TypeOK, "registrySecret" \in made
  PROVE  ~chosen.named
<1> SUFFICES ASSUME chosen.named PROVE FALSE
  OBVIOUS
<1>1. opts \in Names /\ "registrySecret" \in Objects[opts]
  BY DEF TypeOK
<1>2. "registrySecret" \notin Users \union Parts
  <2>1. {MtlsSecret[c] : c \in DOMAIN MtlsSecret}
          = {"grpcWeb", "grpcGateway", "grpcEnforcer", "grpcKubeEnforcer"}
    <3>1. DOMAIN MtlsSecret = {"server", "gateway", "enforcer", "kubeEnforcer"}
      BY DEF MtlsSecret
    <3>2. {MtlsSecret[c] : c \in {"server", "gateway", "enforcer", "kubeEnforcer"}}
            = {"grpcWeb", "grpcGateway", "grpcEnforcer", "grpcKubeEnforcer"}
      BY DEF MtlsSecret
    <3> QED
      BY <3>1, <3>2, Zenon
  <2> QED
    BY <2>1 DEF Users, Parts
<1>3. PICK c \in Controllers : "registrySecret" \in ObjectsOf(c, chosen)
  BY <1>1, <1>2 DEF Objects, chosen
<1>4. PICK i \in 1 .. Len(Plan(c, chosen)) : Plan(c, chosen)[i] = "registrySecret"
  BY <1>3, PlanItems DEF ObjectsOf
<1>5. c = "csp"
  <2>1. "registrySecret" \in Things(c)
    BY <1>4, PlanIsOf
  <2> QED
    BY <2>1 DEF Things, Controllers, Parts, DatabaseThings, ServerThings, GatewayThings,
                EnforcerThings, KubeEnforcerThings, ScannerThings
<1>6. CspPlan(chosen) \in Seq(CspThings \ {"registrySecret"})
  <2> DEFINE T  == CspThings \ {"registrySecret"}
             o  == chosen
             s1 == When(o.registry, <<IF o.named THEN "ownSecret" ELSE "registrySecret">>)
             s3 == <<"dbSecret">>
             s4 == IF o.external THEN When(o.split, <<"auditSecret">>) ELSE <<"database", "waitDb">>
             s5 == <<"server", "gateway", "gate">>
             s6 == When("enforcer" \in o.kids, <<"enforcer">>)
             s7 == When("kubeEnforcer" \in o.kids, <<"kubeEnforcer">>)
  <2>1. /\ <<IF o.named THEN "ownSecret" ELSE "registrySecret">> \in Seq(T)
        /\ <<"dbSecret">> \in Seq(T) /\ <<"auditSecret">> \in Seq(T)
        /\ <<"database", "waitDb">> \in Seq(T) /\ <<"server", "gateway", "gate">> \in Seq(T)
        /\ <<"enforcer">> \in Seq(T) /\ <<"kubeEnforcer">> \in Seq(T)
    BY DEF CspThings
  <2>2. /\ s1 \in Seq(T) /\ s3 \in Seq(T) /\ s4 \in Seq(T) /\ s5 \in Seq(T) /\ s6 \in Seq(T)
        /\ s7 \in Seq(T)
    BY <2>1, WhenSeq
  <2>3. Rbac(o) \in Seq(T)
    BY RbacSeq DEF CspThings
  <2> HIDE DEF T, s1, s3, s4, s5, s6, s7
  <2>4. s1 \o Rbac(o) \o s3 \o s4 \in Seq(T)
    BY <2>2, <2>3, ConcatSeq
  <2>5. s1 \o Rbac(o) \o s3 \o s4 \o s5 \o s6 \o s7 \in Seq(T)
    BY <2>2, <2>4, ConcatSeq
  <2> QED
    BY <2>5 DEF CspPlan, T, s1, s3, s4, s5, s6, s7
<1> QED
  BY <1>4, <1>5, <1>6, ElementOfSeq, LenProperties DEF Plan

\* The pull secret part c goes by, and whether it finds a secret of mutual TLS, from its
\* spec and what is shown.
MemoryPull(c, pull, seen) ==
  CASE c \in Services -> Fill(pull)
    [] c \in {"enforcer", "scanner"} -> IF Fill(pull) \in seen THEN Fill(pull) ELSE Unset
    [] c = "kubeEnforcer" -> IF pull = Unset THEN "keRegistrySecret" ELSE pull

SeesMtls(c, seen) == c \in DOMAIN MtlsSecret /\ MtlsSecret[c] \in seen

LEMMA PullsAre ==
  /\ Fill(Unset) = CspPull /\ CspPull = "registrySecret"
  /\ \A p : p # Unset => Fill(p) = p
  /\ \A p : KeepShown(p) = IF p \in shown THEN p ELSE Unset
BY Zenon DEF Fill, KeepShown, Unset, CspPull

LEMMA UpdatedIs ==
  ASSUME NEW c \in DOMAIN Deployment
  PROVE  /\ Updated(c).pull = IF c = "kubeEnforcer" THEN spec[c].pull
                              ELSE MemoryPull(c, spec[c].pull, shown)
         /\ Updated(c).mtls = (spec[c].mtls \/ SeesMtls(c, shown))
<1>1. c \in {"server", "gateway", "enforcer", "kubeEnforcer", "scanner"}
  BY PartWorkloads
<1>2. /\ Updated(c).pull = (CASE c \in Services -> Fill(spec[c].pull)
                              [] c \in {"enforcer", "scanner"} -> KeepShown(Fill(spec[c].pull))
                              [] OTHER -> spec[c].pull)
      /\ Updated(c).mtls = (spec[c].mtls \/ SeesMtls(c, shown))
  BY DEF Updated, SeesMtls
<1>3. KeepShown(Fill(spec[c].pull))
        = IF Fill(spec[c].pull) \in shown THEN Fill(spec[c].pull) ELSE Unset
  BY PullsAre
<1> QED
  BY <1>1, <1>2, <1>3 DEF MemoryPull, Services

LEMMA MemoryIs ==
  ASSUME NEW c \in DOMAIN Deployment
  PROVE  /\ InMemory(c).pull = MemoryPull(c, spec[c].pull, shown)
         /\ InMemory(c).mtls = (spec[c].mtls \/ SeesMtls(c, shown))
<1>1. c \in {"server", "gateway", "enforcer", "kubeEnforcer", "scanner"} /\ c \in Parts
  BY PartWorkloads
<1>2. InMemory(c) = IF c = "kubeEnforcer" /\ spec[c].pull = Unset
                      THEN [Updated(c) EXCEPT !.pull = "keRegistrySecret"] ELSE Updated(c)
  <2>1. CASE c = "kubeEnforcer" /\ spec[c].pull = Unset
    BY <2>1, Zenon DEF InMemory, Unset
  <2>2. CASE ~(c = "kubeEnforcer" /\ spec[c].pull = Unset)
    <3>1. InMemory(c) = Updated(c)
      <4>1. c # "csp" /\ c # "database" /\ ~(c = "kubeEnforcer" /\ spec[c].pull = "")
        BY <1>1, <2>2, Zenon DEF Unset
      <4> QED
        BY <4>1, Zenon DEF InMemory
    <3> QED
      BY <2>2, <3>1
  <2> QED
    BY <2>1, <2>2
<1>3. /\ [Updated(c) EXCEPT !.pull = "keRegistrySecret"].pull = "keRegistrySecret"
      /\ [Updated(c) EXCEPT !.pull = "keRegistrySecret"].mtls = Updated(c).mtls
  <2>1. DOMAIN Updated(c) = {"pull", "mtls"}
    BY DEF Updated
  <2> QED
    BY <2>1
<1>4. c = "kubeEnforcer" => MemoryPull(c, spec[c].pull, shown)
                              = IF spec[c].pull = Unset THEN "keRegistrySecret" ELSE spec[c].pull
  BY DEF MemoryPull, Services
<1> QED
  BY <1>2, <1>3, <1>4, UpdatedIs

\* The same of the state after a step.
LEMMA MemoryNext ==
  ASSUME NEW c \in DOMAIN Deployment
  PROVE  /\ InMemory(c)'.pull = MemoryPull(c, spec'[c].pull, shown')
         /\ InMemory(c)'.mtls = (spec'[c].mtls \/ SeesMtls(c, shown'))
<1>1. (/\ InMemory(c).pull = MemoryPull(c, spec[c].pull, shown)
       /\ InMemory(c).mtls = (spec[c].mtls \/ SeesMtls(c, shown)))'
  BY MemoryIs, PTL
<1> QED
  BY <1>1

LEMMA Ranks ==
  /\ Rank[Unset] = 0 /\ Rank["keRegistrySecret"] = 1 /\ Rank["registrySecret"] = 2
  /\ Rank["ownSecret"] = 3
BY UnsetIs DEF Rank

\* What the pull secret in the spec of part c may become in a step.
MayBecome(c) ==
  {spec[c].pull, Updated(c).pull}
  \union (IF c = "scanner" THEN {} ELSE {CspWants})
  \union (IF c # "scanner" /\ spec[c].pull \in {Unset, CspPull}
             /\ (c = "kubeEnforcer" => spec[c].pull = Unset)
            THEN {Unset} ELSE {})

\* However the specs are written and whatever comes to be seen, the settings that a pass
\* would go by climb.
LEMMA MemoryClimbs ==
  ASSUME TypeOK, UNCHANGED opts, SpecsKnown, SpecsKnown', shown \subseteq shown',
         NEW c \in DOMAIN Deployment, spec'[c].pull \in MayBecome(c)
  PROVE  Below(InMemory(c), InMemory(c)')
<1> DEFINE p == spec[c].pull
           q == spec'[c].pull
<1>1. c \in {"server", "gateway", "enforcer", "kubeEnforcer", "scanner"}
  BY PartWorkloads
<1>2. /\ p \in {Unset, CspPull, CspWants}
      /\ (spec[c].mtls => SeesMtls(c, shown)) /\ (spec'[c].mtls => SeesMtls(c, shown'))
  BY DEF SpecsKnown, SeesMtls
<1>3. /\ CspWants \in {"ownSecret", "registrySecret"}
      /\ CspWants = "registrySecret" \/ "registrySecret" \notin shown
  BY OneSecret, PullsAre DEF CspWants, TypeOK
<1>4. SeesMtls(c, shown) => SeesMtls(c, shown')
  BY DEF SeesMtls
<1>5. Rank[MemoryPull(c, p, shown)] <= Rank[MemoryPull(c, q, shown')]
  <2>1. CASE c \in {"server", "gateway"}
    <3>1. /\ \A r, seen : MemoryPull(c, r, seen) = Fill(r)
          /\ Updated(c).pull = Fill(p)
      BY <2>1, UpdatedIs DEF MemoryPull, Services
    <3>2. q \in {p, Fill(p), CspWants, Unset} /\ (q = Unset => p \in {Unset, CspPull})
      BY <2>1, <3>1, <1>3, PullsAre, UnsetIs DEF MayBecome
    <3> QED
      BY <1>2, <1>3, <3>1, <3>2, PullsAre, UnsetIs, Ranks
  <2>2. CASE c = "enforcer"
    <3>1. /\ \A r, seen : MemoryPull(c, r, seen) = IF Fill(r) \in seen THEN Fill(r) ELSE Unset
          /\ Updated(c).pull = IF Fill(p) \in shown THEN Fill(p) ELSE Unset
      BY <2>2, UpdatedIs DEF MemoryPull, Services
    <3>2. /\ q \in {p, Updated(c).pull, CspWants, Unset}
          /\ q = Unset => p \in {Unset, CspPull} \/ Fill(p) \notin shown
      BY <2>2, <3>1, <1>3, PullsAre, UnsetIs DEF MayBecome
    <3> QED
      BY <1>2, <1>3, <3>1, <3>2, PullsAre, UnsetIs, Ranks
  <2>3. CASE c = "scanner"
    <3>1. /\ \A r, seen : MemoryPull(c, r, seen) = IF Fill(r) \in seen THEN Fill(r) ELSE Unset
          /\ Updated(c).pull = IF Fill(p) \in shown THEN Fill(p) ELSE Unset
      BY <2>3, UpdatedIs DEF MemoryPull, Services
    <3>2. q \in {p, Updated(c).pull}
      BY <2>3 DEF MayBecome
    <3> QED
      BY <1>2, <1>3, <3>1, <3>2, PullsAre, UnsetIs, Ranks
  <2>4. CASE c = "kubeEnforcer"
    <3>1. /\ \A r, seen : MemoryPull(c, r, seen) = IF r = Unset THEN "keRegistrySecret" ELSE r
          /\ Updated(c).pull = p
      BY <2>4, UpdatedIs DEF MemoryPull, Services
    <3>2. q \in {p, CspWants, Unset} /\ (q = Unset => p = Unset)
      BY <2>4, <3>1, <1>3, UnsetIs DEF MayBecome
    <3> QED
      BY <1>2, <1>3, <3>1, <3>2, PullsAre, UnsetIs, Ranks
  <2> QED
    BY <1>1, <2>1, <2>2, <2>3, <2>4
<1> QED
  BY <1>2, <1>4, <1>5, MemoryIs, MemoryNext DEF Below

LEMMA MemoryType ==
  /\ TypeOK => \A c \in Controllers : InMemory(c) \in Setting
  /\ TypeOK' => \A c \in Controllers : InMemory(c)' \in Setting
<1>1. TypeOK => \A c \in Controllers : InMemory(c) \in Setting
  BY SettingTypes
<1>2. (TypeOK => \A c \in Controllers : InMemory(c) \in Setting)'
  BY <1>1, PTL
<1> QED
  BY <1>1, <1>2

\* What keeps a workload's templates climbing: they are left alone, and the pass of the
\* part goes by what it went by, or by what it finds as it begins.
LEMMA ClimbingKept ==
  ASSUME TypeOK, TypeOK', UNCHANGED opts, SpecsKnown, SpecsKnown', shown \subseteq shown',
         NEW c \in DOMAIN Deployment, spec'[c].pull \in MayBecome(c), Climbing(c),
         tmpl'[Deployment[c]] = tmpl[Deployment[c]], past'[Deployment[c]] = past[Deployment[c]],
         Deployment[c] \in made' <=> Deployment[c] \in made,
         \/ pos'[c] = 0
         \/ inst'[c] = InMemory(c)
         \/ (pos'[c] > 0 => pos[c] > 0) /\ inst'[c] = inst[c]
  PROVE  Climbing(c)'
<1> DEFINE w == Deployment[c]
<1>1. w \in Workloads /\ c \in Controllers /\ c \in Parts
  BY PartWorkloads
<1>2. InMemory(c) \in Setting /\ InMemory(c)' \in Setting
  BY <1>1, MemoryType
<1>3. tmpl[w] \in Setting /\ inst[c] \in Setting /\ inst'[c] \in Setting
  BY <1>1 DEF TypeOK
<1>4. Below(InMemory(c), InMemory(c)')
  BY MemoryClimbs
<1>5. w \in made' => Below(tmpl'[w], InMemory(c)')
  BY <1>2, <1>3, <1>4, BelowOrder DEF Climbing
<1>6. pos'[c] > 0 => /\ w \in made' => Below(tmpl'[w], inst'[c])
                     /\ Below(inst'[c], InMemory(c)')
  <2>1. CASE inst'[c] = InMemory(c)
    BY <1>4, <2>1 DEF Climbing
  <2>2. CASE (pos'[c] > 0 => pos[c] > 0) /\ inst'[c] = inst[c]
    BY <1>2, <1>3, <1>4, <2>2, BelowOrder DEF Climbing
  <2> QED
    BY <2>1, <2>2
<1> QED
  BY <1>5, <1>6 DEF Climbing

-----------------------------------------------------------------------------
(* Templates: the steps. *)

LEMMA AccountFirstKept ==
  ASSUME opts \in Names, UNCHANGED opts,
         Parts \intersect made' # {} => "sa" \in made',
         \A c \in Parts : pos'[c] > 0 => c \in made',
         \A c \in Services : status'[c] # Unset => c \in made',
         \A i \in 1 .. pos'["csp"] - 1 : Plan("csp", chosen)[i] = "sa" => "sa" \in made'
  PROVE  AccountFirst'
<1>1. PlanOf("csp")' = Plan("csp", chosen)
  BY PartsControl, Zenon DEF PlanOf, Plans, chosen
<1> QED
  BY <1>1 DEF AccountFirst

LEMMA BeginTemplates ==
  ASSUME TypeOK, TypeOK', TemplateInv, NEW c \in Controllers, Begin(c)
  PROVE  TemplateInv'
<1>1. /\ UNCHANGED <<opts, made, shown, tmpl, past, status>> /\ opts \in Names
      /\ c \in {"csp"} \union made /\ shown \subseteq made
  BY DEF Begin, podVars, TypeOK
<1>2. /\ \A d \in Controllers : pos'[d] = IF d = c THEN NextStop(c, 1, shown) ELSE pos[d]
      /\ \A d \in Controllers : inst'[d] = IF d = c THEN InMemory(c) ELSE inst[d]
  BY DEF Begin, TypeOK
<1>3. \A d \in Parts : \/ spec'[d] = spec[d]
                       \/ d = c /\ c \in DOMAIN Deployment /\ spec'[d] = Updated(c)
  <2>1. Storing = DOMAIN Deployment
    BY PartWorkloads DEF Storing, Parts
  <2>2. UNCHANGED spec \/ (c \in Storing /\ spec' = [spec EXCEPT ![c] = Updated(c)])
    BY Zenon DEF Begin
  <2> QED
    BY <2>1, <2>2 DEF TypeOK
<1>4. AccountFirst'
  <2>1. \A i \in 1 .. pos'["csp"] - 1 : Plan("csp", chosen)[i] = "sa" => "sa" \in made
    <3>1. CASE c = "csp"
      <4>1. Len(Plan("csp", chosen)) \in Nat /\ "csp" \in Controllers
        BY PartsControl, PlanItems
      <4>2. \A i \in 1 .. NextStop("csp", 1, shown) - 1 : Plan("csp", chosen)[i] \in shown
        BY <1>1, <4>1, PassedOver
      <4> QED
        BY <1>1, <1>2, <3>1, <4>1, <4>2
    <3>2. CASE c # "csp"
      BY <1>1, <1>2, <3>2, PartsControl, PlanOfIs DEF TemplateInv, AccountFirst
    <3> QED
      BY <3>1, <3>2
  <2>2. \A d \in Parts : pos'[d] > 0 => d \in made
    BY <1>1, <1>2, PartsControl DEF TemplateInv, AccountFirst, Parts
  <2> QED
    BY <1>1, <2>1, <2>2, AccountFirstKept DEF TemplateInv, AccountFirst
<1>5. BlankOnlyFirst'
  <2>1. CASE c = "csp"
    <3>1. InMemory("csp") = [pull |-> CspWants, mtls |-> FALSE] /\ CspWants' = CspWants
      BY <1>1 DEF InMemory, CspWants, chosen
    <3> QED
      BY <1>2, <2>1, <3>1 DEF BlankOnlyFirst
  <2>2. CASE c # "csp"
    <3>1. pos'["csp"] = pos["csp"] /\ inst'["csp"] = inst["csp"] /\ CspWants' = CspWants
      BY <1>1, <1>2, <2>2, PartsControl DEF CspWants, chosen
    <3>2. /\ {"server", "gateway", "enforcer", "kubeEnforcer"} \subseteq Parts
          /\ {"server", "gateway", "enforcer", "kubeEnforcer"} \subseteq DOMAIN Deployment
      BY PartWorkloads
    <3>3. spec'["kubeEnforcer"].pull = spec["kubeEnforcer"].pull
      BY <1>3, <3>2, UpdatedIs
    <3>4. ASSUME NEW d \in {"server", "gateway", "enforcer"}, spec[d].pull \in {Unset, CspPull}
          PROVE  spec'[d].pull \in {Unset, CspPull}
      <4>1. Fill(spec[d].pull) = CspPull
        BY <3>4, PullsAre, UnsetIs
      <4>2. MemoryPull(d, spec[d].pull, shown) \in {Unset, CspPull}
        BY <4>1 DEF MemoryPull, Services
      <4> QED
        BY <1>3, <3>2, <3>4, <4>2, UpdatedIs
    <3> QED
      BY <3>1, <3>3, <3>4 DEF TemplateInv, BlankOnlyFirst
  <2> QED
    BY <2>1, <2>2
<1>6. SpecsKnown'
  <2> SUFFICES ASSUME NEW d \in DOMAIN Deployment
               PROVE  /\ spec'[d].pull \in {Unset, CspPull, CspWants}
                      /\ spec'[d].mtls => SeesMtls(d, shown)
                      /\ d \notin made /\ d # "scanner" => spec'[d].pull = Unset
    <3>1. CspWants' = CspWants
      BY <1>1 DEF CspWants, chosen
    <3> QED
      BY <1>1, <3>1 DEF SpecsKnown, SeesMtls
  <2>1. d \in Parts /\ d \in {"server", "gateway", "enforcer", "kubeEnforcer", "scanner"}
    BY PartWorkloads
  <2>2. /\ spec[d].pull \in {Unset, CspPull, CspWants}
        /\ spec[d].mtls => SeesMtls(d, shown)
        /\ d \notin made /\ d # "scanner" => spec[d].pull = Unset
    BY DEF TemplateInv, SpecsKnown, SeesMtls
  <2>3. CASE d = c /\ spec'[d] = Updated(c)
    <3>1. Fill(spec[d].pull) \in {CspPull, CspWants}
      BY <2>2, PullsAre
    <3>2. Updated(d).pull \in {Unset, CspPull, CspWants}
      BY <2>1, <2>2, <3>1, UpdatedIs DEF MemoryPull, Services
    <3>3. d \in made
      BY <1>1, <2>1, <2>3
    <3> QED
      BY <2>2, <2>3, <3>2, <3>3, UpdatedIs
  <2> QED
    BY <1>3, <2>1, <2>2, <2>3
<1>7. ASSUME NEW d \in DOMAIN Deployment PROVE Climbing(d)'
  <2>1. spec'[d].pull \in MayBecome(d)
    BY <1>3, PartWorkloads DEF MayBecome
  <2>2. inst'[d] = InMemory(d) \/ (pos'[d] = pos[d] /\ inst'[d] = inst[d])
    BY <1>2, PartWorkloads
  <2> QED
    BY <1>1, <1>6, <2>1, <2>2, ClimbingKept DEF TemplateInv
<1> QED
  BY <1>1, <1>4, <1>5, <1>6, <1>7 DEF TemplateInv

\* The specs stay known when they are not written.
LEMMA SpecsKnownKept ==
  ASSUME TypeOK, UNCHANGED <<opts, spec>>, SpecsKnown, made \subseteq made', shown \subseteq shown'
  PROVE  SpecsKnown'
<1>1. CspWants' = CspWants
  BY DEF CspWants, chosen
<1> QED
  BY <1>1 DEF SpecsKnown

\* A step that writes no spec and no workload, and in which the pass of no part begins.
LEMMA ClimbingLeft ==
  ASSUME TypeOK, TypeOK', UNCHANGED <<opts, spec, tmpl, past>>, TemplateInv, SpecsKnown',
         shown \subseteq shown', made \subseteq made', (made' \ made) \intersect Workloads = {},
         \A c \in Parts : pos'[c] = 0 \/ ((pos'[c] > 0 => pos[c] > 0) /\ inst'[c] = inst[c])
  PROVE  \A c \in DOMAIN Deployment : Climbing(c)'
<1> SUFFICES ASSUME NEW c \in DOMAIN Deployment PROVE Climbing(c)'
  OBVIOUS
<1>1. c \in Parts /\ Deployment[c] \in Workloads
  BY PartWorkloads
<1>2. spec'[c].pull \in MayBecome(c)
  BY DEF MayBecome
<1> QED
  BY <1>1, <1>2, ClimbingKept DEF TemplateInv

LEMMA AccountTemplates ==
  ASSUME TypeOK, TypeOK', TemplateInv, NEW c \in Controllers, CreateAccount(c)
  PROVE  TemplateInv'
<1> DEFINE pull == KeepShown(inst[c].pull)
<1>1. UNCHANGED <<opts, spec, tmpl, past, status>> /\ opts \in Names /\ pos[c] > 0
  BY DEF CreateAccount, podVars, TypeOK, Reading
<1>2. /\ made \subseteq made' /\ made' \subseteq made \union {"sa"} /\ shown \subseteq shown'
  BY Zenon DEF CreateAccount
<1>3. SpecsKnown'
  BY <1>1, <1>2, SpecsKnownKept DEF TemplateInv
<1>4. CASE /\ "sa" \notin made /\ made' = made \union {"sa"}
           /\ \E events : GoOnFrom(c, pos[c] + 1, [inst[c] EXCEPT !.pull = pull], events)
  <2>1. c = "csp" /\ Parts \intersect made = {}
    BY <1>1, <1>4 DEF TemplateInv, AccountFirst, Controllers
  <2>2. pos[c] + 1 \in 1 .. Len(Plan(c, chosen)) + 1
    BY ReadingType DEF CreateAccount
  <2> DEFINE by == [inst[c] EXCEPT !.pull = pull]
  <2>3. PICK events : GoOnFrom(c, pos[c] + 1, by, events)
    BY <1>4
  <2> HIDE DEF by
  <2>4. /\ \A d \in Controllers \ {c} : pos'[d] = pos[d] /\ inst'[d] = inst[d]
        /\ pos'[c] = 0 \/ inst'[c] = by
    BY <1>1, <2>2, <2>3, PassGoesOn
  <2>5. AccountFirst'
    <3>1. "sa" \in made' /\ \A d \in Parts : pos'[d] = pos[d]
      BY <1>4, <2>1, <2>4 DEF Controllers, Parts
    <3> QED
      BY <1>1, <1>2, <3>1, AccountFirstKept DEF TemplateInv, AccountFirst
  <2>6. BlankOnlyFirst'
    <3>1. /\ by.mtls = inst[c].mtls
          /\ by.pull = inst[c].pull \/ by.pull = Unset
      <4>1. inst[c] \in Setting
        BY DEF TypeOK
      <4>2. pull = inst[c].pull \/ pull = Unset
        BY PullsAre
      <4> HIDE DEF pull
      <4> QED
        BY <4>1, <4>2 DEF by, Setting
    <3>2. \A d \in {"server", "gateway", "enforcer", "kubeEnforcer"} : spec[d].pull = Unset
      BY <2>1, PartWorkloads DEF TemplateInv, SpecsKnown
    <3>3. CspWants' = CspWants
      BY <1>1 DEF CspWants, chosen
    <3> QED
      BY <1>1, <2>1, <2>4, <3>1, <3>2, <3>3 DEF TemplateInv, BlankOnlyFirst
  <2>7. \A d \in DOMAIN Deployment : Climbing(d)'
    <3>1. \A d \in Parts : pos'[d] = pos[d] /\ inst'[d] = inst[d]
      BY <2>1, <2>4 DEF Controllers, Parts
    <3> QED
      BY <1>1, <1>2, <1>3, <3>1, ClimbingLeft, PartWorkloads
  <2> QED
    BY <1>1, <1>3, <2>5, <2>6, <2>7 DEF TemplateInv
<1>5. CASE Finish(c, Retry(c)) /\ UNCHANGED made
  <2>1. \A d \in Controllers : pos'[d] = 0 \/ (pos'[d] = pos[d] /\ inst'[d] = inst[d])
    BY <1>5, PassEnds
  <2>2. AccountFirst'
    BY <1>1, <1>5, <2>1, AccountFirstKept, PartsControl, PlanOfIs DEF TemplateInv, AccountFirst
  <2>3. BlankOnlyFirst'
    <3>1. CspWants' = CspWants
      BY <1>1 DEF CspWants, chosen
    <3> QED
      BY <1>1, <2>1, <3>1, PartsControl DEF TemplateInv, BlankOnlyFirst
  <2>4. \A d \in DOMAIN Deployment : Climbing(d)'
    <3>1. \A d \in Parts : pos'[d] = 0 \/ ((pos'[d] > 0 => pos[d] > 0) /\ inst'[d] = inst[d])
      BY <2>1, PartsControl
    <3>2. (made' \ made) \intersect Workloads = {}
      BY <1>5
    <3> QED
      BY <1>1, <1>2, <1>3, <3>1, <3>2, ClimbingLeft
  <2> QED
    BY <1>1, <1>3, <2>2, <2>3, <2>4 DEF TemplateInv
<1> QED
  BY <1>4, <1>5, Zenon DEF CreateAccount

\* A workload is given the template its pass goes by, which is above those it had.
LEMMA ClimbingWritten ==
  ASSUME TypeOK, TypeOK', UNCHANGED opts, SpecsKnown, SpecsKnown', shown \subseteq shown',
         NEW c \in DOMAIN Deployment, NEW w, w = Deployment[c], Climbing(c),
         spec'[c] = spec[c], pos[c] > 0, pos'[c] = 0 \/ inst'[c] = inst[c],
         tmpl'[w] = inst[c], w \in made', w \notin made \/ tmpl[w] # inst[c],
         past'[w] = IF w \in made THEN past[w] \union {tmpl[w]} ELSE past[w]
  PROVE  Climbing(c)'
<1>1. w \in Workloads /\ c \in Controllers /\ c \in Parts
  BY PartWorkloads
<1>2. /\ tmpl[w] \in Setting /\ inst[c] \in Setting /\ past[w] \subseteq Setting
      /\ InMemory(c) \in Setting /\ InMemory(c)' \in Setting
  BY <1>1, MemoryType DEF TypeOK
<1>3. Below(InMemory(c), InMemory(c)')
  <2>1. spec'[c].pull \in MayBecome(c)
    BY DEF MayBecome
  <2> QED
    BY <2>1, MemoryClimbs
<1>4. Below(inst[c], InMemory(c)')
  BY <1>2, <1>3, BelowOrder DEF Climbing
<1>5. \A s \in past'[w] : Below(s, inst[c]) /\ s # inst[c]
  <2>1. CASE w \notin made
    BY <2>1 DEF Climbing
  <2>2. CASE w \in made
    <3>1. Below(tmpl[w], inst[c]) /\ tmpl[w] # inst[c]
      BY <2>2 DEF Climbing
    <3>2. \A s \in past[w] : Below(s, tmpl[w]) /\ s # tmpl[w] /\ s \in Setting
      BY <1>2 DEF Climbing
    <3>3. \A s \in past[w] : Below(s, inst[c])
      BY <1>2, <3>1, <3>2, BelowOrder
    <3>4. ASSUME NEW s \in past[w], s = inst[c] PROVE FALSE
      BY <1>2, <3>1, <3>2, <3>4, BelowOrder
    <3> QED
      BY <2>2, <3>1, <3>3, <3>4
  <2> QED
    BY <2>1, <2>2
<1>6. Below(inst[c], inst[c])
  BY <1>2, BelowOrder
<1> QED
  BY <1>4, <1>5, <1>6 DEF Climbing

\* The pass of the KhulnasoftCsp has made the account before it makes a part.
LEMMA AccountBeforeParts ==
  ASSUME TypeOK, AccountFirst, pos["csp"] > 0,
         NEW i \in pos["csp"] .. Beyond("csp") - 1, Plan("csp", chosen)[i] \in Parts
  PROVE  "sa" \in made
<1> DEFINE plan == Plan("csp", chosen)
<1>1. /\ "csp" \in Controllers /\ opts \in Names /\ pos["csp"] \in 1 .. Len(plan)
      /\ DOMAIN plan = 1 .. Len(plan) /\ Len(plan) \in Nat /\ plan = CspPlan(chosen)
  <2>1. "csp" \in Controllers /\ plan = CspPlan(chosen)
    BY PartsControl DEF Plan
  <2> HIDE DEF plan
  <2> QED
    BY <2>1, ReadingType, PlanItems DEF Reading, plan
<1>2. i \in 1 .. Len(plan) /\ plan[i] # "sa"
  BY <1>1, BeyondType DEF Parts
<1>3. PICK k \in 1 .. Len(plan) : plan[k] = "sa"
  BY <1>1, CspOrder DEF Range
<1>4. k < i
  BY <1>1, <1>2, <1>3, CspOrder DEF NoneAfter
<1>5. CASE k < pos["csp"]
  <2>1. PlanOf("csp")[k] = "sa" /\ k \in 1 .. pos["csp"] - 1
    BY <1>1, <1>3, <1>5, PlanOfIs
  <2> QED
    BY <2>1 DEF AccountFirst
<1>6. CASE k >= pos["csp"]
  <2>1. Beyond("csp") \in 1 .. Len(plan) + 1
    BY <1>1, BeyondType
  <2>2. k \in pos["csp"] .. Beyond("csp") - 1
    BY <1>1, <1>2, <1>3, <1>4, <1>6, <2>1
  <2>3. plan[k] \notin Halts
    BY <1>1, <2>2, BeyondType
  <2> QED
    BY <1>3, <2>3 DEF Halts
<1> QED
  BY <1>1, <1>5, <1>6

\* What a step in which a pass writes does, for the templates and for what is left out.
LEMMA WritesPass ==
  ASSUME TypeOK, NEW c \in Controllers, Reading(c),
         NEW new, NEW failed, NEW end \in pos[c] .. Beyond(c), Writes(c, new, failed, end)
  PROVE  /\ opts \in Names /\ pos[c] > 0 /\ Beyond(c) \in 1 .. Len(Plan(c, chosen)) + 1
         /\ UNCHANGED <<opts, sa>> /\ made' = made \union new /\ shown \subseteq shown'
         /\ spec' = [p \in Parts |-> IF p \in new THEN inst[c] ELSE spec[p]]
         /\ tmpl' = [w \in Workloads |-> IF w \in new THEN inst[c] ELSE tmpl[w]]
         /\ past' = [w \in Workloads |-> IF w \in new \intersect made
                                           THEN past[w] \union {tmpl[w]} ELSE past[w]]
         /\ \A d \in Services \ {c} : status'[d] = status[d]
         /\ \A d \in Controllers \ {c} : pos'[d] = pos[d] /\ inst'[d] = inst[d]
         /\ queued \union Events(c, new) \subseteq queued'
         /\ pos'[c] = 0 \/ inst'[c] = inst[c]
         /\ \A x \in new : /\ x \in Things(c) /\ Due(c, x) /\ x \notin made \ shown
                           /\ \E i \in pos[c] .. Beyond(c) - 1 : x = Plan(c, chosen)[i]
<1>1. /\ opts \in Names /\ pos[c] > 0 /\ Beyond(c) \in 1 .. Len(Plan(c, chosen)) + 1
      /\ pos[c] \in 1 .. Len(Plan(c, chosen)) /\ Len(Plan(c, chosen)) \in Nat
  BY ReadingType, BeyondType DEF Reading
<1>2. /\ Store(c, new) /\ UNCHANGED <<opts, sa>> /\ \E read : SetStatus(c, read)
      /\ \A x \in new : /\ x \notin made \ shown /\ Due(c, x)
                        /\ \E i \in pos[c] .. end - 1 : x = Plan(c, chosen)[i]
      /\ \/ GoOnFrom(c, Beyond(c), inst[c], Events(c, new))
         \/ Finish(c, Retry(c) \union Events(c, new))
  BY DEF Writes
<1>3. \A d \in Services \ {c} : status'[d] = status[d]
  BY <1>2 DEF SetStatus, TypeOK
<1>4. /\ \A d \in Controllers \ {c} : pos'[d] = pos[d] /\ inst'[d] = inst[d]
      /\ pos'[c] = 0 \/ inst'[c] = inst[c]
      /\ queued \union Events(c, new) \subseteq queued'
  BY <1>1, <1>2, PassGoesOn, PassEnds
<1>5. ASSUME NEW x \in new
      PROVE  x \in Things(c) /\ \E i \in pos[c] .. Beyond(c) - 1 : x = Plan(c, chosen)[i]
  <2>1. PICK i \in pos[c] .. end - 1 : x = Plan(c, chosen)[i]
    BY <1>2
  <2>2. i \in pos[c] .. Beyond(c) - 1 /\ i \in 1 .. Len(Plan(c, chosen))
    BY <1>1, <2>1
  <2> QED
    BY <2>1, <2>2, PlanIsOf
<1> QED
  BY <1>1, <1>2, <1>3, <1>4, <1>5 DEF Store

LEMMA WriteTemplates ==
  ASSUME TypeOK, TypeOK', TemplateInv, NEW c \in Controllers, Write(c)
  PROVE  TemplateInv'
<1>1. Reading(c)
  BY DEF Write
<1>2. PICK new \in SUBSET (Objects[opts] \ {"sa"}) : \E failed \in SUBSET Failing :
        \E end \in pos[c] .. Beyond(c) : Writes(c, new, failed, end)
  BY WriteItems
<1>3. PICK failed \in SUBSET Failing, end \in pos[c] .. Beyond(c) : Writes(c, new, failed, end)
  BY <1>2
<1>4. /\ opts \in Names /\ pos[c] > 0 /\ Beyond(c) \in 1 .. Len(Plan(c, chosen)) + 1
      /\ UNCHANGED opts /\ made' = made \union new /\ shown \subseteq shown'
      /\ spec' = [p \in Parts |-> IF p \in new THEN inst[c] ELSE spec[p]]
      /\ tmpl' = [w \in Workloads |-> IF w \in new THEN inst[c] ELSE tmpl[w]]
      /\ past' = [w \in Workloads |-> IF w \in new \intersect made
                                        THEN past[w] \union {tmpl[w]} ELSE past[w]]
      /\ \A d \in Services \ {c} : status'[d] = status[d]
      /\ \A d \in Controllers \ {c} : pos'[d] = pos[d] /\ inst'[d] = inst[d]
      /\ pos'[c] = 0 \/ inst'[c] = inst[c]
      /\ \A x \in new : /\ x \in Things(c) /\ Due(c, x)
                        /\ \E i \in pos[c] .. Beyond(c) - 1 : x = Plan(c, chosen)[i]
  BY <1>1, <1>3, WritesPass
<1>5. /\ c \in Parts => c \in made
      /\ c # "csp" => Parts \intersect new = {} /\ \A d \in Parts : spec'[d] = spec[d]
      /\ CspWants' = CspWants
  BY <1>4, Ownership DEF TemplateInv, AccountFirst, CspWants, chosen
<1>6. AccountFirst'
  <2>1. Parts \intersect made' # {} => "sa" \in made'
    <3>1. ASSUME NEW x \in Parts \intersect new PROVE "sa" \in made
      <4>1. c = "csp"
        BY <1>5, <3>1
      <4>2. PICK i \in pos["csp"] .. Beyond("csp") - 1 : x = Plan("csp", chosen)[i]
        BY <1>4, <3>1, <4>1
      <4> QED
        BY <1>4, <3>1, <4>1, <4>2, AccountBeforeParts DEF TemplateInv
    <3> QED
      BY <1>4, <3>1 DEF TemplateInv, AccountFirst
  <2>2. \A d \in Parts : pos'[d] > 0 => d \in made'
    BY <1>4, <1>5, PartsControl DEF TemplateInv, AccountFirst
  <2>3. \A d \in Services : status'[d] # Unset => d \in made'
    BY <1>4, <1>5 DEF TemplateInv, AccountFirst, Services, Parts
  <2>4. \A i \in 1 .. pos'["csp"] - 1 : Plan("csp", chosen)[i] = "sa" => "sa" \in made'
    <3>1. \A i \in 1 .. pos["csp"] - 1 : Plan("csp", chosen)[i] = "sa" => "sa" \in made
      BY <1>4, PartsControl, PlanOfIs DEF TemplateInv, AccountFirst
    <3>2. CASE c = "csp"
      <4>1. \/ GoOnFrom(c, Beyond(c), inst[c], Events(c, new))
            \/ Finish(c, Retry(c) \union Events(c, new))
        BY <1>3 DEF Writes
      <4>2. \/ pos'[c] = 0
            \/ /\ pos'[c] \in Beyond(c) .. Len(Plan(c, chosen))
               /\ \A i \in Beyond(c) .. pos'[c] - 1 : Plan(c, chosen)[i] \in shown'
        BY <1>4, <4>1, PassGoesOn, PassEnds
      <4>3. \A i \in pos[c] .. Beyond(c) - 1 : Plan(c, chosen)[i] # "sa"
        BY <1>1, ReadingType, BeyondType DEF Halts
      <4>4. shown' \subseteq made' /\ pos[c] \in Nat /\ Len(Plan(c, chosen)) \in Nat
        <5>1. shown' \subseteq made'
          BY DEF TypeOK
        <5> QED
          BY <1>1, <5>1, ReadingType
      <4>5. ASSUME NEW i \in 1 .. pos'[c] - 1, Plan(c, chosen)[i] = "sa" PROVE "sa" \in made'
        <5>1. CASE i < pos[c]
          BY <1>4, <3>1, <3>2, <4>2, <4>4, <4>5, <5>1
        <5>2. CASE i >= pos[c] /\ i < Beyond(c)
          BY <1>4, <4>2, <4>3, <4>4, <4>5, <5>2
        <5>3. CASE i >= Beyond(c)
          BY <1>4, <4>2, <4>4, <4>5, <5>3
        <5> QED
          BY <1>4, <4>2, <4>4, <5>1, <5>2, <5>3
      <4> QED
        BY <3>2, <4>5
    <3>3. CASE c # "csp"
      BY <1>4, <3>1, <3>3, PartsControl
    <3> QED
      BY <3>2, <3>3
  <2> QED
    BY <1>4, <2>1, <2>2, <2>3, <2>4, AccountFirstKept
<1>7. BlankOnlyFirst'
  <2>1. CASE c = "csp"
    <3>1. {"server", "gateway", "enforcer", "kubeEnforcer"} \subseteq Parts
      BY DEF Parts
    <3> QED
      BY <1>4, <1>5, <2>1, <3>1 DEF TemplateInv, BlankOnlyFirst
  <2>2. CASE c # "csp"
    <3>1. {"server", "gateway", "enforcer", "kubeEnforcer"} \subseteq Parts
      BY DEF Parts
    <3>2. pos'["csp"] = pos["csp"] /\ inst'["csp"] = inst["csp"]
      BY <1>4, <2>2, PartsControl
    <3> QED
      BY <1>5, <2>2, <3>1, <3>2 DEF TemplateInv, BlankOnlyFirst
  <2> QED
    BY <2>1, <2>2
<1>8. \A d \in Parts \intersect new :
        c = "csp" /\ ~inst[c].mtls /\ inst[c].pull \in {CspWants, Unset} /\ d # "scanner"
  BY <1>4, <1>5, Ownership DEF TemplateInv, BlankOnlyFirst
<1>9. SpecsKnown'
  <2> SUFFICES ASSUME NEW d \in DOMAIN Deployment
               PROVE  /\ spec'[d].pull \in {Unset, CspPull, CspWants}
                      /\ spec'[d].mtls => SeesMtls(d, shown')
                      /\ d \notin made' /\ d # "scanner" => spec'[d].pull = Unset
    BY <1>5 DEF SpecsKnown, SeesMtls
  <2>1. /\ spec[d].pull \in {Unset, CspPull, CspWants}
        /\ spec[d].mtls => SeesMtls(d, shown')
        /\ d \notin made /\ d # "scanner" => spec[d].pull = Unset
    BY <1>4 DEF TemplateInv, SpecsKnown, SeesMtls
  <2> QED
    BY <1>4, <1>8, <2>1, PartWorkloads
<1>10. ASSUME NEW d \in DOMAIN Deployment PROVE Climbing(d)'
  <2> DEFINE w == Deployment[d]
  <2>1. w \in Workloads /\ d \in Parts /\ d \in Controllers /\ d # "csp"
    BY PartWorkloads
  <2>2. spec'[d].pull \in MayBecome(d)
    <3>1. CASE d \notin new
      BY <1>4, <2>1, <3>1 DEF MayBecome
    <3>2. CASE d \in new
      <4>1. c = "csp" /\ d # "scanner" /\ spec'[d].pull = inst["csp"].pull
        BY <1>4, <1>8, <2>1, <3>2
      <4>2. CASE inst["csp"].pull = CspWants
        BY <4>1, <4>2 DEF MayBecome
      <4>3. CASE inst["csp"].pull # CspWants
        <5>1. /\ inst["csp"].pull = Unset /\ spec["kubeEnforcer"].pull = Unset
              /\ \A e \in {"server", "gateway", "enforcer"} : spec[e].pull \in {Unset, CspPull}
          BY <1>4, <4>1, <4>3 DEF TemplateInv, BlankOnlyFirst
        <5>2. d \in {"server", "gateway", "enforcer", "kubeEnforcer"}
          BY <4>1, PartWorkloads
        <5> QED
          BY <4>1, <5>1, <5>2 DEF MayBecome
      <4> QED
        BY <4>2, <4>3
    <3> QED
      BY <3>1, <3>2
  <2>3. CASE w \in new
    <3>1. c = d
      BY <1>4, <2>1, <2>3, Ownership, PartWorkloads
    <3>2. Due(c, w) => w \notin made \/ tmpl[w] # inst[c]
      <4>1. w \notin Parts /\ c # "csp"
        BY <2>1, <3>1, PartWorkloads
      <4> QED
        BY <2>1, <4>1 DEF Due
    <3>3. spec'[d] = spec[d] /\ w \in made' /\ tmpl'[w] = inst[c]
          /\ past'[w] = IF w \in made THEN past[w] \union {tmpl[w]} ELSE past[w]
      BY <1>4, <1>5, <2>1, <2>3, <3>1
    <3> QED
      BY <1>4, <1>9, <2>1, <2>3, <3>1, <3>2, <3>3, ClimbingWritten DEF TemplateInv
  <2>4. CASE w \notin new
    <3>1. tmpl'[w] = tmpl[w] /\ past'[w] = past[w] /\ (w \in made' <=> w \in made)
      BY <1>4, <2>1, <2>4
    <3>2. pos'[d] = 0 \/ ((pos'[d] > 0 => pos[d] > 0) /\ inst'[d] = inst[d])
      BY <1>4, <2>1
    <3> QED
      BY <1>4, <1>9, <2>2, <3>1, <3>2, ClimbingKept DEF TemplateInv
  <2> QED
    BY <2>3, <2>4
<1>11. ASSUME NEW w \in {"dbDeployment", "auditDbDeployment"} PROVE past'[w] = {}
  <2>1. w \in Workloads /\ w \notin Parts /\ w \notin {Deployment[d] : d \in DOMAIN Deployment}
    BY PartWorkloads, WorkloadNames
  <2>2. w \in new => w \notin made
    <3>1. w \in new => c = "database" /\ Due(c, w)
      BY <1>4, <2>1, Ownership
    <3> QED
      BY <2>1, <3>1 DEF Due
  <2> QED
    BY <1>4, <2>1, <2>2 DEF TemplateInv
<1> QED
  BY <1>6, <1>7, <1>9, <1>10, <1>11 DEF TemplateInv

LEMMA GateTemplates ==
  ASSUME TypeOK, TypeOK', TemplateInv, Gate
  PROVE  TemplateInv'
<1> DEFINE plan == Plan("csp", chosen)
<1>1. /\ UNCHANGED <<opts, made, shown, spec, tmpl, past, status>> /\ "csp" \in Controllers
      /\ Reading("csp") /\ Item("csp") \in {"waitDb", "gate"}
  BY PartsControl DEF Gate, apiVars, podVars
<1>2. /\ opts \in Names /\ pos["csp"] \in 1 .. Len(plan) /\ Len(plan) \in Nat
      /\ plan[pos["csp"]] # "sa" /\ shown \subseteq made
  <2>1. shown \subseteq made
    BY DEF TypeOK
  <2> QED
    BY <1>1, <2>1, ReadingType
<1>3. GoOnFrom("csp", pos["csp"] + 1, inst["csp"], {}) \/ Finish("csp", {"csp"})
  BY DEF Gate
<1>4. /\ \A d \in Controllers \ {"csp"} : pos'[d] = pos[d] /\ inst'[d] = inst[d]
      /\ \/ pos'["csp"] = 0
         \/ /\ pos'["csp"] \in pos["csp"] + 1 .. Len(plan) /\ inst'["csp"] = inst["csp"]
            /\ \A i \in pos["csp"] + 1 .. pos'["csp"] - 1 : plan[i] \in shown
  <2>1. pos["csp"] + 1 \in 1 .. Len(plan) + 1
    BY <1>2
  <2> HIDE DEF plan
  <2> QED
    BY <1>1, <1>3, <2>1, PassGoesOn, PassEnds DEF plan
<1>5. \A d \in Parts : pos'[d] = pos[d] /\ inst'[d] = inst[d]
  BY <1>4 DEF Parts, Controllers
<1>6. AccountFirst'
  <2>1. \A i \in 1 .. pos["csp"] - 1 : plan[i] = "sa" => "sa" \in made
    BY <1>1, <1>2, PlanOfIs DEF TemplateInv, AccountFirst
  <2>2. ASSUME NEW i \in 1 .. pos'["csp"] - 1, plan[i] = "sa" PROVE "sa" \in made
    <3> HIDE DEF plan
    <3>1. pos'["csp"] \in pos["csp"] + 1 .. Len(plan)
      BY <1>4, <2>2
    <3>2. CASE i < pos["csp"]
      BY <1>2, <2>1, <2>2, <3>1, <3>2
    <3>3. CASE i > pos["csp"]
      BY <1>2, <1>4, <2>2, <3>1, <3>3
    <3> QED
      BY <1>2, <2>2, <3>1, <3>2, <3>3
  <2> QED
    BY <1>1, <1>2, <1>5, <2>2, AccountFirstKept DEF TemplateInv, AccountFirst
<1>7. BlankOnlyFirst'
  <2>1. CspWants' = CspWants
    BY <1>1 DEF CspWants, chosen
  <2> QED
    BY <1>1, <1>2, <1>4, <2>1 DEF TemplateInv, BlankOnlyFirst
<1>8. SpecsKnown'
  BY <1>1, SpecsKnownKept DEF TemplateInv
<1>9. \A d \in DOMAIN Deployment : Climbing(d)'
  BY <1>1, <1>5, <1>8, ClimbingLeft
<1> QED
  BY <1>1, <1>6, <1>7, <1>8, <1>9 DEF TemplateInv

LEMMA EnvironmentTemplates ==
  ASSUME TypeOK, TypeOK', TemplateInv, Deliver \/ StartPods \/ AddScanner \/ Restart
  PROVE  TemplateInv'
<1>1. UNCHANGED <<opts, spec, tmpl, past, status>> /\ opts \in Names
  BY DEF Deliver, StartPods, AddScanner, Restart, apiVars, podVars, TypeOK
<1>2. /\ made' = made \/ (made' = made \union {"scanner"} /\ status["server"] = "Running")
      /\ shown \subseteq shown'
  <2>1. CASE Deliver
    BY <2>1 DEF Deliver
  <2>2. CASE StartPods
    BY <2>2 DEF StartPods, apiVars
  <2>3. CASE AddScanner
    BY <2>3 DEF AddScanner
  <2>4. CASE Restart
    BY <2>4 DEF Restart, TypeOK
  <2> QED
    BY <2>1, <2>2, <2>3, <2>4
<1>3. (UNCHANGED <<pos, inst>>) \/ \A c \in Controllers : pos'[c] = 0
  BY DEF Deliver, StartPods, AddScanner, Restart
<1>4. AccountFirst'
  <2>1. Parts \intersect made' # {} => "sa" \in made'
    <3>1. CASE made' = made
      BY <3>1 DEF TemplateInv, AccountFirst
    <3>2. CASE made' = made \union {"scanner"} /\ status["server"] = "Running"
      <4>1. "server" \in made
        BY <3>2, UnsetIs DEF TemplateInv, AccountFirst, Services
      <4> QED
        BY <3>2, <4>1 DEF TemplateInv, AccountFirst, Parts
    <3> QED
      BY <1>2, <3>1, <3>2
  <2>2. \A i \in 1 .. pos'["csp"] - 1 : Plan("csp", chosen)[i] = "sa" => "sa" \in made'
    <3>1. \A i \in 1 .. pos["csp"] - 1 : Plan("csp", chosen)[i] = "sa" => "sa" \in made
      BY <1>1, PartsControl, PlanOfIs DEF TemplateInv, AccountFirst
    <3> QED
      BY <1>2, <1>3, <3>1, PartsControl
  <2>3. \A c \in Parts : pos'[c] > 0 => c \in made'
    BY <1>2, <1>3, PartsControl DEF TemplateInv, AccountFirst
  <2>4. \A c \in Services : status'[c] # Unset => c \in made'
    BY <1>1, <1>2 DEF TemplateInv, AccountFirst
  <2> QED
    BY <1>1, <2>1, <2>2, <2>3, <2>4, AccountFirstKept
<1>5. BlankOnlyFirst'
  <2>1. CspWants' = CspWants
    BY <1>1 DEF CspWants, chosen
  <2> QED
    BY <1>1, <1>3, <2>1, PartsControl DEF TemplateInv, BlankOnlyFirst
<1>6. SpecsKnown'
  BY <1>1, <1>2, SpecsKnownKept DEF TemplateInv
<1>7. \A c \in DOMAIN Deployment : Climbing(c)'
  <2>1. (made' \ made) \intersect Workloads = {} /\ made \subseteq made'
    BY <1>2, WorkloadNames
  <2>2. \A c \in Parts : pos'[c] = 0 \/ ((pos'[c] > 0 => pos[c] > 0) /\ inst'[c] = inst[c])
    BY <1>3, PartsControl
  <2> QED
    BY <1>1, <1>2, <1>6, <2>1, <2>2, ClimbingLeft
<1> QED
  BY <1>1, <1>4, <1>5, <1>6, <1>7 DEF TemplateInv

LEMMA InitTemplates == Init => TemplateInv
<1> SUFFICES ASSUME Init PROVE TemplateInv
  OBVIOUS
<1>1. TypeOK
  BY InitType
<1>2. /\ \A c \in Parts : c \notin made
      /\ \A w \in Workloads : w \notin made
  <2>1. {MtlsSecret[c] : c \in DOMAIN MtlsSecret}
          = {"grpcWeb", "grpcGateway", "grpcEnforcer", "grpcKubeEnforcer"}
    <3>1. DOMAIN MtlsSecret = {"server", "gateway", "enforcer", "kubeEnforcer"}
      BY DEF MtlsSecret
    <3>2. {MtlsSecret[c] : c \in {"server", "gateway", "enforcer", "kubeEnforcer"}}
            = {"grpcWeb", "grpcGateway", "grpcEnforcer", "grpcKubeEnforcer"}
      BY DEF MtlsSecret
    <3> QED
      BY <3>1, <3>2, Zenon
  <2>2. made \subseteq {"ownSecret", "grpcWeb", "grpcGateway", "grpcEnforcer", "grpcKubeEnforcer"}
    BY <2>1 DEF Init, Users
  <2> QED
    BY <2>2, WorkloadNames DEF Parts
<1>3. /\ pos = [c \in Controllers |-> 0] /\ past = [w \in Workloads |-> {}]
      /\ \A c \in Services : status[c] = Unset
  <2>1. status = [c \in Services |-> Unset]
    BY Zenon DEF Init, Unset
  <2> QED
    BY <2>1 DEF Init
<1>4. \A c \in Controllers : pos[c] = 0
  BY <1>3
<1>5. \A c \in DOMAIN Deployment : /\ ~spec[c].mtls
                                   /\ spec[c].pull = Unset \/ (c = "scanner" /\ spec[c].pull = CspWants)
  <2>1. spec = [c \in Parts |-> IF c = "scanner" /\ chosen.named
                                  THEN [Blank EXCEPT !.pull = "ownSecret"] ELSE Blank]
    BY DEF Init
  <2>2. /\ Blank.pull = Unset /\ Blank.mtls = FALSE
        /\ [Blank EXCEPT !.pull = "ownSecret"].pull = "ownSecret"
        /\ [Blank EXCEPT !.pull = "ownSecret"].mtls = FALSE
    BY UnsetIs
  <2> QED
    BY <2>1, <2>2, PartWorkloads DEF CspWants
<1>6. AccountFirst
  BY <1>2, <1>3, <1>4, PartsControl DEF AccountFirst
<1>7. BlankOnlyFirst
  BY <1>4, PartsControl DEF BlankOnlyFirst
<1>8. SpecsKnown
  BY <1>5 DEF SpecsKnown
<1>9. ASSUME NEW c \in DOMAIN Deployment PROVE Climbing(c)
  <2>1. Deployment[c] \in Workloads /\ c \in Controllers
    BY PartWorkloads
  <2>2. Deployment[c] \notin made /\ past[Deployment[c]] = {} /\ pos[c] = 0
    BY <1>2, <1>3, <1>4, <2>1
  <2> QED
    BY <2>2 DEF Climbing
<1>10. \A w \in {"dbDeployment", "auditDbDeployment"} : past[w] = {}
  BY <1>3, WorkloadNames
<1> QED
  BY <1>6, <1>7, <1>8, <1>9, <1>10 DEF TemplateInv

\* For every installation, whatever lags or fails: the settings written in a workload's
\* template only climb, from no pull secret over the defaults to the one the user names,
\* and to mutual TLS; so do those in the resources of the parts and in their passes.
THEOREM TemplatesClimb == Spec => []TemplateInv
<1>1. TypeOK /\ TypeOK' /\ TemplateInv /\ [Next]_vars => TemplateInv'
  <2> SUFFICES ASSUME TypeOK, TypeOK', TemplateInv, [Next]_vars PROVE TemplateInv'
    OBVIOUS
  <2>1. ASSUME NEW c \in Controllers, Reconcile(c) PROVE TemplateInv'
    BY <2>1, BeginTemplates, AccountTemplates, WriteTemplates, GateTemplates DEF Reconcile
  <2>2. CASE UNCHANGED vars
    <3>1. UNCHANGED <<opts, made, shown, spec, tmpl, past, status, pos, inst>>
      BY <2>2 DEF vars, apiVars, podVars, passVars
    <3>2. SpecsKnown'
      BY <3>1, SpecsKnownKept DEF TemplateInv
    <3>3. \A c \in DOMAIN Deployment : Climbing(c)'
      BY <3>1, <3>2, ClimbingLeft
    <3>4. AccountFirst' /\ BlankOnlyFirst'
      BY <3>1 DEF TemplateInv, AccountFirst, BlankOnlyFirst, PlanOf, CspWants, chosen
    <3> QED
      BY <3>1, <3>2, <3>3, <3>4 DEF TemplateInv
  <2> QED
    BY <2>1, <2>2, EnvironmentTemplates DEF Next
<1> QED
  BY <1>1, InitTemplates, TypeCorrect, PTL DEF Spec

\* For every installation, whatever lags or fails and however often the operator restarts:
\* no pod template that was replaced comes back, though the KhulnasoftCsp and the parts'
\* controllers write the same specs in turn.
THEOREM TemplatesDoNotReturn == Spec => []NoTemplateReturns
<1>1. TemplateInv => NoTemplateReturns
  <2> SUFFICES ASSUME TemplateInv, NEW w \in Workloads PROVE tmpl[w] \notin past[w]
    BY DEF NoTemplateReturns
  <2>1. CASE w \in {"dbDeployment", "auditDbDeployment"}
    BY <2>1 DEF TemplateInv
  <2>2. CASE \E c \in DOMAIN Deployment : w = Deployment[c]
    BY <2>2 DEF TemplateInv, Climbing
  <2> QED
    BY <2>1, <2>2 DEF Workloads, DatabaseWorkloads
<1> QED
  BY <1>1, TemplatesClimb, PTL

-----------------------------------------------------------------------------
(* The pull secret the user names. *)

\* What stands, a step keeps that changes no more than the account's side of it.
LEMMA LinksKept ==
  ASSUME NamedStands, PassNamed', UNCHANGED tmpl,
         "database" \in made' => "database" \in made /\ spec'["database"] = spec["database"],
         made' \intersect {"dbDeployment", "auditDbDeployment"} \subseteq made
  PROVE  NamedStands'
BY DEF NamedStands

LEMMA PassEndNamed ==
  ASSUME TypeOK, PassNamed, NEW c \in Controllers, NEW events, Finish(c, events)
  PROVE  PassNamed'
<1>1. pos' = [pos EXCEPT ![c] = 0] /\ inst' = [inst EXCEPT ![c] = Blank]
  BY DEF Finish
<1>2. DOMAIN pos = Controllers /\ DOMAIN inst = Controllers
  BY DEF TypeOK
<1> QED
  BY <1>1, <1>2 DEF PassNamed

\* A pass that goes on by the named secret, the other bearer's being none or named too.
LEMMA GoOnNamed ==
  ASSUME TypeOK, NEW c \in Controllers, NEW from, NEW by, NEW events,
         \A d \in Bearers \ {c} : pos[d] > 0 => inst[d].pull = "ownSecret",
         GoOnFrom(c, from, by, events), c \in Bearers => by.pull = "ownSecret"
  PROVE  PassNamed'
<1>1. DOMAIN pos = Controllers /\ DOMAIN inst = Controllers /\ Bearers \subseteq Controllers
  BY DEF TypeOK, Bearers, Controllers, Parts
<1>2. \/ pos' = [pos EXCEPT ![c] = 0] /\ inst' = [inst EXCEPT ![c] = Blank]
      \/ \E stop : pos' = [pos EXCEPT ![c] = stop] /\ inst' = [inst EXCEPT ![c] = by]
  BY DEF GoOnFrom, Finish
<1> QED
  BY <1>1, <1>2 DEF PassNamed

LEMMA BeginNamed ==
  ASSUME TypeOK, NamedStands, chosen.named, NEW c \in Controllers, Begin(c)
  PROVE  NamedStands'
<1>1. UNCHANGED <<made, tmpl>>
  BY DEF Begin, podVars
<1>2. PassNamed /\ ("database" \in made => spec["database"].pull = "ownSecret")
  BY DEF NamedStands
<1>3. spec'["database"] = spec["database"]
  <2>1. UNCHANGED spec \/ (c \in Storing /\ spec' = [spec EXCEPT ![c] = Updated(c)])
    BY Zenon DEF Begin
  <2>2. (c \in Storing => c # "database") /\ "database" \in Parts
    BY DEF Storing, Parts
  <2>3. DOMAIN spec = Parts
    BY DEF TypeOK
  <2> QED
    BY <2>1, <2>2, <2>3
<1>4. c \in Bearers => InMemory(c).pull = "ownSecret"
  <2>1. InMemory("csp").pull = "ownSecret"
    BY DEF InMemory
  <2>2. ASSUME c = "database" PROVE InMemory("database").pull = "ownSecret"
    <3>1. "database" \in made
      BY <2>2 DEF Begin
    <3>2. InMemory("database").pull = Fill(spec["database"].pull)
      BY DEF InMemory
    <3> QED
      BY <1>2, <3>1, <3>2 DEF Fill
  <2> QED
    BY <2>1, <2>2 DEF Bearers
<1>5. PassNamed'
  <2>1. DOMAIN pos = Controllers /\ DOMAIN inst = Controllers
    BY DEF TypeOK
  <2>2. inst' = [inst EXCEPT ![c] = InMemory(c)] /\ \E from : pos' = [pos EXCEPT ![c] = from]
    BY DEF Begin
  <2> QED
    BY <1>2, <1>4, <2>1, <2>2 DEF PassNamed
<1> QED
  BY <1>1, <1>3, <1>5, LinksKept

\* The step in which the account is given the named secret: the pass that makes it goes on
\* by that secret, and nothing that comes after it is there yet.
LEMMA AccountGetsNamed ==
  ASSUME TypeOK, AccountFirst, NamedInv, NEW c \in Controllers, Reading(c), "sa" \notin made,
         NEW events, NEW pull, pull = "ownSecret",
         GoOnFrom(c, pos[c] + 1, [inst[c] EXCEPT !.pull = pull], events),
         UNCHANGED tmpl, made' = made \union {"sa"}
  PROVE  NamedStands'
<1>1. Parts \intersect made = {} /\ "database" \in Parts
  BY DEF AccountFirst, Parts
<1>2. \A d \in Parts : ~(pos[d] > 0)
  BY <1>1 DEF AccountFirst
<1>3. c \notin Parts /\ "database" \notin made
  BY <1>1, <1>2 DEF Reading
<1>4. \A d \in Bearers \ {c} : ~(pos[d] > 0)
  <2>1. c = "csp"
    BY <1>3 DEF Controllers
  <2> QED
    BY <1>1, <1>2, <2>1 DEF Bearers
<1>5. [inst[c] EXCEPT !.pull = pull].pull = "ownSecret"
  BY ReadingType DEF Setting
<1>6. PassNamed'
  BY <1>4, <1>5, GoOnNamed
<1>7. made \intersect {"dbDeployment", "auditDbDeployment"} = {}
  BY <1>3 DEF NamedInv
<1> QED
  BY <1>3, <1>6, <1>7 DEF NamedStands

LEMMA AccountNamed ==
  ASSUME TypeOK, AccountFirst, NamedInv, chosen.named, NEW c \in Controllers, CreateAccount(c),
         sa'.pull = "ownSecret"
  PROVE  NamedStands'
<1>1. UNCHANGED <<spec, tmpl>> /\ Reading(c)
  BY DEF CreateAccount, podVars
<1> DEFINE pull == KeepShown(inst[c].pull)
<1>2. \/ /\ "sa" \notin made /\ made' = made \union {"sa"}
         /\ sa' = [owner |-> c, pull |-> pull]
         /\ \E events : GoOnFrom(c, pos[c] + 1, [inst[c] EXCEPT !.pull = pull], events)
      \/ (\E events : Finish(c, events)) /\ UNCHANGED <<made, sa>>
  BY Zenon DEF CreateAccount
<1>3. CASE /\ "sa" \notin made /\ made' = made \union {"sa"}
           /\ sa' = [owner |-> c, pull |-> pull]
           /\ \E events : GoOnFrom(c, pos[c] + 1, [inst[c] EXCEPT !.pull = pull], events)
  <2> HIDE DEF pull
  <2>1. pull = "ownSecret"
    BY <1>3
  <2> QED
    BY <1>1, <1>3, <2>1, AccountGetsNamed
<1>4. CASE (\E events : Finish(c, events)) /\ UNCHANGED <<made, sa>>
  <2>1. NamedStands /\ PassNamed
    BY <1>4 DEF NamedInv, NamedStands
  <2> QED
    BY <1>1, <1>4, <2>1, PassEndNamed, LinksKept
<1> QED
  BY <1>2, <1>3, <1>4

LEMMA WriteNamed ==
  ASSUME TypeOK, NamedStands, NEW c \in Controllers, Write(c)
  PROVE  NamedStands'
<1>1. PICK new \in SUBSET (Objects[opts] \ {"sa"}) :
        /\ new \intersect Foreign(c) = {}
        /\ Store(c, new)
        /\ \/ GoOnFrom(c, Beyond(c), inst[c], Events(c, new))
           \/ Finish(c, Retry(c) \union Events(c, new))
  BY WriteEffect
<1>2. /\ PassNamed
      /\ "database" \in made => spec["database"].pull = "ownSecret"
      /\ \A w \in made \intersect {"dbDeployment", "auditDbDeployment"} : tmpl[w].pull = "ownSecret"
  BY DEF NamedStands
<1>3. c \in Bearers => inst[c].pull = "ownSecret"
  BY <1>2 DEF PassNamed, Write, Reading
<1>4. PassNamed'
  <2>1. \A d \in Bearers \ {c} : pos[d] > 0 => inst[d].pull = "ownSecret"
    BY <1>2 DEF PassNamed
  <2> QED
    BY <1>1, <1>2, <1>3, <2>1, GoOnNamed, PassEndNamed
<1>5. /\ made' = made \union new
      /\ spec' = [p \in Parts |-> IF p \in new THEN inst[c] ELSE spec[p]]
      /\ tmpl' = [w \in Workloads |-> IF w \in new THEN inst[c] ELSE tmpl[w]]
  BY <1>1 DEF Store
<1>6. "database" \in Parts /\ {"dbDeployment", "auditDbDeployment"} \subseteq Workloads
  BY WorkloadNames DEF Parts
<1>7. "database" \in new => c = "csp"
  BY <1>1, <1>6, ForeignIs
<1>8. ASSUME NEW w \in new \intersect {"dbDeployment", "auditDbDeployment"} PROVE c = "database"
  BY <1>1, <1>6, <1>8, ForeignIs
<1>9. "database" \in made' => spec'["database"].pull = "ownSecret"
  BY <1>2, <1>3, <1>5, <1>6, <1>7 DEF Bearers
<1>10. \A w \in made' \intersect {"dbDeployment", "auditDbDeployment"} : tmpl'[w].pull = "ownSecret"
  BY <1>2, <1>3, <1>5, <1>6, <1>8 DEF Bearers
<1> QED
  BY <1>4, <1>9, <1>10 DEF NamedStands

LEMMA GateNamed ==
  ASSUME TypeOK, NamedStands, Gate
  PROVE  NamedStands'
<1>1. UNCHANGED <<made, spec, tmpl>> /\ "csp" \in Controllers
  BY PartsControl DEF Gate, apiVars, podVars
<1>2. PassNamed
  BY DEF NamedStands
<1>3. inst["csp"].pull = "ownSecret"
  BY <1>2 DEF Gate, Reading, PassNamed, Bearers
<1>4. GoOnFrom("csp", pos["csp"] + 1, inst["csp"], {}) \/ Finish("csp", {"csp"})
  BY DEF Gate
<1>5. \A d \in Bearers \ {"csp"} : pos[d] > 0 => inst[d].pull = "ownSecret"
  BY <1>2 DEF PassNamed
<1>6. PassNamed'
  BY <1>1, <1>2, <1>3, <1>4, <1>5, GoOnNamed, PassEndNamed
<1> QED
  BY <1>1, <1>6, LinksKept

LEMMA EnvironmentNamed ==
  ASSUME TypeOK, NamedStands, Deliver \/ StartPods \/ AddScanner \/ Restart
  PROVE  NamedStands'
<1>1. UNCHANGED <<spec, tmpl>>
  BY DEF Deliver, StartPods, AddScanner, Restart, apiVars, podVars
<1>2. PassNamed
  BY DEF NamedStands
<1>3. made' \subseteq made \union {"scanner"}
  BY DEF Deliver, StartPods, AddScanner, Restart, apiVars
<1>4. PassNamed'
  <2>1. CASE Restart
    BY <2>1, PartsControl DEF Restart, PassNamed, Bearers, Parts
  <2>2. CASE UNCHANGED <<pos, inst>>
    BY <1>2, <2>2 DEF PassNamed
  <2> QED
    BY <2>1, <2>2 DEF Deliver, StartPods, AddScanner
<1> QED
  BY <1>1, <1>3, <1>4, LinksKept

\* The database's workloads come after its resource: only its own passes make them.
LEMMA DatabaseFirstKept ==
  ASSUME TypeOK, AccountFirst, NamedInv, NEW c \in Controllers, Reconcile(c)
  PROVE  /\ made' \intersect {"dbDeployment", "auditDbDeployment"} # {} => "database" \in made'
         /\ UNCHANGED opts
<1>1. CASE Begin(c) \/ Gate
  BY <1>1 DEF Begin, Gate, apiVars, NamedInv
<1>2. CASE CreateAccount(c)
  <2>1. UNCHANGED opts /\ (made' = made \union {"sa"} \/ UNCHANGED made)
    BY <1>2, Zenon DEF CreateAccount
  <2> QED
    BY <2>1 DEF NamedInv
<1>3. CASE Write(c)
  <2>1. PICK new : new \intersect Foreign(c) = {} /\ Store(c, new) /\ UNCHANGED opts
    BY <1>3, WriteEffect
  <2>2. made' = made \union new
    BY <2>1 DEF Store
  <2>3. new \intersect {"dbDeployment", "auditDbDeployment"} # {} => c = "database"
    BY <2>1, WorkloadNames, ForeignIs
  <2>4. c = "database" => "database" \in made
    BY <1>3, PartsControl DEF Write, Reading, AccountFirst, Parts
  <2> QED
    BY <2>1, <2>2, <2>3, <2>4 DEF NamedInv
<1> QED
  BY <1>1, <1>2, <1>3 DEF Reconcile

LEMMA InitNamed == Init => NamedInv
<1> SUFFICES ASSUME Init PROVE NamedInv
  OBVIOUS
<1>1. sa.pull = ""
  BY DEF Init
<1>2. made \intersect {"dbDeployment", "auditDbDeployment"} = {}
  <2>1. Users = {"ownSecret"} \union
                  {MtlsSecret[c] : c \in {"server", "gateway", "enforcer", "kubeEnforcer"}}
    BY Zenon DEF Users, MtlsSecret
  <2>2. {MtlsSecret[c] : c \in {"server", "gateway", "enforcer", "kubeEnforcer"}}
          = {"grpcWeb", "grpcGateway", "grpcEnforcer", "grpcKubeEnforcer"}
    BY DEF MtlsSecret
  <2>3. made \subseteq {"ownSecret"} \union Users
    BY DEF Init
  <2> QED
    BY <2>1, <2>2, <2>3
<1> QED
  BY <1>1, <1>2 DEF NamedInv

\* For every installation, whatever lags or fails and however often the operator restarts:
\* if the account carries the secret the user named, so do the pods of the database.  The
\* account step alone may drop the name, and what it kept is not lost between the
\* KhulnasoftCsp, the resource it makes, the defaults of two controllers and the templates.
THEOREM DroppedWithAccount == Spec => []DroppedOnlyWithAccount
<1>1. TypeOK /\ TemplateInv /\ NamedInv /\ [Next]_vars => NamedInv'
  <2> SUFFICES ASSUME TypeOK, TemplateInv, NamedInv, [Next]_vars PROVE NamedInv'
    OBVIOUS
  <2>1. AccountFirst
    BY DEF TemplateInv
  <2>2. CASE UNCHANGED vars
    <3>1. UNCHANGED <<opts, made, spec, sa, tmpl, pos, inst>>
      BY <2>2 DEF vars, apiVars, podVars, passVars
    <3> QED
      BY <3>1, Zenon DEF NamedInv, NamedStands, PassNamed, chosen
  <2>3. ASSUME NEW c \in Controllers, Reconcile(c) PROVE NamedInv'
    <3>1. /\ made' \intersect {"dbDeployment", "auditDbDeployment"} # {} => "database" \in made'
          /\ UNCHANGED opts
      BY <2>1, <2>3, DatabaseFirstKept
    <3>2. ASSUME chosen.named, sa'.pull = "ownSecret" PROVE NamedStands'
      <4>1. CASE CreateAccount(c)
        BY <2>1, <3>2, <4>1, AccountNamed
      <4>2. CASE Begin(c) \/ Write(c) \/ Gate
        <5>1. UNCHANGED sa
          BY <4>2 DEF Begin, Write, Gate, apiVars
        <5>2. NamedStands
          BY <3>2, <5>1 DEF NamedInv
        <5> QED
          BY <3>2, <4>2, <5>2, BeginNamed, WriteNamed, GateNamed
      <4> QED
        BY <2>3, <4>1, <4>2 DEF Reconcile
    <3> QED
      BY <3>1, <3>2 DEF NamedInv, chosen
  <2>4. CASE Deliver \/ StartPods \/ AddScanner \/ Restart
    <3>1. UNCHANGED <<opts, sa>> /\ made' \subseteq made \union {"scanner"} /\ made \subseteq made'
      BY <2>4 DEF Deliver, StartPods, AddScanner, Restart, apiVars
    <3>2. chosen.named /\ sa'.pull = "ownSecret" => NamedStands'
      BY <2>4, <3>1, EnvironmentNamed DEF NamedInv
    <3> QED
      BY <3>1, <3>2 DEF NamedInv, chosen
  <2> QED
    BY <2>2, <2>3, <2>4 DEF Next
<1>2. NamedInv => DroppedOnlyWithAccount
  BY DEF NamedInv, NamedStands, DroppedOnlyWithAccount, DatabaseWorkloads
<1> QED
  BY <1>1, <1>2, InitNamed, TypeCorrect, TemplatesClimb, PTL DEF Spec
=============================================================================
