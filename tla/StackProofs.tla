----------------------------- MODULE StackProofs -----------------------------
(* What holds of all controllers together, for every installation and every *)
(* choice of what lags and what fails.                                      *)
EXTENDS Stack, SequenceTheorems, WellFoundedInduction, TLAPS

\* The least of some naturals.
LEMMA MinIsLeast ==
  ASSUME NEW S \in SUBSET Nat, S # {}
  PROVE  Min(S) \in S /\ \A n \in S : Min(S) <= n
<1>1. \E m \in S : \A n \in S : ~(<<n, m>> \in OpToRel(<, Nat))
  BY NatLessThanWellFounded, WFMin
<1>2. PICK m \in S : \A n \in S : ~(n < m)
  BY <1>1 DEF OpToRel
<1>3. \A n \in S : m <= n
  BY <1>2
<1> QED
  BY <1>3 DEF Min

-----------------------------------------------------------------------------
(* The plans. *)

LEMMA WorkloadNames ==
  Workloads = {"dbDeployment", "auditDbDeployment", "serverDeployment", "gatewayDeployment",
               "enforcerDaemonSet", "keDeployment", "scannerDeployment"}
<1>1. DOMAIN Deployment = {"server", "gateway", "enforcer", "kubeEnforcer", "scanner"}
  BY DEF Deployment
<1>2. {Deployment[c] : c \in {"server", "gateway", "enforcer", "kubeEnforcer", "scanner"}}
        = {"serverDeployment", "gatewayDeployment", "enforcerDaemonSet", "keDeployment",
           "scannerDeployment"}
  BY DEF Deployment
<1> QED
  BY <1>1, <1>2, Zenon DEF Workloads

LEMMA WhenSeq ==
  ASSUME NEW S, NEW s \in Seq(S), NEW b
  PROVE  When(b, s) \in Seq(S)
BY DEF When

LEMMA ConcatSeq ==
  ASSUME NEW S, NEW s \in Seq(S), NEW t \in Seq(S)
  PROVE  s \o t \in Seq(S) /\ Range(s) \union Range(t) \subseteq Range(s \o t)
<1>1. /\ s \o t \in Seq(S) /\ DOMAIN (s \o t) = 1 .. Len(s) + Len(t)
      /\ \A i \in 1 .. Len(s) + Len(t) : (s \o t)[i] = IF i <= Len(s) THEN s[i] ELSE t[i - Len(s)]
      /\ Len(s) \in Nat /\ DOMAIN s = 1 .. Len(s) /\ Len(t) \in Nat /\ DOMAIN t = 1 .. Len(t)
  BY ConcatProperties, LenProperties
<1>2. ASSUME NEW i \in DOMAIN s PROVE s[i] \in Range(s \o t)
  BY <1>1 DEF Range
<1>3. ASSUME NEW i \in DOMAIN t PROVE t[i] \in Range(s \o t)
  <2>1. Len(s) + i \in 1 .. Len(s) + Len(t) /\ (s \o t)[Len(s) + i] = t[i]
    BY <1>1
  <2> QED
    BY <1>1, <2>1 DEF Range
<1> QED
  BY <1>1, <1>2, <1>3 DEF Range

LEMMA RbacSeq ==
  ASSUME NEW S, {"sa", "readerBinding", "discoveryRole", "discoveryBinding"} \subseteq S, NEW o
  PROVE  Rbac(o) \in Seq(S)
<1>1. /\ <<"sa">> \in Seq(S) /\ <<"readerBinding">> \in Seq(S)
      /\ <<"discoveryRole", "discoveryBinding">> \in Seq(S)
  OBVIOUS
<1>2. When(o.openshift, <<"readerBinding">>) \in Seq(S)
  BY <1>1, WhenSeq
<1> QED
  BY <1>1, <1>2, ConcatSeq DEF Rbac

\* What each plan is a list of, and one thing in it that is always to be looked at.
CspThings ==
  {"sa", "readerBinding", "discoveryRole", "discoveryBinding", "ownSecret", "registrySecret",
   "dbSecret", "auditSecret", "database", "waitDb", "server", "gateway", "gate", "enforcer",
   "kubeEnforcer"}

LEMMA CspPlanSeq ==
  ASSUME NEW o
  PROVE  CspPlan(o) \in Seq(CspThings) /\ "server" \in Range(CspPlan(o))
<1> DEFINE s1 == When(o.registry, <<IF o.named THEN "ownSecret" ELSE "registrySecret">>)
           s3 == <<"dbSecret">>
           s4 == IF o.external THEN When(o.split, <<"auditSecret">>) ELSE <<"database", "waitDb">>
           s5 == <<"server", "gateway", "gate">>
           s6 == When("enforcer" \in o.kids, <<"enforcer">>)
           s7 == When("kubeEnforcer" \in o.kids, <<"kubeEnforcer">>)
<1>1. /\ <<IF o.named THEN "ownSecret" ELSE "registrySecret">> \in Seq(CspThings)
      /\ <<"dbSecret">> \in Seq(CspThings)
      /\ <<"auditSecret">> \in Seq(CspThings)
      /\ <<"database", "waitDb">> \in Seq(CspThings)
      /\ <<"server", "gateway", "gate">> \in Seq(CspThings)
      /\ <<"enforcer">> \in Seq(CspThings)
      /\ <<"kubeEnforcer">> \in Seq(CspThings)
  BY DEF CspThings
<1>2. /\ s1 \in Seq(CspThings) /\ s3 \in Seq(CspThings) /\ s4 \in Seq(CspThings)
      /\ s5 \in Seq(CspThings) /\ s6 \in Seq(CspThings) /\ s7 \in Seq(CspThings)
      /\ Rbac(o) \in Seq(CspThings)
  BY <1>1, WhenSeq, RbacSeq DEF CspThings
<1>3. "server" \in Range(s5)
  BY DEF Range
<1> HIDE DEF s1, s3, s4, s5, s6, s7
<1>4. s1 \o Rbac(o) \o s3 \o s4 \in Seq(CspThings)
  BY <1>2, ConcatSeq
<1>5. /\ s1 \o Rbac(o) \o s3 \o s4 \o s5 \o s6 \o s7 \in Seq(CspThings)
      /\ "server" \in Range(s1 \o Rbac(o) \o s3 \o s4 \o s5 \o s6 \o s7)
  BY <1>2, <1>3, <1>4, ConcatSeq
<1> QED
  BY <1>5 DEF CspPlan, s1, s3, s4, s5, s6, s7

\* The database's.
DatabaseThings ==
  {"sa", "dbPvc", "dbDeployment", "dbService", "auditSecret", "auditPvc", "auditDbService",
   "auditDbDeployment"}

LEMMA DatabasePlanSeq ==
  ASSUME NEW o
  PROVE  DatabasePlan(o) \in Seq(DatabaseThings) /\ "dbDeployment" \in Range(DatabasePlan(o))
<1> DEFINE s1 == <<"sa", "dbPvc", "dbDeployment", "dbService">>
           s2 == When(o.split, <<"auditSecret", "auditPvc", "auditDbService", "auditDbDeployment">>)
<1>1. /\ <<"sa", "dbPvc", "dbDeployment", "dbService">> \in Seq(DatabaseThings)
      /\ <<"auditSecret", "auditPvc", "auditDbService", "auditDbDeployment">>
           \in Seq(DatabaseThings)
  BY DEF DatabaseThings
<1>2. s1 \in Seq(DatabaseThings) /\ s2 \in Seq(DatabaseThings)
  BY <1>1, WhenSeq
<1>3. "dbDeployment" \in Range(s1)
  BY DEF Range
<1> HIDE DEF s1, s2
<1>4. s1 \o s2 \in Seq(DatabaseThings) /\ "dbDeployment" \in Range(s1 \o s2)
  BY <1>2, <1>3, ConcatSeq
<1> QED
  BY <1>4 DEF DatabasePlan, s1, s2

\* The server's.
ServerThings ==
  {"sa", "readerBinding", "discoveryRole", "discoveryBinding", "pending", "serverService",
   "adminSecret", "licenseSecret", "enforcerToken", "serverConfig", "serverDeployment",
   "serverRoute"}

LEMMA ServerPlanSeq ==
  ASSUME NEW o
  PROVE  ServerPlan(o) \in Seq(ServerThings) /\ "serverDeployment" \in Range(ServerPlan(o))
<1> DEFINE s2 == <<"pending", "serverService">>
           s3 == When(o.logins, <<"adminSecret", "licenseSecret">>)
           s4 == When("enforcer" \in o.kids, <<"enforcerToken">>)
           s5 == <<"serverConfig", "serverDeployment">>
           s6 == When(o.openshift, <<"serverRoute">>)
<1>1. /\ <<"pending", "serverService">> \in Seq(ServerThings)
      /\ <<"adminSecret", "licenseSecret">> \in Seq(ServerThings)
      /\ <<"enforcerToken">> \in Seq(ServerThings)
      /\ <<"serverConfig", "serverDeployment">> \in Seq(ServerThings)
      /\ <<"serverRoute">> \in Seq(ServerThings)
  BY DEF ServerThings
<1>2. /\ s2 \in Seq(ServerThings) /\ s3 \in Seq(ServerThings) /\ s4 \in Seq(ServerThings)
      /\ s5 \in Seq(ServerThings) /\ s6 \in Seq(ServerThings)
      /\ Rbac(o) \in Seq(ServerThings)
  BY <1>1, WhenSeq, RbacSeq DEF ServerThings
<1>3. "serverDeployment" \in Range(s5)
  BY DEF Range
<1> HIDE DEF s2, s3, s4, s5, s6
<1>4. Rbac(o) \o s2 \o s3 \o s4 \in Seq(ServerThings)
  BY <1>2, ConcatSeq
<1>5. /\ Rbac(o) \o s2 \o s3 \o s4 \o s5 \o s6 \in Seq(ServerThings)
      /\ "serverDeployment" \in Range(Rbac(o) \o s2 \o s3 \o s4 \o s5 \o s6)
  BY <1>2, <1>3, <1>4, ConcatSeq
<1> QED
  BY <1>5 DEF ServerPlan, s2, s3, s4, s5, s6

\* The gateway's.
GatewayThings ==
  {"sa", "readerBinding", "discoveryRole", "discoveryBinding", "pending", "gatewayService",
   "gatewayDeployment", "gatewayRoute"}

LEMMA GatewayPlanSeq ==
  ASSUME NEW o
  PROVE  GatewayPlan(o) \in Seq(GatewayThings) /\ "gatewayDeployment" \in Range(GatewayPlan(o))
<1> DEFINE s2 == <<"pending", "gatewayService", "gatewayDeployment">>
           s3 == When(o.openshift, <<"gatewayRoute">>)
<1>1. /\ <<"pending", "gatewayService", "gatewayDeployment">> \in Seq(GatewayThings)
      /\ <<"gatewayRoute">> \in Seq(GatewayThings)
  BY DEF GatewayThings
<1>2. s2 \in Seq(GatewayThings) /\ s3 \in Seq(GatewayThings)
      /\ Rbac(o) \in Seq(GatewayThings)
  BY <1>1, WhenSeq, RbacSeq DEF GatewayThings
<1>3. "gatewayDeployment" \in Range(s2)
  BY DEF Range
<1> HIDE DEF s2, s3
<1>4. Rbac(o) \in Seq(GatewayThings)
  BY <1>2
<1>5. /\ Rbac(o) \o s2 \o s3 \in Seq(GatewayThings)
      /\ "gatewayDeployment" \in Range(Rbac(o) \o s2 \o s3)
  BY <1>2, <1>3, <1>4, ConcatSeq
<1> QED
  BY <1>5 DEF GatewayPlan, s2, s3

\* The enforcer's.
EnforcerThings ==
  {"sa", "readerBinding", "discoveryRole", "discoveryBinding", "enforcerConfig",
   "enforcerDaemonSet"}

LEMMA EnforcerPlanSeq ==
  ASSUME NEW o
  PROVE  EnforcerPlan(o) \in Seq(EnforcerThings) /\ "enforcerDaemonSet" \in Range(EnforcerPlan(o))
<1> DEFINE s2 == <<"enforcerConfig", "enforcerDaemonSet">>
<1>1. <<"enforcerConfig", "enforcerDaemonSet">> \in Seq(EnforcerThings)
  BY DEF EnforcerThings
<1>2. s2 \in Seq(EnforcerThings)
      /\ Rbac(o) \in Seq(EnforcerThings)
  BY <1>1, WhenSeq, RbacSeq DEF EnforcerThings
<1>3. "enforcerDaemonSet" \in Range(s2)
  BY DEF Range
<1> HIDE DEF s2
<1>4. Rbac(o) \in Seq(EnforcerThings)
  BY <1>2
<1>5. Rbac(o) \o s2 \in Seq(EnforcerThings) /\ "enforcerDaemonSet" \in Range(Rbac(o) \o s2)
  BY <1>2, <1>3, <1>4, ConcatSeq
<1> QED
  BY <1>5 DEF EnforcerPlan, s2

\* The scanner's.
ScannerThings ==
  {"sa", "readerBinding", "discoveryRole", "discoveryBinding", "scannerSecret",
   "scannerConfig", "scannerDeployment"}

LEMMA ScannerPlanSeq ==
  ASSUME NEW o
  PROVE  ScannerPlan(o) \in Seq(ScannerThings) /\ "scannerDeployment" \in Range(ScannerPlan(o))
<1> DEFINE s2 == <<"scannerSecret", "scannerConfig", "scannerDeployment">>
<1>1. <<"scannerSecret", "scannerConfig", "scannerDeployment">> \in Seq(ScannerThings)
  BY DEF ScannerThings
<1>2. s2 \in Seq(ScannerThings)
      /\ Rbac(o) \in Seq(ScannerThings)
  BY <1>1, WhenSeq, RbacSeq DEF ScannerThings
<1>3. "scannerDeployment" \in Range(s2)
  BY DEF Range
<1> HIDE DEF s2
<1>4. Rbac(o) \in Seq(ScannerThings)
  BY <1>2
<1>5. Rbac(o) \o s2 \in Seq(ScannerThings) /\ "scannerDeployment" \in Range(Rbac(o) \o s2)
  BY <1>2, <1>3, <1>4, ConcatSeq
<1> QED
  BY <1>5 DEF ScannerPlan, s2

\* The kube-enforcer's.
KubeEnforcerThings ==
  {"keRole", "keSa", "keReaderBinding", "keBinding", "keNsRole", "keNsBinding",
   "validatingWebhook", "mutatingWebhook", "keConfig", "keToken", "keCerts", "keService",
   "keDeployment", "starboard"}

LEMMA KubeEnforcerPlanSeq ==
  ASSUME NEW o
  PROVE  /\ KubeEnforcerPlan(o) \in Seq(KubeEnforcerThings)
         /\ "keDeployment" \in Range(KubeEnforcerPlan(o))
<1> DEFINE s1 == When(o.openshift, <<"keReaderBinding">>)
           s2 == <<"keBinding", "keNsRole", "keNsBinding">>
           s3 == <<"keDeployment", "starboard">>
<1>1. /\ <<"keRole", "keSa">> \in Seq(KubeEnforcerThings)
      /\ <<"keReaderBinding">> \in Seq(KubeEnforcerThings)
      /\ s2 \in Seq(KubeEnforcerThings) /\ s3 \in Seq(KubeEnforcerThings)
  BY DEF KubeEnforcerThings
<1>2. KeWebhooks \in Seq(KubeEnforcerThings) /\ KeData \in Seq(KubeEnforcerThings)
  BY DEF KubeEnforcerThings, KeWebhooks, KeData
<1>3. s1 \in Seq(KubeEnforcerThings)
  BY <1>1, WhenSeq
<1>4. "keDeployment" \in Range(s3)
  BY DEF Range
<1> HIDE DEF s1, s2, s3
<1>5. <<"keRole", "keSa">> \o s1 \o s2 \in Seq(KubeEnforcerThings)
  BY <1>1, <1>3, ConcatSeq
<1>6. KeRbac(o) \in Seq(KubeEnforcerThings)
  BY <1>5 DEF KeRbac, s1, s2
<1>7. KeRbac(o) \o KeWebhooks \o KeData \in Seq(KubeEnforcerThings)
  BY <1>2, <1>6, ConcatSeq
<1>8. /\ KeRbac(o) \o KeWebhooks \o KeData \o s3 \in Seq(KubeEnforcerThings)
      /\ "keDeployment" \in Range(KeRbac(o) \o KeWebhooks \o KeData \o s3)
  BY <1>1, <1>4, <1>7, ConcatSeq
<1> QED
  BY <1>8 DEF KubeEnforcerPlan, s3

\* What a plan is made of: only the KhulnasoftCsp's has resources of parts, only the
\* database's has the workloads of the database, and each has something in it that is
\* never passed over.
Foreign(c) ==
  CASE c = "csp"      -> Workloads
    [] c = "database" -> Parts
    [] OTHER          -> Parts \union {"dbDeployment", "auditDbDeployment"}

LEMMA ForeignIs ==
  /\ Foreign("csp") = Workloads /\ Foreign("database") = Parts
  /\ \A c \in Controllers \ {"csp", "database"} :
       Foreign(c) = Parts \union {"dbDeployment", "auditDbDeployment"}
BY DEF Foreign

LEMMA PlanItems ==
  ASSUME NEW c \in Controllers, NEW o
  PROVE  /\ Len(Plan(c, o)) \in Nat /\ DOMAIN Plan(c, o) = 1 .. Len(Plan(c, o))
         /\ \A i \in 1 .. Len(Plan(c, o)) : Plan(c, o)[i] \notin Foreign(c)
         /\ \E i \in 1 .. Len(Plan(c, o)) : Plan(c, o)[i] \in Parts \union Workloads
<1>0. ASSUME NEW S, NEW s \in Seq(S), NEW F, S \intersect F = {},
             NEW x \in Range(s), x \in Parts \union Workloads
      PROVE  /\ Len(s) \in Nat /\ DOMAIN s = 1 .. Len(s)
             /\ \A i \in 1 .. Len(s) : s[i] \notin F
             /\ \E i \in 1 .. Len(s) : s[i] \in Parts \union Workloads
  BY <1>0, LenProperties, ElementOfSeq DEF Range
<1>1. CASE c = "csp"
  <2>1. CspThings \intersect Workloads = {} /\ "server" \in Parts
    BY WorkloadNames DEF CspThings, Parts
  <2>2. Plan("csp", o) = CspPlan(o)
    BY DEF Plan
  <2> QED
    BY <1>0, <1>1, <2>1, <2>2, CspPlanSeq, ForeignIs
<1>2. CASE c = "database"
  <2>1. DatabaseThings \intersect Parts = {} /\ "dbDeployment" \in Workloads
    BY WorkloadNames DEF DatabaseThings, Parts
  <2>2. Plan("database", o) = DatabasePlan(o)
    BY DEF Plan
  <2> QED
    BY <1>0, <1>2, <2>1, <2>2, DatabasePlanSeq, ForeignIs
<1>3. CASE c = "server"
  <2>1. ServerThings \intersect Foreign("server") = {} /\ "serverDeployment" \in Workloads
    BY ForeignIs, WorkloadNames DEF ServerThings, Parts, Controllers
  <2>2. Plan("server", o) = ServerPlan(o)
    BY DEF Plan
  <2> QED
    BY <1>0, <1>3, <2>1, <2>2, ServerPlanSeq
<1>4. CASE c = "gateway"
  <2>1. GatewayThings \intersect Foreign("gateway") = {} /\ "gatewayDeployment" \in Workloads
    BY ForeignIs, WorkloadNames DEF GatewayThings, Parts, Controllers
  <2>2. Plan("gateway", o) = GatewayPlan(o)
    BY DEF Plan
  <2> QED
    BY <1>0, <1>4, <2>1, <2>2, GatewayPlanSeq
<1>5. CASE c = "enforcer"
  <2>1. EnforcerThings \intersect Foreign("enforcer") = {} /\ "enforcerDaemonSet" \in Workloads
    BY ForeignIs, WorkloadNames DEF EnforcerThings, Parts, Controllers
  <2>2. Plan("enforcer", o) = EnforcerPlan(o)
    BY DEF Plan
  <2> QED
    BY <1>0, <1>5, <2>1, <2>2, EnforcerPlanSeq
<1>6. CASE c = "kubeEnforcer"
  <2>1. KubeEnforcerThings \intersect Foreign("kubeEnforcer") = {} /\ "keDeployment" \in Workloads
    BY ForeignIs, WorkloadNames DEF KubeEnforcerThings, Parts, Controllers
  <2>2. Plan("kubeEnforcer", o) = KubeEnforcerPlan(o)
    BY DEF Plan
  <2> QED
    BY <1>0, <1>6, <2>1, <2>2, KubeEnforcerPlanSeq
<1>7. CASE c = "scanner"
  <2>1. ScannerThings \intersect Foreign("scanner") = {} /\ "scannerDeployment" \in Workloads
    BY ForeignIs, WorkloadNames DEF ScannerThings, Parts, Controllers
  <2>2. Plan("scanner", o) = ScannerPlan(o)
    BY DEF Plan
  <2> QED
    BY <1>0, <1>7, <2>1, <2>2, ScannerPlanSeq
<1> QED
  BY <1>1, <1>2, <1>3, <1>4, <1>5, <1>6, <1>7 DEF Controllers, Parts

-----------------------------------------------------------------------------
(* Types. *)

\* The types of what a pass keeps.
PassType ==
  /\ inst \in [Controllers -> Setting] /\ queued \subseteq Controllers
  /\ DOMAIN pos = Controllers /\ \A c \in Controllers : pos[c] \in 0 .. Len(Plan(c, chosen))

\* A ServiceAccount that exists has been made by one of the controllers.
OwnerInv == "sa" \in made => sa.owner \in Controllers

LEMMA PlanOfIs ==
  ASSUME opts \in Names, NEW c \in Controllers
  PROVE  /\ PlanOf(c) = Plan(c, chosen) /\ Last(c) = Len(Plan(c, chosen))
         /\ Len(Plan(c, chosen)) \in Nat
<1>1. PlanOf(c) = Plan(c, chosen)
  BY Zenon DEF PlanOf, Plans, chosen
<1>2. Len(Plan(c, chosen)) \in Nat
  BY PlanItems
<1> QED
  BY <1>1, <1>2 DEF Last

\* Where a pass goes on from an item: not before it, and at first not past the end.
LEMMA NextStopType ==
  ASSUME opts \in Names, NEW c \in Controllers,
         NEW from \in 1 .. Len(Plan(c, chosen)) + 1, NEW there
  PROVE  /\ NextStop(c, from, there) \in from .. Len(Plan(c, chosen)) + 1
         /\ from = 1 => NextStop(c, from, there) \in 1 .. Len(Plan(c, chosen))
<1> DEFINE L == Len(Plan(c, chosen))
           Stops == {i \in from .. L : ~(/\ Plan(c, chosen)[i] \in there
                                          /\ Plan(c, chosen)[i] \in Plain)}
                    \union {L + 1}
<1>1. L \in Nat
  BY PlanItems
<1>2. NextStop(c, from, there) = Min(Stops)
  BY PlanOfIs DEF NextStop
<1>3. Stops \in SUBSET Nat /\ Stops # {}
  BY <1>1
<1>4. Min(Stops) \in Stops /\ \A n \in Stops : Min(Stops) <= n
  BY <1>3, MinIsLeast
<1>5. from = 1 => \E i \in Stops : i <= L
  <2>1. PICK i \in 1 .. L : Plan(c, chosen)[i] \in Parts \union Workloads
    BY PlanItems
  <2>2. Plan(c, chosen)[i] \notin Plain
    BY <2>1 DEF Plain
  <2> QED
    BY <1>1, <2>1, <2>2
<1>6. Min(Stops) \in from .. L + 1
  BY <1>1, <1>4
<1>7. from = 1 => Min(Stops) \in 1 .. L
  BY <1>1, <1>3, <1>4, <1>5
<1> QED
  BY <1>2, <1>6, <1>7

\* The item after those a pass writes in one go, and those before it.
LEMMA BeyondType ==
  ASSUME opts \in Names, NEW c \in Controllers, pos[c] \in 1 .. Len(Plan(c, chosen))
  PROVE  /\ Beyond(c) \in 1 .. Len(Plan(c, chosen)) + 1 /\ pos[c] <= Beyond(c)
         /\ Beyond(c) <= Len(Plan(c, chosen)) => Plan(c, chosen)[Beyond(c)] \in Halts
         /\ \A i \in pos[c] .. Beyond(c) - 1 :
              i \in 1 .. Len(Plan(c, chosen)) /\ Plan(c, chosen)[i] \notin Halts
<1> DEFINE L == Len(Plan(c, chosen))
           Stops == {i \in pos[c] .. L : Plan(c, chosen)[i] \in Halts} \union {L + 1}
<1>1. L \in Nat
  BY PlanItems
<1>2. Beyond(c) = Min(Stops)
  BY PlanOfIs DEF Beyond
<1>3. Stops \in SUBSET Nat /\ Stops # {}
  BY <1>1
<1>4. Min(Stops) \in Stops /\ \A n \in Stops : Min(Stops) <= n
  BY <1>3, MinIsLeast
<1>5. /\ Min(Stops) \in 1 .. L + 1 /\ pos[c] <= Min(Stops)
      /\ Min(Stops) <= L => Plan(c, chosen)[Min(Stops)] \in Halts
  BY <1>1, <1>4
<1>6. ASSUME NEW i \in pos[c] .. Min(Stops) - 1
      PROVE  i \in 1 .. L /\ Plan(c, chosen)[i] \notin Halts
  <2>1. i \in pos[c] .. L /\ ~(Min(Stops) <= i)
    BY <1>1, <1>5
  <2>2. i \notin Stops
    BY <1>4, <2>1
  <2> QED
    BY <1>1, <2>1, <2>2
<1> QED
  BY <1>2, <1>5, <1>6

LEMMA FinishType ==
  ASSUME TypeOK, opts' = opts, NEW c \in Controllers, NEW events \in SUBSET Controllers,
         Finish(c, events)
  PROVE  PassType'
<1>1. Blank \in Setting
  BY DEF Blank, Setting, PullSecret
<1>2. Len(Plan(c, chosen)) \in Nat
  BY PlanItems
<1>3. /\ inst' = [inst EXCEPT ![c] = Blank] /\ pos' = [pos EXCEPT ![c] = 0]
      /\ queued' = queued \union events
  BY DEF Finish
<1>4. inst' \in [Controllers -> Setting] /\ queued' \subseteq Controllers
  BY <1>1, <1>3 DEF TypeOK
<1>5. DOMAIN pos' = Controllers /\ \A d \in Controllers : pos'[d] \in 0 .. Len(Plan(d, chosen))
  <2>1. DOMAIN pos = Controllers /\ \A d \in Controllers : pos[d] \in 0 .. Len(Plan(d, chosen))
    BY DEF TypeOK
  <2>2. \A d \in Controllers : pos'[d] = IF d = c THEN 0 ELSE pos[d]
    BY <1>3, <2>1
  <2>3. DOMAIN pos' = Controllers
    BY <1>3, <2>1
  <2> QED
    BY <1>2, <2>1, <2>2, <2>3
<1> QED
  BY <1>4, <1>5 DEF PassType, chosen

LEMMA GoOnType ==
  ASSUME TypeOK, opts' = opts, NEW c \in Controllers, NEW from \in 1 .. Len(Plan(c, chosen)) + 1,
         NEW by \in Setting, NEW events \in SUBSET Controllers, GoOnFrom(c, from, by, events)
  PROVE  PassType'
<1> DEFINE stop == NextStop(c, from, shown')
<1>1. opts \in Names
  BY DEF TypeOK
<1>2. stop \in 1 .. Len(Plan(c, chosen)) + 1 /\ Len(Plan(c, chosen)) \in Nat
  BY <1>1, NextStopType, PlanOfIs
<1>3. CASE stop > Last(c)
  <2>1. Finish(c, events \union (IF c = "csp" /\ chosen.kids # {} THEN {c} ELSE {}))
    BY <1>3 DEF GoOnFrom
  <2> QED
    BY <2>1, FinishType
<1>4. CASE ~(stop > Last(c))
  <2>1. stop \in 0 .. Len(Plan(c, chosen))
    BY <1>1, <1>2, <1>4, PlanOfIs
  <2>2. /\ pos' = [pos EXCEPT ![c] = stop] /\ inst' = [inst EXCEPT ![c] = by]
        /\ queued' = queued \union events
    BY <1>4 DEF GoOnFrom
  <2> HIDE DEF stop
  <2> QED
    BY <2>1, <2>2 DEF TypeOK, PassType, chosen
<1> QED
  BY <1>3, <1>4

LEMMA PullTypes ==
  /\ Blank \in Setting /\ CspPull \in PullSecret
  /\ \A p \in PullSecret : Fill(p) \in PullSecret /\ KeepShown(p) \in PullSecret
BY DEF Blank, Setting, PullSecret, CspPull, Fill, KeepShown

LEMMA SettingTypes ==
  ASSUME TypeOK
  PROVE  /\ \A c \in Parts : Updated(c) \in Setting
         /\ \A c \in Controllers : InMemory(c) \in Setting
<1>1. ASSUME NEW c \in Parts PROVE Updated(c) \in Setting
  <2>1. spec[c].pull \in PullSecret /\ spec[c].mtls \in BOOLEAN
    BY DEF TypeOK, Setting
  <2>2. Updated(c).pull \in PullSecret
    BY <2>1, PullTypes DEF Updated, Services
  <2>3. (spec[c].mtls \/ (c \in DOMAIN MtlsSecret /\ MtlsSecret[c] \in shown)) \in BOOLEAN
    OBVIOUS
  <2> QED
    BY <2>2, <2>3 DEF Updated, Setting
<1>2. ASSUME NEW c \in Controllers PROVE InMemory(c) \in Setting
  <2>1. CASE c = "csp"
    BY <2>1 DEF InMemory, Setting, PullSecret, CspPull
  <2>2. CASE c = "database"
    <3>1. Fill(spec["database"].pull) \in PullSecret
      BY PullTypes DEF TypeOK, Setting, Parts
    <3> QED
      BY <2>2, <3>1 DEF InMemory, Setting
  <2>3. CASE c \notin {"csp", "database"}
    <3>1. c \in Parts
      BY <2>3 DEF Controllers
    <3>2. InMemory(c) = Updated(c) \/ InMemory(c) = [Updated(c) EXCEPT !.pull = "keRegistrySecret"]
      BY <2>3 DEF InMemory
    <3> QED
      BY <1>1, <3>1, <3>2 DEF Setting, PullSecret
  <2> QED
    BY <2>1, <2>2, <2>3
<1> QED
  BY <1>1, <1>2

\* What a pass makes is in its plan.
LEMMA ItemMade ==
  ASSUME TypeOK, NEW c \in Controllers, NEW i \in 1 .. Len(Plan(c, chosen)),
         Plan(c, chosen)[i] \notin {"waitDb", "gate", "pending"}
  PROVE  Plan(c, chosen)[i] \in Objects[opts]
<1>1. Plan(c, chosen)[i] \in ObjectsOf(c, chosen)
  BY PlanItems DEF ObjectsOf
<1>2. opts \in Names
  BY DEF TypeOK
<1>3. ObjectsOf(c, Choice[opts]) \subseteq Objects[opts]
  BY <1>2 DEF Objects
<1> QED
  BY <1>1, <1>3 DEF chosen

\* A pass that reads is within its plan.
LEMMA ReadingType ==
  ASSUME TypeOK, NEW c \in Controllers, Reading(c)
  PROVE  /\ opts \in Names /\ pos[c] \in 1 .. Len(Plan(c, chosen)) /\ Len(Plan(c, chosen)) \in Nat
         /\ Item(c) = Plan(c, chosen)[pos[c]] /\ inst[c] \in Setting
<1>1. opts \in Names /\ pos[c] \in 0 .. Len(Plan(c, chosen)) /\ inst[c] \in Setting
  BY DEF TypeOK
<1> QED
  BY <1>1, PlanOfIs DEF Reading, Item

\* The step in which a pass writes: some new objects of its plan and no account, all from
\* the settings the pass goes by, and the pass goes on or ends.
LEMMA WriteEffect ==
  ASSUME TypeOK, NEW c \in Controllers, Write(c)
  PROVE  \E new \in SUBSET (Objects[opts] \ {"sa"}) :
           /\ new \intersect Foreign(c) = {}
           /\ Store(c, new) /\ \E read : SetStatus(c, read)
           /\ \/ GoOnFrom(c, Beyond(c), inst[c], Events(c, new))
              \/ Finish(c, Retry(c) \union Events(c, new))
           /\ Fault \/ UNCHANGED faults
           /\ UNCHANGED <<opts, sa>>
<1>1. Reading(c)
  BY DEF Write
<1>2. /\ opts \in Names /\ pos[c] \in 1 .. Len(Plan(c, chosen)) /\ PlanOf(c) = Plan(c, chosen)
  BY <1>1, ReadingType, PlanOfIs
<1> DEFINE plan    == PlanOf(c)
           due     == {i \in pos[c] .. Beyond(c) - 1 : Due(c, plan[i])}
           refused == {i \in due : plan[i] \in made \ shown}
           drops   == Dropping[opts] \ shown
           fatal(failed) == {i \in failed \union refused : plan[i] \notin drops}
           end(failed) == Min(fatal(failed) \union {Beyond(c)})
           new(failed) == {plan[i] : i \in {j \in due \ (failed \union refused) : j < end(failed)}}
           read(failed) == {plan[i] : i \in (pos[c] .. end(failed) - 1) \ due}
<1>3. \E failed :
        /\ IF failed = {} THEN UNCHANGED faults ELSE Fault
        /\ Store(c, new(failed))
        /\ SetStatus(c, read(failed))
        /\ IF fatal(failed) = {} THEN GoOnFrom(c, Beyond(c), inst[c], Events(c, new(failed)))
                                 ELSE Finish(c, Retry(c) \union Events(c, new(failed)))
        /\ UNCHANGED <<opts, sa>>
  BY DEF Write
<1>4. ASSUME NEW failed PROVE new(failed) \in SUBSET (Objects[opts] \ {"sa"})
                              /\ new(failed) \intersect Foreign(c) = {}
  <2> SUFFICES ASSUME NEW i \in pos[c] .. Beyond(c) - 1, Due(c, Plan(c, chosen)[i])
               PROVE  /\ Plan(c, chosen)[i] \in Objects[opts] \ {"sa"}
                      /\ Plan(c, chosen)[i] \notin Foreign(c)
    BY <1>2
  <2>1. i \in 1 .. Len(Plan(c, chosen)) /\ Plan(c, chosen)[i] \notin Halts
    BY <1>2, BeyondType
  <2>2. ~Due(c, "pending")
    BY WorkloadNames DEF Due, Parts
  <2>3. Plan(c, chosen)[i] \in Objects[opts]
    BY <2>1, <2>2, ItemMade DEF Halts
  <2> QED
    BY <2>1, <2>3, PlanItems DEF Halts
<1> HIDE DEF new, read, fatal
<1> QED
  BY <1>3, <1>4

LEMMA StatusType ==
  ASSUME TypeOK, NEW c \in Controllers, NEW read, SetStatus(c, read)
  PROVE  status' \in [Services -> {"", "Pending", "Running", "UpdateInProgress"}]
<1>1. CASE c \in Services
  <2>1. status[c] \in {"", "Pending", "Running", "UpdateInProgress"}
    BY <1>1 DEF TypeOK
  <2>2. Marked(c) \in {"", "Pending", "Running", "UpdateInProgress"}
    BY <2>1 DEF Marked
  <2>3. Report(c) \in {"", "Pending", "Running", "UpdateInProgress"}
    BY <2>2 DEF Report
  <2>4. status' = [status EXCEPT ![c] = IF Deployment[c] \in read THEN Report(c) ELSE Marked(c)]
    BY <1>1 DEF SetStatus
  <2> QED
    BY <2>2, <2>3, <2>4 DEF TypeOK
<1>2. CASE c \notin Services
  BY <1>2 DEF SetStatus, TypeOK
<1> QED
  BY <1>1, <1>2

LEMMA FaultType ==
  ASSUME TypeOK, opts' = opts, Fault \/ UNCHANGED faults
  PROVE  faults' \in 0 .. MaxFaults[opts]
<1>1. MaxFaults[opts] \in Nat /\ faults \in 0 .. MaxFaults[opts]
  BY StackAssumption DEF TypeOK
<1>2. faults' = faults \/ (faults < MaxFaults[opts] /\ faults' = faults + 1)
  BY DEF Fault
<1> QED
  BY <1>1, <1>2

LEMMA PartsControl ==
  /\ Parts \subseteq Controllers /\ "csp" \in Controllers
  /\ \A w \in Workloads : PartOf[w] \in Controllers
<1>1. Parts \subseteq Controllers /\ "csp" \in Controllers /\ "database" \in Parts
  BY DEF Controllers, Parts
<1>2. DOMAIN Deployment \subseteq Parts
  BY DEF Deployment, Parts
<1>3. ASSUME NEW w \in Workloads PROVE PartOf[w] \in Parts
  <2>1. CASE \E c \in DOMAIN Deployment : Deployment[c] = w
    BY <1>2, <2>1 DEF PartOf
  <2>2. CASE ~\E c \in DOMAIN Deployment : Deployment[c] = w
    BY <1>1, <2>2 DEF PartOf
  <2> QED
    BY <2>1, <2>2
<1> QED
  BY <1>1, <1>3

\* The parts of TypeOK, for the steps that leave the choice alone.
LEMMA TypeParts ==
  ASSUME TypeOK, opts' = opts,
         shown' \subseteq made', made' \subseteq Objects[opts],
         spec' \in [Parts -> Setting],
         tmpl' \in [Workloads -> Setting], past' \in [Workloads -> SUBSET Setting],
         sa' \in [owner : Controllers \union {"none"}, pull : PullSecret],
         up' \subseteq made' \intersect Workloads,
         status' \in [Services -> {"", "Pending", "Running", "UpdateInProgress"}],
         PassType', faults' \in 0 .. MaxFaults[opts]
  PROVE  TypeOK'
<1>1. Objects' = Objects
  BY DEF Objects
<1>2. opts \in Names
  BY DEF TypeOK
<1> QED
  BY <1>1, <1>2 DEF TypeOK, PassType

LEMMA BeginType ==
  ASSUME TypeOK, OwnerInv, NEW c \in Controllers, Begin(c)
  PROVE  TypeOK' /\ OwnerInv'
<1>1. UNCHANGED <<opts, made, shown, sa, tmpl, past, up, status>>
  BY DEF Begin, podVars
<1>2. faults' \in 0 .. MaxFaults[opts]
  BY <1>1, FaultType DEF Begin
<1>3. spec' \in [Parts -> Setting]
  <2>1. UNCHANGED spec \/ (c \in Storing /\ spec' = [spec EXCEPT ![c] = Updated(c)])
    BY Zenon DEF Begin
  <2> QED
    BY <2>1, SettingTypes DEF TypeOK, Storing
<1>4. PassType'
  <2>1. opts \in Names /\ Len(Plan(c, chosen)) \in Nat
    BY PlanItems DEF TypeOK
  <2>2. NextStop(c, 1, shown) \in 1 .. Len(Plan(c, chosen))
    BY <2>1, NextStopType
  <2>3. pos' = [pos EXCEPT ![c] = NextStop(c, 1, shown)] /\ inst' = [inst EXCEPT ![c] = InMemory(c)]
    BY DEF Begin
  <2>4. queued' \subseteq Controllers
    BY PartsControl DEF Begin, TypeOK
  <2>5. inst' \in [Controllers -> Setting]
    BY <2>3, SettingTypes DEF TypeOK
  <2>6. DOMAIN pos = Controllers /\ \A d \in Controllers : pos[d] \in 0 .. Len(Plan(d, chosen))
    BY DEF TypeOK
  <2>7. DOMAIN pos' = Controllers
        /\ \A d \in Controllers : pos'[d] = IF d = c THEN NextStop(c, 1, shown) ELSE pos[d]
    BY <2>3, <2>6
  <2>8. \A d \in Controllers : pos'[d] \in 0 .. Len(Plan(d, chosen))
    BY <2>1, <2>2, <2>6, <2>7
  <2> QED
    BY <1>1, <2>4, <2>5, <2>7, <2>8 DEF PassType, chosen
<1>5. TypeOK'
  BY <1>1, <1>2, <1>3, <1>4, TypeParts DEF TypeOK
<1> QED
  BY <1>1, <1>5 DEF OwnerInv

LEMMA AccountType ==
  ASSUME TypeOK, OwnerInv, NEW c \in Controllers, CreateAccount(c)
  PROVE  TypeOK' /\ OwnerInv'
<1> DEFINE pull == KeepShown(inst[c].pull)
<1>1. UNCHANGED <<opts, spec, tmpl, past, up, status>>
  BY DEF CreateAccount, podVars
<1>2. /\ opts \in Names /\ pos[c] \in 1 .. Len(Plan(c, chosen)) /\ Len(Plan(c, chosen)) \in Nat
      /\ Item(c) = "sa" /\ Item(c) = Plan(c, chosen)[pos[c]] /\ inst[c] \in Setting
  BY ReadingType DEF CreateAccount
<1>3. pull \in PullSecret /\ [inst[c] EXCEPT !.pull = pull] \in Setting
  BY <1>2, PullTypes DEF Setting
<1>4. "sa" \in Objects[opts]
  BY <1>2, ItemMade
<1>5. faults' \in 0 .. MaxFaults[opts]
  <2>1. Fault \/ UNCHANGED faults
    BY Zenon DEF CreateAccount
  <2> QED
    BY <1>1, <2>1, FaultType
<1> HIDE DEF pull
<1>6. CASE /\ made' = made \union {"sa"} /\ shown' = shown \union ({"sa"} \ Lagging)
           /\ sa' = [owner |-> c, pull |-> pull]
           /\ GoOnFrom(c, pos[c] + 1, [inst[c] EXCEPT !.pull = pull],
                       IF "sa" \notin Lagging /\ Watches(c, "sa") THEN {c} ELSE {})
  <2>1. pos[c] + 1 \in 1 .. Len(Plan(c, chosen)) + 1
    BY <1>2
  <2>2. (IF "sa" \notin Lagging /\ Watches(c, "sa") THEN {c} ELSE {}) \in SUBSET Controllers
    OBVIOUS
  <2>3. PassType'
    BY <1>1, <1>3, <1>6, <2>1, <2>2, GoOnType
  <2>4. /\ shown' \subseteq made' /\ made' \subseteq Objects[opts]
        /\ up' \subseteq made' \intersect Workloads
        /\ sa' \in [owner : Controllers \union {"none"}, pull : PullSecret]
    BY <1>1, <1>3, <1>4, <1>6 DEF TypeOK
  <2>5. TypeOK'
    BY <1>1, <1>5, <2>3, <2>4, TypeParts DEF TypeOK
  <2> QED
    BY <1>6, <2>5 DEF OwnerInv
<1>7. CASE Finish(c, Retry(c)) /\ UNCHANGED <<made, shown, sa>>
  <2>1. PassType'
    BY <1>1, <1>7, FinishType DEF Retry
  <2>2. TypeOK'
    BY <1>1, <1>5, <1>7, <2>1, TypeParts DEF TypeOK
  <2> QED
    BY <1>7, <2>2 DEF OwnerInv
<1> QED
  BY <1>6, <1>7, Zenon DEF CreateAccount, pull

LEMMA WriteType ==
  ASSUME TypeOK, OwnerInv, NEW c \in Controllers, Write(c)
  PROVE  TypeOK' /\ OwnerInv'
<1>1. PICK new \in SUBSET (Objects[opts] \ {"sa"}) :
        /\ Store(c, new) /\ \E read : SetStatus(c, read)
        /\ \/ GoOnFrom(c, Beyond(c), inst[c], Events(c, new))
           \/ Finish(c, Retry(c) \union Events(c, new))
        /\ Fault \/ UNCHANGED faults
        /\ UNCHANGED <<opts, sa>>
  BY WriteEffect
<1>2. /\ opts \in Names /\ pos[c] \in 1 .. Len(Plan(c, chosen)) /\ inst[c] \in Setting
  BY ReadingType DEF Write
<1>3. /\ shown' \subseteq made' /\ made' \subseteq Objects[opts]
      /\ up' \subseteq made' \intersect Workloads
      /\ "sa" \in made' => "sa" \in made
  BY <1>1 DEF TypeOK, Store
<1>4. /\ spec' \in [Parts -> Setting] /\ tmpl' \in [Workloads -> Setting]
      /\ past' \in [Workloads -> SUBSET Setting]
  <2>1. spec' \in [Parts -> Setting]
    BY <1>1, <1>2 DEF TypeOK, Store
  <2>2. tmpl' \in [Workloads -> Setting]
    BY <1>1, <1>2 DEF TypeOK, Store
  <2>3. \A w \in Workloads :
          (IF w \in new \intersect made THEN past[w] \union {tmpl[w]} ELSE past[w])
            \in SUBSET Setting
    BY DEF TypeOK
  <2>4. past' \in [Workloads -> SUBSET Setting]
    BY <1>1, <2>3 DEF Store
  <2> QED
    BY <2>1, <2>2, <2>4
<1>5. Events(c, new) \in SUBSET Controllers /\ Retry(c) \union Events(c, new) \in SUBSET Controllers
  BY PartsControl DEF Events, Retry
<1>6. PassType'
  BY <1>1, <1>2, <1>5, GoOnType, FinishType, BeyondType
<1>7. faults' \in 0 .. MaxFaults[opts]
  BY <1>1, FaultType
<1>8. status' \in [Services -> {"", "Pending", "Running", "UpdateInProgress"}]
  BY <1>1, StatusType
<1>9. TypeOK'
  BY <1>1, <1>3, <1>4, <1>6, <1>7, <1>8, TypeParts DEF TypeOK
<1> QED
  BY <1>1, <1>3, <1>9 DEF OwnerInv

LEMMA GateType ==
  ASSUME TypeOK, OwnerInv, Gate
  PROVE  TypeOK' /\ OwnerInv'
<1>1. UNCHANGED <<opts, made, shown, spec, sa, tmpl, past, up, status, faults>>
  BY DEF Gate, apiVars, podVars
<1>2. "csp" \in Controllers
  BY PartsControl
<1>3. /\ opts \in Names /\ pos["csp"] \in 1 .. Len(Plan("csp", chosen)) /\ inst["csp"] \in Setting
      /\ Len(Plan("csp", chosen)) \in Nat
  BY <1>2, ReadingType DEF Gate
<1>4. pos["csp"] + 1 \in 1 .. Len(Plan("csp", chosen)) + 1
  BY <1>3
<1>5. GoOnFrom("csp", pos["csp"] + 1, inst["csp"], {}) \/ Finish("csp", {"csp"})
  BY DEF Gate
<1>6. PassType'
  BY <1>1, <1>2, <1>3, <1>4, <1>5, GoOnType, FinishType
<1>7. TypeOK'
  BY <1>1, <1>6, TypeParts DEF TypeOK
<1> QED
  BY <1>1, <1>7 DEF OwnerInv

LEMMA EnvironmentType ==
  ASSUME TypeOK, OwnerInv, Deliver \/ StartPods \/ AddScanner \/ Restart
  PROVE  TypeOK' /\ OwnerInv'
<1>0. /\ UNCHANGED <<opts, spec, sa, tmpl, past, status>>
      /\ opts \in Names /\ DOMAIN pos = Controllers
      /\ \A c \in Controllers : pos[c] \in 0 .. Len(Plan(c, chosen)) /\ Len(Plan(c, chosen)) \in Nat
  BY PlanItems DEF Deliver, StartPods, AddScanner, Restart, apiVars, podVars, TypeOK
<1>1. CASE Deliver
  <2>1. PICK object \in made \ shown :
          /\ shown' = shown \union {object}
          /\ queued' = queued \union
               (IF object \in Users /\ ~chosen.registry THEN {}
                ELSE {c \in OwnerOf(object) : Watches(c, object)})
    BY <1>1 DEF Deliver
  <2>2. OwnerOf(object) \subseteq Controllers
    BY DEF OwnerOf, OwnerInv
  <2>3. UNCHANGED <<made, up, pos, inst, faults>>
    BY <1>1 DEF Deliver, podVars
  <2>4. PassType'
    BY <1>0, <2>1, <2>2, <2>3 DEF PassType, TypeOK, chosen
  <2>5. TypeOK'
    BY <1>0, <2>1, <2>3, <2>4, TypeParts DEF TypeOK
  <2> QED
    BY <1>0, <2>3, <2>5 DEF OwnerInv
<1>2. CASE StartPods
  <2>1. PICK w \in (made \intersect Workloads) \ up :
          up' = up \union {w} /\ queued' = queued \union {PartOf[w]}
    BY <1>2 DEF StartPods
  <2>2. UNCHANGED <<made, shown, pos, inst, faults>>
    BY <1>2 DEF StartPods, apiVars
  <2>3. queued' \subseteq Controllers
    BY <2>1, PartsControl DEF TypeOK
  <2>4. PassType'
    BY <1>0, <2>2, <2>3, Zenon DEF PassType, TypeOK, chosen
  <2>5. TypeOK'
    BY <1>0, <2>1, <2>2, <2>4, TypeParts DEF TypeOK
  <2> QED
    BY <1>0, <2>2, <2>5 DEF OwnerInv
<1>3. CASE AddScanner
  <2>1. /\ made' = made \union {"scanner"} /\ shown' = shown \union {"scanner"}
        /\ queued' = queued \union {"scanner"} /\ UNCHANGED <<up, pos, inst, faults>>
    BY <1>3 DEF AddScanner, podVars
  <2>2. "scanner" \in Controllers /\ "scanner" \in Objects[opts] /\ "scanner" # "sa"
    BY <1>0 DEF Objects, Controllers, Parts
  <2>3. PassType'
    BY <1>0, <2>1, <2>2 DEF PassType, TypeOK, chosen
  <2>4. TypeOK'
    BY <1>0, <2>1, <2>2, <2>3, TypeParts DEF TypeOK
  <2> QED
    BY <1>0, <2>1, <2>2, <2>4 DEF OwnerInv
<1>4. CASE Restart
  <2>1. /\ shown' = made /\ UNCHANGED <<made, up>>
        /\ pos' = [c \in Controllers |-> 0] /\ inst' = [c \in Controllers |-> Blank]
        /\ queued' = {"csp"} \union (made \intersect Parts)
    BY <1>4 DEF Restart, podVars
  <2>2. faults' \in 0 .. MaxFaults[opts]
    BY <1>0, <1>4, FaultType DEF Restart
  <2>3. PassType'
    BY <1>0, <2>1, PartsControl, PullTypes DEF PassType, chosen
  <2>4. TypeOK'
    BY <1>0, <2>1, <2>2, <2>3, TypeParts DEF TypeOK
  <2> QED
    BY <1>0, <2>1, <2>4 DEF OwnerInv
<1> QED
  BY <1>1, <1>2, <1>3, <1>4

LEMMA InitType == Init => TypeOK /\ OwnerInv
<1> SUFFICES ASSUME Init PROVE TypeOK /\ OwnerInv
  OBVIOUS
<1>1. opts \in Names /\ MaxFaults[opts] \in Nat
  BY StackAssumption DEF Init
<1>2. made \subseteq Users /\ "sa" \notin made
  <2>1. Users = {"ownSecret", "grpcWeb", "grpcGateway", "grpcEnforcer", "grpcKubeEnforcer"}
    <3>1. DOMAIN MtlsSecret = {"server", "gateway", "enforcer", "kubeEnforcer"}
      BY DEF MtlsSecret
    <3>2. {MtlsSecret[c] : c \in {"server", "gateway", "enforcer", "kubeEnforcer"}}
            = {"grpcWeb", "grpcGateway", "grpcEnforcer", "grpcKubeEnforcer"}
      BY DEF MtlsSecret
    <3> QED
      BY <3>1, <3>2, Zenon DEF Users
  <2>2. made \subseteq {"ownSecret"} \union Users
    BY DEF Init
  <2> QED
    BY <2>1, <2>2
<1>3. made \subseteq Objects[opts] /\ shown \subseteq made
  BY <1>1, <1>2 DEF Init, Objects
<1>4. spec \in [Parts -> Setting] /\ inst \in [Controllers -> Setting]
  BY PullTypes DEF Init, Setting, Blank, PullSecret
<1>5. tmpl \in [Workloads -> Setting] /\ past \in [Workloads -> SUBSET Setting]
  BY PullTypes DEF Init
<1>6. sa \in [owner : Controllers \union {"none"}, pull : PullSecret] /\ up = {} /\ faults = 0
      /\ status \in [Services -> {"", "Pending", "Running", "UpdateInProgress"}]
  BY DEF Init, PullSecret
<1>7. queued \subseteq Controllers
  BY PartsControl DEF Init
<1>8. DOMAIN pos = Controllers /\ \A c \in Controllers : pos[c] \in 0 .. Len(Plan(c, chosen))
  <2>1. pos = [c \in Controllers |-> 0]
    BY DEF Init
  <2>2. \A c \in Controllers : Len(Plan(c, chosen)) \in Nat
    BY PlanItems
  <2> QED
    BY <2>1, <2>2
<1>9. faults \in 0 .. MaxFaults[opts]
  <2>1. faults = 0
    BY <1>6
  <2> QED
    BY <1>1, <2>1
<1>10. TypeOK
  BY <1>1, <1>3, <1>4, <1>5, <1>6, <1>7, <1>8, <1>9 DEF TypeOK
<1> QED
  BY <1>2, <1>10 DEF OwnerInv

\* For every installation, whatever lags or fails: the variables of all controllers keep
\* their types, so that no pass leaves its plan and nothing is made that is in no plan.
THEOREM TypeCorrect == Spec => []TypeOK /\ []OwnerInv
<1>1. TypeOK /\ OwnerInv /\ [Next]_vars => TypeOK' /\ OwnerInv'
  <2> SUFFICES ASSUME TypeOK, OwnerInv, [Next]_vars PROVE TypeOK' /\ OwnerInv'
    OBVIOUS
  <2>1. ASSUME NEW c \in Controllers, Reconcile(c) PROVE TypeOK' /\ OwnerInv'
    BY <2>1, BeginType, AccountType, WriteType, GateType DEF Reconcile
  <2>2. CASE UNCHANGED vars
    <3>1. UNCHANGED <<opts, made, shown, spec, sa, tmpl, past, up, status,
                      queued, pos, inst, faults>>
      BY <2>2 DEF vars, apiVars, podVars, passVars
    <3>2. PassType'
      BY <3>1 DEF TypeOK, PassType, chosen
    <3>3. TypeOK'
      BY <3>1, <3>2, TypeParts DEF TypeOK
    <3> QED
      BY <3>1, <3>3 DEF OwnerInv
  <2> QED
    BY <2>1, <2>2, EnvironmentType DEF Next
<1> QED
  BY <1>1, InitType, PTL DEF Spec
=============================================================================
