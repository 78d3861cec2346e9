---------------------------- MODULE StackObjects ----------------------------
(***************************************************************************)
(* What the operator makes of one KhulnasoftCsp: the objects each controller *)
(* gets or creates, in the order of its Reconcile, and what every object    *)
(* needs others for by name.  o is the record of the choices made in the     *)
(* KhulnasoftCsp that decide it.                                            *)
(*                                                                         *)
(* The parts share the CSP's name, so "sa" is one ServiceAccount for all of  *)
(* them, and so on.  Names are told apart; data, labels, ports and images    *)
(* are left out.                                                            *)
(***************************************************************************)
EXTENDS Sequences

\* Each part has its resource, its controller and its workload.
Parts       == {"database", "server", "gateway", "enforcer", "kubeEnforcer", "scanner"}
Controllers == {"csp"} \union Parts

\* The choices of an installation.  named: common.imagePullSecret; registry: the
\* registry's credentials with infra.requirements; mtls: the user's mutual TLS secrets;
\* scanner: a KhulnasoftScanner of the CSP's name.
Installation == [external : BOOLEAN, split : BOOLEAN, logins : BOOLEAN, openshift : BOOLEAN,
                 kids : SUBSET {"enforcer", "kubeEnforcer"},
                 named : BOOLEAN, registry : BOOLEAN, mtls : BOOLEAN, scanner : BOOLEAN]

When(b, s) == IF b THEN s ELSE <<>>

Services == {"server", "gateway"}

\* The workload of a part, and the secrets of mutual TLS a user may create for it.
DatabaseWorkloads(o) == {"dbDeployment"} \union (IF o.split THEN {"auditDbDeployment"} ELSE {})
Deployment == [server |-> "serverDeployment", gateway |-> "gatewayDeployment",
               enforcer |-> "enforcerDaemonSet", kubeEnforcer |-> "keDeployment",
               scanner |-> "scannerDeployment"]
Workloads == {"dbDeployment", "auditDbDeployment"} \union {Deployment[c] : c \in DOMAIN Deployment}
PartOf == [w \in Workloads |-> IF \E c \in DOMAIN Deployment : Deployment[c] = w
                                 THEN CHOOSE c \in DOMAIN Deployment : Deployment[c] = w
                                 ELSE "database"]
MtlsSecret == [server |-> "grpcWeb", gateway |-> "grpcGateway",
               enforcer |-> "grpcEnforcer", kubeEnforcer |-> "grpcKubeEnforcer"]

Users     == {"ownSecret"} \union {MtlsSecret[c] : c \in DOMAIN MtlsSecret}

\* CspPull: the pull secret a spec without one gets (UpdateKhulnasoftCommon).
CspPull == "registrySecret"

Fill(pull) == IF pull = "" THEN CspPull ELSE pull

-----------------------------------------------------------------------------
(* The order of each pass. *)

\* CreateRBAC, which the passes of all parts but the database and the
\* kube-enforcer begin with.
Rbac(o) == <<"sa">> \o When(o.openshift, <<"readerBinding">>)
                    \o <<"discoveryRole", "discoveryBinding">>

\* Mutant: the password of the database is left to the database's own pass.
CspPlan_NoPassword(o) ==
  Rbac(o) \o When(~o.external, <<"database", "waitDb">>) \o <<"server", "gateway", "gate">>

CspPlan(o) ==
  When(o.registry, <<IF o.named THEN "ownSecret" ELSE "registrySecret">>)
  \o Rbac(o)
  \o <<"dbSecret">>
  \o (IF o.external THEN When(o.split, <<"auditSecret">>) ELSE <<"database", "waitDb">>)
  \o <<"server", "gateway", "gate">>
  \o When("enforcer" \in o.kids, <<"enforcer">>)
  \o When("kubeEnforcer" \in o.kids, <<"kubeEnforcer">>)

DatabasePlan(o) ==
  <<"sa", "dbPvc", "dbDeployment", "dbService">>
  \o When(o.split, <<"auditSecret", "auditPvc", "auditDbService", "auditDbDeployment">>)

\* Mutant: the enforcer's token is not the server's business.
ServerPlan_NoToken(o) ==
  Rbac(o) \o <<"pending", "serverService">>
  \o When(o.logins, <<"adminSecret", "licenseSecret">>)
  \o <<"serverConfig", "serverDeployment">>
  \o When(o.openshift, <<"serverRoute">>)

ServerPlan(o) ==
  Rbac(o) \o <<"pending", "serverService">>
  \o When(o.logins, <<"adminSecret", "licenseSecret">>)
  \o When("enforcer" \in o.kids, <<"enforcerToken">>)
  \o <<"serverConfig", "serverDeployment">>
  \o When(o.openshift, <<"serverRoute">>)

GatewayPlan(o) ==
  Rbac(o) \o <<"pending", "gatewayService", "gatewayDeployment">>
  \o When(o.openshift, <<"gatewayRoute">>)

\* The CSP names the token secret instead of giving the token, so the pass of the
\* enforcer creates none.
EnforcerPlan(o) == Rbac(o) \o <<"enforcerConfig", "enforcerDaemonSet">>

ScannerPlan(o) == Rbac(o) \o <<"scannerSecret", "scannerConfig", "scannerDeployment">>

\* The kube-enforcer's own account and roles, the webhooks that call it, and what it runs
\* with; a KhulnasoftStarboard is its last.
KeRbac(o) ==
  <<"keRole", "keSa">> \o When(o.openshift, <<"keReaderBinding">>)
  \o <<"keBinding", "keNsRole", "keNsBinding">>
KeWebhooks == <<"validatingWebhook", "mutatingWebhook">>
KeData     == <<"keConfig", "keToken", "keCerts", "keService">>

KubeEnforcerPlan(o) == KeRbac(o) \o KeWebhooks \o KeData \o <<"keDeployment", "starboard">>

Plan(c, o) ==
  CASE c = "csp"          -> CspPlan(o)
    [] c = "database"     -> DatabasePlan(o)
    [] c = "server"       -> ServerPlan(o)
    [] c = "gateway"      -> GatewayPlan(o)
    [] c = "enforcer"     -> EnforcerPlan(o)
    [] c = "kubeEnforcer" -> KubeEnforcerPlan(o)
    [] c = "scanner"      -> ScannerPlan(o)

ObjectsOf(c, o) == {Plan(c, o)[i] : i \in DOMAIN Plan(c, o)} \ {"waitDb", "gate", "pending"}

\* Objects whose failed Create does not end the pass: the error is dropped by the
\* function or by its caller.
DiscoveryObjects == {"readerBinding", "discoveryRole", "discoveryBinding"}
Lenient(o) == DiscoveryObjects \union {"serverConfig", "enforcerConfig"}
              \union {"scannerSecret", "scannerConfig"}
              \union (ObjectsOf("kubeEnforcer", o) \ {"keSa"})

\* Objects of the cluster: an event of one queues a request without a namespace,
\* which finds no resource.
ClusterScoped == DiscoveryObjects \union
  {"keRole", "keReaderBinding", "keBinding", "validatingWebhook", "mutatingWebhook"}

\* Does an event of an object c owns start a pass of c (SetupWithManager)?
Watches(c, object) ==
  /\ object \notin ClusterScoped /\ object # "starboard"
  /\ object = "sa" => c \notin {"gateway", "scanner"}

-----------------------------------------------------------------------------
(* What the objects need. *)

\* The password of the database, and of the audit database.
DbCredentials(o) == {"dbSecret"} \union (IF o.split THEN {"auditSecret"} ELSE {})

DatabasePods(w) ==
  IF w = "dbDeployment" THEN {"sa", "dbSecret", "dbPvc"} ELSE {"sa", "auditSecret", "auditPvc"}

ServerPods(o) ==
  {"sa", "serverConfig"} \union DbCredentials(o)
  \union (IF o.logins THEN {"adminSecret", "licenseSecret"} ELSE {})

\* The gateway reads the server's ConfigMap.
GatewayPods(o) == {"sa", "serverConfig"} \union DbCredentials(o)

EnforcerPods == {"sa", "enforcerConfig", "enforcerToken"}

KubeEnforcerPods == {"keSa", "keConfig", "keToken", "keCerts"}

ScannerPods == {"sa", "scannerSecret", "scannerConfig"}

\* Addresses: of the databases, the server's console and the gateway.
ServerConfig(o) ==
  {"serverService", "gatewayService"}
  \union (IF o.external THEN {}
          ELSE {"dbService"} \union (IF o.split THEN {"auditDbService"} ELSE {}))

Bindings ==
  [discoveryBinding |-> {"discoveryRole", "sa"}, readerBinding |-> {"sa"},
   keBinding |-> {"keRole", "keSa"}, keNsBinding |-> {"keNsRole", "keSa"},
   keReaderBinding |-> {"keSa"}]

Webhooks == {"validatingWebhook", "mutatingWebhook"}

\* The objects an object names, besides the secrets its template is given.
Needs(object, o) ==
  CASE object \in {"dbDeployment", "auditDbDeployment"} -> DatabasePods(object)
    [] object = "serverDeployment"  -> ServerPods(o)
    [] object = "gatewayDeployment" -> GatewayPods(o)
    [] object = "enforcerDaemonSet" -> EnforcerPods
    [] object = "keDeployment"      -> KubeEnforcerPods
    [] object = "scannerDeployment" -> ScannerPods
    [] object = "serverConfig"      -> ServerConfig(o)
    [] object \in {"enforcerConfig", "keConfig"} -> {"gatewayService"}
    [] object \in DOMAIN Bindings   -> Bindings[object]
    [] object \in Webhooks          -> {"keService"}
    [] object = "serverRoute"       -> {"serverService"}
    [] object = "gatewayRoute"      -> {"gatewayService"}
    [] OTHER -> {}
=============================================================================
