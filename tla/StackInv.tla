------------------------------ MODULE StackInv ------------------------------
(***************************************************************************)
(* Why three invariants of Stack hold: inductive invariants, which         *)
(* StackTemplates and StackRest prove.  TLC finds that they hold on the    *)
(* instances of MCStack, when they are added to the run as INVARIANTs.     *)
(***************************************************************************)
EXTENDS Stack

\* No pull secret named, no state reported.
Unset == ""

-----------------------------------------------------------------------------
(* Templates only climb. *)

\* The pull secrets in the order in which a part is given them: none, the kube-enforcer's
\* own default, that of the CSP, the one the user names.
Rank == [p \in PullSecret |->
           CASE p = Unset -> 0 [] p = "keRegistrySecret" -> 1
             [] p = "registrySecret" -> 2 [] p = "ownSecret" -> 3]

Below(s, t) == Rank[s.pull] <= Rank[t.pull] /\ (s.mtls => t.mtls)

\* The pull secret the KhulnasoftCsp has its parts use.
CspWants == IF chosen.named THEN "ownSecret" ELSE CspPull

\* Only the KhulnasoftCsp's pass makes the account, before it makes a part.
AccountFirst ==
  /\ Parts \intersect made # {} => "sa" \in made
  /\ \A c \in Parts : pos[c] > 0 => c \in made
  /\ \A c \in Services : status[c] # Unset => c \in made
  /\ \A i \in 1 .. pos["csp"] - 1 : PlanOf("csp")[i] = "sa" => "sa" \in made

\* The pass of the KhulnasoftCsp goes by the secret it wants, or the account step has
\* blanked it: then no part has been given the wanted one, unless it is the default.
BlankOnlyFirst ==
  pos["csp"] > 0 =>
    /\ ~inst["csp"].mtls
    /\ \/ inst["csp"].pull = CspWants
       \/ /\ inst["csp"].pull = Unset
          /\ spec["kubeEnforcer"].pull = Unset
          /\ \A c \in {"server", "gateway", "enforcer"} : spec[c].pull \in {Unset, CspPull}

\* The specs of the parts name one of three secrets and, for mutual TLS, what was seen.
SpecsKnown ==
  \A c \in DOMAIN Deployment :
    /\ spec[c].pull \in {Unset, CspPull, CspWants}
    /\ spec[c].mtls => c \in DOMAIN MtlsSecret /\ MtlsSecret[c] \in shown
    /\ c \notin made /\ c # "scanner" => spec[c].pull = Unset

\* The templates of a workload, past and present, the settings of a pass, and those a pass
\* that begins now goes by: each is below the next.
Climbing(c) ==
  LET w == Deployment[c] IN
  /\ \A s \in past[w] : Below(s, tmpl[w]) /\ s # tmpl[w]
  /\ w \notin made => past[w] = {}
  /\ w \in made => Below(tmpl[w], InMemory(c))
  /\ w \in made /\ pos[c] > 0 => Below(tmpl[w], inst[c])
  /\ pos[c] > 0 => Below(inst[c], InMemory(c))

TemplateInv ==
  /\ AccountFirst /\ BlankOnlyFirst /\ SpecsKnown
  /\ \A c \in DOMAIN Deployment : Climbing(c)
  /\ \A w \in {"dbDeployment", "auditDbDeployment"} : past[w] = {}

-----------------------------------------------------------------------------
(* What is left out is made good. *)

\* Marks in a plan that are no objects.
Marks == {"waitDb", "gate", "pending"}

\* Objects of a part alone, which start a pass of it and come when all that its pass
\* may leave out has been tried: whoever lacks one of those lacks these.
Witnesses ==
  [database |-> {}, server |-> {"serverDeployment"}, gateway |-> {"gatewayDeployment"},
   enforcer |-> {"enforcerDaemonSet"}, scanner |-> {"scannerDeployment"},
   kubeEnforcer |-> {"keConfig", "keService"}]

\* An event that will start a pass of c is under way.
Coming(c) == Witnesses[c] \intersect (made \ shown) # {}

\* Something may fail without ending the pass.
MayDrop == Failing \intersect Dropping[opts] # {}

\* What a pass has behind it is made.
PassedMade(c) == \A i \in 1 .. pos[c] - 1 : PlanOf(c)[i] \in made \union Marks

\* A part at rest lacks nothing, or is about to be woken up.
RestSound(c) ==
  pos[c] = 0 /\ c \in made /\ c \notin queued =>
    ObjectsOf(c, chosen) \subseteq made \/ (faults = MaxFaults[opts] /\ Coming(c))

\* As long as nothing has failed, who has a witness has all that could have been left out.
WitnessSound(c) ==
  MayDrop /\ faults = 0 /\ Witnesses[c] \intersect made # {} =>
    Lenient(chosen) \intersect ObjectsOf(c, chosen) \subseteq made

CompletionInv == \A c \in Parts : PassedMade(c) /\ RestSound(c) /\ WitnessSound(c)

-----------------------------------------------------------------------------
(* The pull secret the user names. *)

\* Whose passes lead to the pods of the database.
Bearers == {"csp", "database"}

PassNamed == \A c \in Bearers : pos[c] > 0 => inst[c].pull = "ownSecret"

\* The named secret is in every link from the KhulnasoftCsp to the pods of the database:
\* the passes, the resource, the templates.
NamedStands ==
  /\ PassNamed
  /\ "database" \in made => spec["database"].pull = "ownSecret"
  /\ \A w \in made \intersect {"dbDeployment", "auditDbDeployment"} : tmpl[w].pull = "ownSecret"

\* The database's workloads come after its resource, and what the account kept is kept.
NamedInv ==
  /\ made \intersect {"dbDeployment", "auditDbDeployment"} # {} => "database" \in made
  /\ chosen.named /\ sa.pull = "ownSecret" => NamedStands
=============================================================================
