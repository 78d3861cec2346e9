------------------------------ MODULE CspInv -------------------------------
(***************************************************************************)
(* The inductive invariant of Csp, in the parts the theorems of CspProofs   *)
(* use: what the program counter of a pass, the informers' copies and the  *)
(* work queue say about the API server.                                    *)
(***************************************************************************)
EXTENDS Csp

\* Places of a pass behind the steps of the same name.
PastPassword == {"database", "waitDb", "server", "gateway", "status",
                 "enforcer", "kubeEnforcer", "wait"}
PastDatabase == PastPassword \ {"database"}
PastWaitDb   == PastDatabase \ {"waitDb"}
PastServer   == PastWaitDb \ {"server"}
PastGateway  == PastServer \ {"gateway"}
PastStatus   == PastGateway \ {"status"}
PastEnforcer == PastStatus \ {"enforcer"}
PastAll      == {"wait"}

\* The informers show only what exists; what they do not show, or show in an
\* old version, is still to be delivered.
InformersInv ==
  /\ visible \subseteq exists /\ stale \subseteq exists
  /\ exists \ visible \subseteq stale
  /\ \A c \in visible \ stale : view[c] = child[c]
  /\ fresh => seen = csp

\* How far a pass has come tells which parts exist.
OrderInv ==
  /\ BringUpOrder
  /\ dbReady => dbEver
  /\ pc \in {"database", "waitDb"} => DbInternal
  /\ DbInternal /\ pc \in PastPassword => "password" \in exists
  /\ DbInternal /\ pc \in PastDatabase => "database" \in exists
  /\ DbInternal /\ pc \in PastWaitDb => dbEver
  /\ pc \in PastServer => "server" \in exists
  /\ pc \in PastGateway => "gateway" \in exists

\* States that say server and gateway are up.
LateStates == EnforcerStates \union {"Running"}

\* Every copy of the State is behind what the informers show.
StatusInv ==
  /\ \A cr \in {csp, seen, inst} : cr.state \in LateStates => Services \subseteq visible
  /\ pc \in PastStatus => Services \subseteq visible /\ inst.state \in LateStates

\* A copy that may be written back holds the stored spec, and a pass that no event
\* has overtaken works on the spec the informer shows.
InstanceInv ==
  /\ instFresh => inst.spec = csp.spec
  /\ ~queued /\ pc # "idle" => inst.spec = seen.spec

\* Nothing has happened that a later pass would be started for.
Clean == ~queued /\ fresh /\ stale = {}

\* Part c holds what the spec of the instance asks for.
Meets(c, spec) ==
  /\ c \in exists
  /\ child[c].replicas = Desired(c, spec).replicas
  /\ c # "database" => child[c].rest = Desired(c, spec).rest

\* What a pass that nothing has overtaken leaves behind it.
PassInv ==
  Clean =>
    /\ DbInternal /\ pc \in PastDatabase => Meets("database", inst.spec)
    /\ pc \in PastServer => Meets("server", inst.spec)
    /\ pc \in PastGateway => Meets("gateway", inst.spec)
    /\ pc \in PastEnforcer /\ "enforcer" \in inst.spec.kids => Meets("enforcer", inst.spec)
    /\ pc \in PastAll /\ "kubeEnforcer" \in inst.spec.kids => Meets("kubeEnforcer", inst.spec)

\* The inductive invariant behind the order of the bring-up and convergence.
IInv == /\ TypeOK /\ InformersInv /\ OrderInv /\ StatusInv /\ InstanceInv
        /\ PassInv /\ RestMeansConverged

\* Without removals the states about enforcers go with specs that ask for some;
\* without failed calls a pass nothing has overtaken has stored the state it holds.
RunningInv ==
  /\ \A cr \in {csp, seen, inst} : cr.state \in EnforcerStates => cr.spec.kids # {}
  /\ pc # "idle" /\ Clean => instFresh
  /\ pc # "idle" /\ instFresh => inst.state = csp.state
  /\ pc \in PastStatus /\ Clean => GetGatewayServerState = "Running"
  /\ RestMeansRunning
=============================================================================
