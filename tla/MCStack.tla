------------------------------ MODULE MCStack -------------------------------
(* Instances of Stack for TLC: the choices of a few installations.           *)
EXTENDS StackInv

\* An internal database, public images, no enforcers.
Plainest == [external |-> FALSE, split |-> FALSE, logins |-> FALSE, openshift |-> FALSE,
           kids |-> {}, named |-> FALSE, registry |-> FALSE, mtls |-> FALSE, scanner |-> FALSE]

\* The same with an audit database, and the pull secret that the user has made and named.
Named == [Plainest EXCEPT !.named = TRUE, !.split = TRUE]

\* The operator is given the registry's credentials and an enforcer to deploy.
Registry == [Plainest EXCEPT !.registry = TRUE, !.kids = {"enforcer"}]

\* The user's databases, logins and certificates; a scanner is added later.
External == [Plainest EXCEPT !.external = TRUE, !.split = TRUE, !.logins = TRUE, !.mtls = TRUE,
                           !.scanner = TRUE]

\* OpenShift, with a kube-enforcer.
OpenShift == [Plainest EXCEPT !.openshift = TRUE, !.external = TRUE, !.kids = {"kubeEnforcer"}]

\* The same with the pull secret that the user has made and named: the database is the user's,
\* so that server and kube-enforcer start where a database here could not use the name.
Late == [OpenShift EXCEPT !.named = TRUE]

Installations == [named |-> Named, registry |-> Registry, external |-> External,
                  openshift |-> OpenShift, late |-> Late]

\* One call fails, or the operator restarts once; neither in the last installation, where the
\* late copies of the account and the secret are enough for TLC.
OneFailure == [n \in DOMAIN Installations |-> IF n = "late" THEN 0 ELSE 1]
=============================================================================
