----------------------------- MODULE MCDatabase -----------------------------
(* Instances of Database for TLC: the specs a database is given.             *)
EXTENDS Database

\* With one database at first, the password being the controller's or the user's,
\* and later scaled, with the audit data split off.
OneSpec   == [replicas : {1}, split : {FALSE}, given : BOOLEAN]
LaterSpec == [replicas : {2}, split : {TRUE}, given : BOOLEAN]
BothSpecs == OneSpec \union LaterSpec
=============================================================================
