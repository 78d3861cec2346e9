------------------------------- MODULE MCCsp -------------------------------
(* Instances of Csp for TLC: what the parts' controllers report in each.     *)
EXTENDS CspInv

\* Everything the controllers of server and gateway, and of the enforcers, store.
AllReports == [c \in Reporters |->
  IF c \in Services THEN {"Pending", "Running", "UpdateInProgress"}
  ELSE {"Pending", "Running", "EnforcerUpdateInProgress", "PendingApproval"}]

\* First bring-up only: every part reports Pending, then Running.
BringUpReports == [c \in Reporters |-> {"Pending", "Running"}]
=============================================================================
