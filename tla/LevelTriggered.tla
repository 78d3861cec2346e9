--------------------------- MODULE LevelTriggered ---------------------------
(***************************************************************************)
(* What the controller of an operand promises, whatever it does inside: of   *)
(* the specs that users store one after the other it puts some in place,     *)
(* never an older one than is there and, but for the first, only one that    *)
(* was stored with an approval.  It comes to rest only when the last spec    *)
(* is in place or waits for its approval, and such moments keep coming.      *)
(***************************************************************************)
EXTENDS Naturals, Sequences

CONSTANT Values  \* what may be asked for

VARIABLES
  asked,  \* the specs stored so far, oldest first: value, approved
  at,     \* the one that is in place, 0 while there is none
  quiet   \* the controller has nothing to do

vars == <<asked, at, quiet>>

Wish == [value : Values, approved : BOOLEAN]
Last == asked[Len(asked)]

\* The last spec is in place, or may not be put there.
Settled == at > 0 /\ (asked[at].value = Last.value \/ ~Last.approved)

Init ==
  /\ \E wish \in Wish : asked = <<wish>>
  /\ at = 0 /\ quiet = FALSE

Ask ==
  /\ \E wish \in Wish : asked' = Append(asked, wish)
  /\ quiet' = FALSE /\ UNCHANGED at

Apply ==
  /\ \E new \in 1 .. Len(asked) :
       /\ at <= new /\ (at = 0 \/ asked[new].approved)
       /\ at' = new
  /\ quiet' = FALSE /\ UNCHANGED asked

Rest == Settled /\ quiet' = TRUE /\ UNCHANGED <<asked, at>>
Wake == quiet' = FALSE /\ UNCHANGED <<asked, at>>

Next == Ask \/ Apply \/ Rest \/ Wake

\* Nothing is done that is not promised ...
Safely == Init /\ [][Next]_vars

\* ... and what is promised is done: the fairness of putting the last spec in place.
Spec == Safely /\ []<>Settled
=============================================================================
