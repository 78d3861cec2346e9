----------------------------- MODULE MCOperand ------------------------------
(* Instances of Operand for TLC: the operands, and what their specs ask for. *)
EXTENDS Operand

AllKinds == {"server", "gateway", "scanner", "enforcer"}

\* A setting with two values.
TwoValues == {{"a=1"}, {"a=2"}}

\* One entry, and a second that a spec may do without; the second spec names a pull secret.
Nested == {{"a=1"}, {"a=1", "b=1", NamedSecret}}

\* What passes find of the secrets: that of mutual TLS and neither pull secret, or nothing.
OnlyMtls  == {{Mtls}}
NoSecrets == {{}}
=============================================================================
