-------------------------- MODULE MCGraphTransport --------------------------
(* Constants for model checking GraphTransport: two assessments of one     *)
(* tenant, and a secret that is replaced by another.                       *)
EXTENDS GraphTransport

CONSTANTS c1, c2, t1, s1, s2

TwoCallers == {c1, c2}
OneTenant  == {t1}
TwoSecrets == {s1, s2}
=============================================================================
