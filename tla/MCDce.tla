------------------------------- MODULE MCDce -------------------------------
(* Dce with named peers and labels.                                         *)
EXTENDS Dce, TLC

CONSTANTS calling, aux, third

OneOpener  == [l \in Label |-> Passive]
TwoOpeners == [l \in Label |-> IF l = calling THEN Passive ELSE Active]

=============================================================================
