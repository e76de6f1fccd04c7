----------------------------- MODULE MCCalling -----------------------------
(* Calling with named devices: ann's phone, and bob's phone and laptop.     *)
EXTENDS Calling, TLC

CONSTANTS ann, bob, bob2

MCUserid   == [c \in Client |-> CASE c = ann -> 1 [] c = bob -> 2 [] c = bob2 -> 2]
MCClientid == [c \in Client |-> CASE c = ann -> 1 [] c = bob -> 2 [] c = bob2 -> 3]

=============================================================================
