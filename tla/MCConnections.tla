--------------------------- MODULE MCConnections ---------------------------
(* Instances of Connections for TLC: one or two clients, each with its     *)
(* control request and one or two requests of its own.                     *)
EXTENDS Connections, TLC

CONSTANTS k1, k2, ctl, a, b, o1, o2, o3

\* Server objects are interchangeable: nothing tells one from another.
ObjectSymmetry == Permutations(Objects)
=============================================================================
