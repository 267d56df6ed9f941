---------------------------- MODULE MCServerLoop ----------------------------
(* Instances of ServerLoop for TLC: the constants that are 5 in the code     *)
(* are small numbers that differ.                                            *)
EXTENDS ServerLoop, TLC
=============================================================================
