------------------------------ MODULE MCApbFs ------------------------------
(* The file system client for TLC.                                         *)
EXTENDS ApbFs

CONSTANTS p1, p2
=============================================================================
