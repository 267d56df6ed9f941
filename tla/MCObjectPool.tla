---------------------------- MODULE MCObjectPool ----------------------------
(* The object pool for TLC.                                                *)
EXTENDS ObjectPool

CONSTANTS t1, t2, b1, b2, b3, b4

MCLimits == {<<0, 2>>, <<1, 3>>, <<2, 2>>, <<2, 1>>}
=============================================================================
