---------------------------- MODULE ObjectStore ----------------------------
(***************************************************************************)
(* What users rely on from the library's object pool: objects of a         *)
(* registered type are handed out one user at a time and never more than   *)
(* the type's maximum, and a request is refused only when as many are out  *)
(* or when memory is short.                                                *)
(***************************************************************************)
EXTENDS Integers, FiniteSets

CONSTANTS Ids, Objs

VARIABLES
    max,        \* maximum of the registered types
    held,       \* objects of each type in the hands of users
    answer,     \* what the last request has got: the set of one object, or none
    failures    \* times that memory has been short

vars == <<max, held, answer, failures>>

Init ==
    /\ max = [id \in {} |-> 0]
    /\ held = [id \in Ids |-> {}]
    /\ answer = {} /\ failures = 0

Register(id) ==
    /\ id \notin DOMAIN max
    /\ DOMAIN max' = DOMAIN max \cup {id}
    /\ \A i \in DOMAIN max : max'[i] = max[i]
    /\ max'[id] \in Nat
    /\ failures' \in {failures, failures + 1}
    /\ UNCHANGED <<held, answer>>

Alloc(id, o) ==
    /\ id \in DOMAIN max /\ Cardinality(held[id]) < max[id]
    /\ \A i \in Ids : o \notin held[i]
    /\ held' = [held EXCEPT ![id] = @ \cup {o}]
    /\ answer' = {o}
    /\ UNCHANGED <<max, failures>>

Refuse(id) ==
    /\ answer' = {}
    /\ \/ failures' = failures + 1
       \/ failures' = failures /\ (id \in DOMAIN max => Cardinality(held[id]) >= max[id])
    /\ UNCHANGED <<max, held>>

Free(id, o) ==
    /\ o \in held[id]
    /\ held' = [held EXCEPT ![id] = @ \ {o}]
    /\ UNCHANGED <<max, answer, failures>>

MemoryShort == failures' = failures + 1 /\ UNCHANGED <<max, held, answer>>

Close == max' = [id \in {} |-> 0] /\ UNCHANGED <<held, answer, failures>>

Next ==
    \/ \E id \in Ids : Register(id) \/ Refuse(id)
    \/ \E id \in Ids, o \in Objs : Alloc(id, o) \/ Free(id, o)
    \/ MemoryShort \/ Close

Spec == Init /\ [][Next]_vars
=============================================================================
