----------------------------- MODULE ObjectPool -----------------------------
(***************************************************************************)
(* The object pool of the library (library/objectpool.c, library/memory.c) *)
(* that gives every part of the system, server and clients, its objects.   *)
(* A pool belongs to one context, and a context to one process: a step is  *)
(* a whole call.  The order of the free list of a type is left out.        *)
(***************************************************************************)
EXTENDS Integers, FiniteSets

CONSTANTS
    Ids,        \* ids of types
    Objs,       \* blocks of memory, each large enough for an object
    Limits,     \* pairs of the minimum and maximum that types are registered with
    MaxFail     \* bound: times that memory is short

ASSUME ObjectPoolAssumption ==
    /\ IsFiniteSet(Objs)
    /\ Limits \subseteq Nat \X Nat
    /\ MaxFail \in Nat

VARIABLES
    types,      \* op_Types: struct ObjectType by id, without ot_Name and ot_Size
    mem,        \* blocks that are allocated
    open,       \* the pool has not been freed
    held,       \* objects in the hands of users
    answer,     \* what the last APB_AllocObject has returned, {} for NULL
    failures

vars == <<types, mem, open, held, answer, failures>>

Init ==
    /\ types = [id \in {} |-> 0] /\ mem = {} /\ open = TRUE
    /\ held = [id \in Ids |-> {}] /\ answer = {} /\ failures = 0

-----------------------------------------------------------------------------
\* APB_AllocMemInternal gives no memory, which it may at any time.
MemoryShort == failures < MaxFail /\ failures' = failures + 1

\* APB_FreeMemInternal.
FreeMem(blocks) == mem' = mem \ blocks

Registered(id) == id \in DOMAIN types

TypeIs(id, t) == types' = [types EXCEPT ![id] = t]

-----------------------------------------------------------------------------
\* A type is registered once, with instances up to its minimum unless its maximum
\* is smaller or memory is short; blocks are those instances.
RegisterObjectType(id, min, max, blocks) ==
    LET n == IF min <= max THEN min ELSE max IN
    /\ open /\ ~ Registered(id)
    /\ \/ Cardinality(blocks) = n /\ UNCHANGED failures
       \/ Cardinality(blocks) < n /\ MemoryShort
    /\ types' = [i \in DOMAIN types \cup {id} |->
                    IF i # id THEN types[i]
                    ELSE [min |-> min, max |-> max, count |-> Cardinality(blocks), inUse |-> 0,
                          free |-> blocks]]
    /\ mem' = mem \cup blocks
    /\ UNCHANGED <<open, held, answer>>

\* There is no memory for the type itself.
CannotRegister(id) ==
    /\ open /\ ~ Registered(id) /\ MemoryShort
    /\ UNCHANGED <<types, mem, open, held, answer>>

-----------------------------------------------------------------------------
\* A bug for TLC: the maximum is not looked at.
CanCreateAlways(t) == t.inUse = t.count

\* APB_AllocInstance creates an instance only when every one is in use.
CanCreate(t) == t.inUse = t.count /\ t.count < t.max

CreateInstance(id, o) ==
    /\ open /\ Registered(id) /\ CanCreate(types[id])
    /\ o \notin mem /\ mem' = mem \cup {o}
    /\ TypeIs(id, [types[id] EXCEPT !.count = @ + 1, !.inUse = @ + 1])
    /\ held' = [held EXCEPT ![id] = @ \cup {o}] /\ answer' = {o}
    /\ UNCHANGED <<open, failures>>

\* An instance that is not in use is the head of the free list.
ReuseInstance(id, o) ==
    /\ open /\ Registered(id) /\ types[id].inUse # types[id].count
    /\ o \in types[id].free
    /\ TypeIs(id, [types[id] EXCEPT !.free = @ \ {o}, !.inUse = @ + 1])
    /\ held' = [held EXCEPT ![id] = @ \cup {o}] /\ answer' = {o}
    /\ UNCHANGED <<mem, open, failures>>

\* APB_AllocObject returns NULL.
AllocFails(id) ==
    /\ open /\ answer' = {}
    /\ Registered(id) => types[id].inUse = types[id].count
    /\ \/ Registered(id) /\ CanCreate(types[id]) /\ MemoryShort
       \/ ~ (Registered(id) /\ CanCreate(types[id])) /\ UNCHANGED failures
    /\ UNCHANGED <<types, mem, open, held>>

-----------------------------------------------------------------------------
\* A bug for TLC: an instance that is destroyed is counted down twice.
AfterDestroyTwice(t) == [t EXCEPT !.count = @ - 1, !.inUse = @ - 2]

\* A bug for TLC: an instance that is destroyed is counted on.
AfterDestroyCounted(t) == [t EXCEPT !.inUse = @ - 1]

AfterDestroy(t) == [t EXCEPT !.count = @ - 1, !.inUse = @ - 1]

AfterRelease(t, o) == [t EXCEPT !.free = @ \cup {o}, !.inUse = @ - 1]

\* APB_FreeObject destroys the instance if there are more than the minimum.
FreeObject(id, o) ==
    /\ open /\ Registered(id) /\ o \in held[id]
    /\ held' = [held EXCEPT ![id] = @ \ {o}]
    /\ \/ /\ types[id].count > types[id].min
          /\ TypeIs(id, AfterDestroy(types[id])) /\ FreeMem({o})
       \/ /\ types[id].count <= types[id].min
          /\ TypeIs(id, AfterRelease(types[id], o)) /\ UNCHANGED mem
    /\ UNCHANGED <<open, answer, failures>>

\* The instances on the free list of each type, and NULL once for each that is in use,
\* which stays with its user.
DestroyObjectTypes == FreeMem(UNION {types[id].free : id \in DOMAIN types})

FreeObjectPool ==
    /\ open /\ open' = FALSE
    /\ DestroyObjectTypes /\ types' = [id \in {} |-> 0]
    /\ UNCHANGED <<held, answer, failures>>

Next ==
    \/ \E id \in Ids, l \in Limits, blocks \in SUBSET (Objs \ mem) :
          RegisterObjectType(id, l[1], l[2], blocks)
    \/ \E id \in Ids : CannotRegister(id) \/ AllocFails(id)
    \/ \E id \in Ids, o \in Objs :
          CreateInstance(id, o) \/ ReuseInstance(id, o) \/ FreeObject(id, o)
    \/ FreeObjectPool

Spec == Init /\ [][Next]_vars

-----------------------------------------------------------------------------
(* Properties.                                                             *)

ObjectType == [min : Nat, max : Nat, count : Nat, inUse : Nat, free : SUBSET Objs]

TypeOK ==
    /\ DOMAIN types \subseteq Ids /\ \A id \in DOMAIN types : types[id] \in ObjectType
    /\ types = [id \in DOMAIN types |-> types[id]]
    /\ mem \subseteq Objs /\ open \in BOOLEAN
    /\ held \in [Ids -> SUBSET Objs] /\ answer \in SUBSET Objs /\ failures \in Nat

FreeOf(id) == IF id \in DOMAIN types THEN types[id].free ELSE {}

\* The blocks of one type.
Own(id) == held[id] \cup FreeOf(id)

Counted(id) ==
    /\ types[id].inUse = Cardinality(held[id])
    /\ types[id].count = Cardinality(held[id]) + Cardinality(types[id].free)
    /\ types[id].count <= types[id].max

\* The counters of a type, by which it decides to create, reuse and destroy, count
\* its objects in use and on its free list; and whatever the sequence of calls, every
\* block that is allocated is one or the other, of one type only: none is lost, handed out
\* twice or freed while in use (objectpool.c:112, 142).
Accounted ==
    /\ \A id \in DOMAIN types : Counted(id)
    /\ \A id \in Ids : held[id] \cap FreeOf(id) = {}
    /\ \A id, jd \in Ids : id # jd => Own(id) \cap Own(jd) = {}
    /\ mem = UNION {Own(id) : id \in Ids}
    /\ open => \A id \in Ids \ DOMAIN types : held[id] = {}

Store == INSTANCE ObjectStore WITH max <- [id \in DOMAIN types |-> types[id].max]

\* The pool does what its users rely on: no object is handed out while in use or beyond
\* the maximum of its type, and APB_AllocObject fails only when as many are in use, memory
\* is short or the type is not registered.
Implements == Store!Spec

=============================================================================
