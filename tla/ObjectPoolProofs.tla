-------------------------- MODULE ObjectPoolProofs --------------------------
(***************************************************************************)
(* Theorems about ObjectPool, for every set of types, blocks and limits.   *)
(* TypeOK and Accounted together are inductive.                            *)
(***************************************************************************)
EXTENDS ObjectPool, FiniteSetTheorems, TLAPS

\* The state of a registered type is a record, and what is held or free is finite.
LEMMA Types ==
    ASSUME TypeOK, NEW id \in DOMAIN types
    PROVE  /\ id \in Ids /\ types[id] \in ObjectType
           /\ types[id].min \in Nat /\ types[id].max \in Nat
           /\ types[id].count \in Nat /\ types[id].inUse \in Nat
           /\ types[id].free \subseteq Objs /\ IsFiniteSet(types[id].free)
           /\ held[id] \subseteq Objs /\ IsFiniteSet(held[id])
           /\ Cardinality(held[id]) \in Nat /\ Cardinality(types[id].free) \in Nat
<1>1. /\ id \in Ids /\ types[id] \in ObjectType /\ held[id] \subseteq Objs
  BY DEF TypeOK
<1>2. /\ types[id].min \in Nat /\ types[id].max \in Nat
      /\ types[id].count \in Nat /\ types[id].inUse \in Nat
      /\ types[id].free \subseteq Objs
  BY <1>1 DEF ObjectType
<1>3. IsFiniteSet(types[id].free) /\ IsFiniteSet(held[id])
  BY <1>1, <1>2, ObjectPoolAssumption, FS_Subset
<1> QED BY <1>1, <1>2, <1>3, FS_CardinalityType

\* A type stays one when its counters and free list are replaced.
LEMMA Replaced ==
    ASSUME NEW t \in ObjectType, NEW c \in Nat, NEW u \in Nat, NEW f \in SUBSET Objs
    PROVE  /\ [t EXCEPT !.count = c, !.inUse = u] \in ObjectType
           /\ [t EXCEPT !.free = f, !.inUse = u] \in ObjectType
BY DEF ObjectType

\* What the operations make of the state t of a type.
LEMMA Changed ==
    ASSUME NEW t \in ObjectType, NEW o \in Objs
    PROVE  /\ [t EXCEPT !.count = @ + 1, !.inUse = @ + 1] \in ObjectType
           /\ [t EXCEPT !.free = @ \ {o}, !.inUse = @ + 1] \in ObjectType
           /\ t.inUse # 0 /\ t.count # 0 =>
                AfterDestroy(t) \in ObjectType /\ AfterRelease(t, o) \in ObjectType
<1>1. t.count \in Nat /\ t.inUse \in Nat /\ t.free \in SUBSET Objs
  BY DEF ObjectType
<1>2. t.count + 1 \in Nat /\ t.inUse + 1 \in Nat
      /\ t.free \ {o} \in SUBSET Objs /\ t.free \cup {o} \in SUBSET Objs
  BY <1>1
<1>3. t.inUse # 0 => t.inUse - 1 \in Nat
  BY <1>1
<1>4. t.count # 0 => t.count - 1 \in Nat
  BY <1>1
<1> QED BY ONLY t \in ObjectType, <1>1, <1>2, <1>3, <1>4, Replaced DEF AfterDestroy, AfterRelease

\* An element more, or less.
LEMMA OneMore ==
    ASSUME NEW S, IsFiniteSet(S), NEW o, o \notin S, NEW T, T = S \cup {o}
    PROVE  Cardinality(T) = Cardinality(S) + 1
BY FS_AddElement

LEMMA OneLess ==
    ASSUME NEW S, IsFiniteSet(S), NEW o \in S, NEW T, T = S \ {o}
    PROVE  Cardinality(T) = Cardinality(S) - 1
BY FS_RemoveElement

\* The state of one type is replaced.
LEMMA TypeIsOK ==
    ASSUME TypeOK, NEW id \in DOMAIN types, NEW t \in ObjectType, TypeIs(id, t)
    PROVE  /\ DOMAIN types' = DOMAIN types
           /\ types'[id] = t
           /\ \A i \in DOMAIN types \ {id} : types'[i] = types[i]
           /\ \A i \in DOMAIN types' : types'[i] \in ObjectType
           /\ types' = [i \in DOMAIN types' |-> types'[i]]
<1>1. types = [i \in DOMAIN types |-> types[i]] /\ \A i \in DOMAIN types : types[i] \in ObjectType
  BY DEF TypeOK
<1> QED BY <1>1 DEF TypeIs

-----------------------------------------------------------------------------
(* TypeOK.                                                                 *)

LEMMA InitTypes == Init => TypeOK
BY DEF Init, TypeOK

\* What an action does to the types, for TypeOK.
LEMMA RegisterTypes ==
    ASSUME TypeOK, NEW id \in Ids, NEW l \in Limits, NEW blocks \in SUBSET (Objs \ mem),
           RegisterObjectType(id, l[1], l[2], blocks)
    PROVE  TypeOK'
<1>1. l[1] \in Nat /\ l[2] \in Nat
  BY ObjectPoolAssumption
<1>2. Cardinality(blocks) \in Nat
  <2>1. blocks \subseteq Objs
    BY DEF TypeOK
  <2> QED BY <2>1, ObjectPoolAssumption, FS_Subset, FS_CardinalityType
<1>3. failures' \in Nat
  BY DEF RegisterObjectType, MemoryShort, TypeOK
<1>4. [min |-> l[1], max |-> l[2], count |-> Cardinality(blocks), inUse |-> 0, free |-> blocks]
        \in ObjectType
  BY <1>1, <1>2 DEF ObjectType
<1> QED BY <1>3, <1>4 DEF RegisterObjectType, TypeOK, Registered

LEMMA StepTypes ==
    ASSUME TypeOK, Accounted, [Next]_vars
    PROVE  TypeOK'
<1>1. CASE \E id \in Ids, l \in Limits, blocks \in SUBSET (Objs \ mem) :
              RegisterObjectType(id, l[1], l[2], blocks)
  BY <1>1, RegisterTypes
<1>2. CASE \E id \in Ids : CannotRegister(id) \/ AllocFails(id)
  BY <1>2 DEF CannotRegister, AllocFails, MemoryShort, TypeOK
<1>3. ASSUME NEW id \in Ids, NEW o \in Objs, CreateInstance(id, o)
      PROVE  TypeOK'
  <2> DEFINE t == [types[id] EXCEPT !.count = @ + 1, !.inUse = @ + 1]
  <2>1. id \in DOMAIN types /\ TypeIs(id, t)
    BY <1>3 DEF CreateInstance, Registered
  <2>2. t \in ObjectType
    BY <2>1, Types, Changed
  <2>3. /\ DOMAIN types' = DOMAIN types
        /\ \A i \in DOMAIN types' : types'[i] \in ObjectType
        /\ types' = [i \in DOMAIN types' |-> types'[i]]
    BY <2>1, <2>2, TypeIsOK
  <2> QED BY <1>3, <2>3 DEF CreateInstance, TypeOK
<1>4. ASSUME NEW id \in Ids, NEW o \in Objs, ReuseInstance(id, o)
      PROVE  TypeOK'
  <2> DEFINE t == [types[id] EXCEPT !.free = @ \ {o}, !.inUse = @ + 1]
  <2>1. id \in DOMAIN types /\ TypeIs(id, t)
    BY <1>4 DEF ReuseInstance, Registered
  <2>2. t \in ObjectType
    BY <2>1, Types, Changed
  <2>3. /\ DOMAIN types' = DOMAIN types
        /\ \A i \in DOMAIN types' : types'[i] \in ObjectType
        /\ types' = [i \in DOMAIN types' |-> types'[i]]
    BY <2>1, <2>2, TypeIsOK
  <2> QED BY <1>4, <2>3 DEF ReuseInstance, TypeOK
<1>5. ASSUME NEW id \in Ids, NEW o \in Objs, FreeObject(id, o)
      PROVE  TypeOK'
  <2>1. id \in DOMAIN types /\ o \in held[id]
    BY <1>5 DEF FreeObject, Registered
  <2>2. types[id].inUse \in Nat \ {0} /\ types[id].count \in Nat \ {0}
    <3>1. held[id] # {} /\ Counted(id)
      BY <2>1 DEF Accounted
    <3>2. Cardinality(held[id]) # 0
      BY <2>1, <3>1, Types, FS_EmptySet
    <3> QED BY <2>1, <3>1, <3>2, Types DEF Counted
  <2>3. AfterDestroy(types[id]) \in ObjectType /\ AfterRelease(types[id], o) \in ObjectType
    BY <2>1, <2>2, Types, Changed
  <2>4. TypeIs(id, AfterDestroy(types[id])) \/ TypeIs(id, AfterRelease(types[id], o))
    BY <1>5 DEF FreeObject
  <2>5. /\ DOMAIN types' = DOMAIN types
        /\ \A i \in DOMAIN types' : types'[i] \in ObjectType
        /\ types' = [i \in DOMAIN types' |-> types'[i]]
    BY <2>1, <2>3, <2>4, TypeIsOK
  <2>6. mem' \subseteq Objs
    BY <1>5 DEF FreeObject, FreeMem, TypeOK
  <2> QED BY <1>5, <2>5, <2>6 DEF FreeObject, TypeOK
<1>6. CASE FreeObjectPool
  BY <1>6 DEF FreeObjectPool, DestroyObjectTypes, FreeMem, TypeOK
<1>7. CASE UNCHANGED vars
  BY <1>7 DEF vars, TypeOK
<1> QED BY <1>1, <1>2, <1>3, <1>4, <1>5, <1>6, <1>7 DEF Next

-----------------------------------------------------------------------------
(* Accounted.                                                              *)

\* The part of Accounted that does not count, block by block: a block is allocated when it
\* is held or free, and it is only one of these and of one type.
Placed ==
    /\ \A id, jd \in Ids : \A o \in Objs :
          /\ o \in held[id] => o \notin FreeOf(jd)
          /\ o \in held[id] /\ o \in held[jd] => id = jd
          /\ o \in FreeOf(id) /\ o \in FreeOf(jd) => id = jd
    /\ \A o \in Objs : o \in mem <=> \E id \in Ids : o \in held[id] \/ o \in FreeOf(id)
    /\ open => \A id \in Ids \ DOMAIN types : held[id] = {}

LEMMA Places ==
    ASSUME TypeOK
    PROVE  Accounted <=> Placed /\ \A id \in DOMAIN types : Counted(id)
<1>1. \A id \in Ids : held[id] \subseteq Objs /\ FreeOf(id) \subseteq Objs
  BY DEF TypeOK, FreeOf, ObjectType
<1>2. mem \subseteq Objs
  BY DEF TypeOK
<1>3. ASSUME Accounted
      PROVE  Placed
  BY <1>1, <1>2, <1>3 DEF Accounted, Placed, Own
<1>4. ASSUME Placed, \A id \in DOMAIN types : Counted(id)
      PROVE  Accounted
  <2>1. \A id \in Ids : held[id] \cap FreeOf(id) = {}
    BY <1>1, <1>4 DEF Placed
  <2>2. \A id, jd \in Ids : id # jd => Own(id) \cap Own(jd) = {}
    BY <1>1, <1>4 DEF Placed, Own
  <2>3. mem = UNION {Own(id) : id \in Ids}
    BY <1>1, <1>2, <1>4 DEF Placed, Own
  <2> QED BY <1>4, <2>1, <2>2, <2>3 DEF Accounted, Placed
<1> QED BY <1>3, <1>4 DEF Accounted

LEMMA InitAccounted == Init => Accounted
<1> SUFFICES ASSUME Init PROVE Accounted
  OBVIOUS
<1>1. Placed
  BY DEF Init, Placed, FreeOf
<1>2. TypeOK /\ DOMAIN types = {}
  BY InitTypes DEF Init
<1> QED BY <1>1, <1>2, Places

LEMMA PlacesNext ==
    ASSUME TypeOK', Placed', \A id \in DOMAIN types' : Counted(id)'
    PROVE  Accounted'
<1>1. \A id \in Ids : held'[id] \subseteq Objs /\ FreeOf(id)' \subseteq Objs
  BY DEF TypeOK, FreeOf, ObjectType
<1>2. mem' \subseteq Objs
  BY DEF TypeOK
<1>3. \A id \in Ids : held'[id] \cap FreeOf(id)' = {}
  BY <1>1 DEF Placed
<1>4. \A id, jd \in Ids : id # jd => Own(id)' \cap Own(jd)' = {}
  BY <1>1 DEF Placed, Own
<1>5. mem' = UNION {Own(id)' : id \in Ids}
  BY <1>1, <1>2 DEF Placed, Own
<1> QED BY <1>3, <1>4, <1>5 DEF Accounted, Placed

\* A new type has only what it is registered with.
LEMMA RegisterAccounted ==
    ASSUME TypeOK, TypeOK', Accounted,
           NEW id \in Ids, NEW l \in Limits, NEW blocks \in SUBSET (Objs \ mem),
           RegisterObjectType(id, l[1], l[2], blocks)
    PROVE  Accounted'
<1>1. Placed /\ \A i \in DOMAIN types : Counted(i)
  BY Places
<1>2. l[1] \in Nat /\ l[2] \in Nat
  BY ObjectPoolAssumption
<1>3. Cardinality(blocks) \in Nat /\ blocks \subseteq Objs
  <2>1. blocks \subseteq Objs
    BY DEF TypeOK
  <2> QED BY <2>1, ObjectPoolAssumption, FS_Subset, FS_CardinalityType
<1>4. held[id] = {} /\ id \notin DOMAIN types /\ held' = held /\ mem' = mem \cup blocks
      /\ open' = open /\ open
  BY DEF RegisterObjectType, Accounted, Registered
<1>5. /\ DOMAIN types' = DOMAIN types \cup {id}
      /\ \A i \in DOMAIN types : types'[i] = types[i]
      /\ types'[id].inUse = 0 /\ types'[id].count = Cardinality(blocks)
      /\ types'[id].free = blocks /\ types'[id].max = l[2]
  BY <1>4 DEF RegisterObjectType
<1>6. Cardinality(blocks) <= l[2]
  BY <1>2, <1>3 DEF RegisterObjectType
<1>7. \A i \in Ids : FreeOf(i)' = IF i = id THEN blocks ELSE FreeOf(i)
  BY <1>5 DEF FreeOf
<1>8. FreeOf(id) = {}
  BY <1>4 DEF FreeOf
<1>9. Placed'
  BY <1>1, <1>3, <1>4, <1>5, <1>7, <1>8 DEF Placed
<1>10. Counted(id)'
  <2>1. Cardinality(held'[id]) = 0 /\ types'[id].free = blocks
    BY <1>4, <1>5, FS_EmptySet
  <2> QED BY <1>3, <1>5, <1>6, <2>1 DEF Counted
<1>11. \A i \in DOMAIN types : Counted(i)'
  BY <1>1, <1>4, <1>5 DEF Counted
<1> QED BY <1>5, <1>9, <1>10, <1>11, PlacesNext

\* An instance that is created is one more in use.
LEMMA CreateAccounted ==
    ASSUME TypeOK, TypeOK', Accounted, NEW id \in Ids, NEW o \in Objs, CreateInstance(id, o)
    PROVE  Accounted'
<1>1. Placed /\ \A i \in DOMAIN types : Counted(i)
  BY Places
<1>2. id \in DOMAIN types /\ o \notin mem /\ mem' = mem \cup {o} /\ open' = open
      /\ types[id].inUse = types[id].count /\ types[id].count < types[id].max
  BY DEF CreateInstance, Registered, CanCreate
<1>3. /\ held'[id] = held[id] \cup {o}
      /\ \A i \in Ids \ {id} : held'[i] = held[i]
  BY DEF CreateInstance, TypeOK
<1>4. /\ DOMAIN types' = DOMAIN types
      /\ \A i \in DOMAIN types \ {id} : types'[i] = types[i]
      /\ types'[id].inUse = types[id].inUse + 1 /\ types'[id].count = types[id].count + 1
      /\ types'[id].free = types[id].free /\ types'[id].max = types[id].max
  BY <1>2, Types DEF CreateInstance, TypeIs, ObjectType
<1>5. \A i \in Ids : FreeOf(i)' = FreeOf(i)
  BY <1>4 DEF FreeOf
<1>6. Placed'
  BY <1>1, <1>2, <1>3, <1>4, <1>5 DEF Placed
<1>7. Cardinality(held'[id]) = Cardinality(held[id]) + 1
  <2>1. o \notin held[id]
    BY <1>1, <1>2 DEF Placed
  <2> QED BY <1>2, <1>3, <2>1, Types, OneMore
<1>8. Counted(id)'
  BY <1>1, <1>2, <1>4, <1>7, Types DEF Counted
<1>9. \A i \in DOMAIN types \ {id} : Counted(i)'
  BY <1>1, <1>3, <1>4, Types DEF Counted
<1> QED BY <1>2, <1>4, <1>6, <1>8, <1>9, PlacesNext

\* An instance that is reused goes from the free list to its user.
LEMMA ReuseAccounted ==
    ASSUME TypeOK, TypeOK', Accounted, NEW id \in Ids, NEW o \in Objs, ReuseInstance(id, o)
    PROVE  Accounted'
<1>1. Placed /\ \A i \in DOMAIN types : Counted(i)
  BY Places
<1>2. id \in DOMAIN types /\ o \in types[id].free /\ mem' = mem /\ open' = open
  BY DEF ReuseInstance, Registered
<1>3. /\ held'[id] = held[id] \cup {o}
      /\ \A i \in Ids \ {id} : held'[i] = held[i]
  BY DEF ReuseInstance, TypeOK
<1>4. /\ DOMAIN types' = DOMAIN types
      /\ \A i \in DOMAIN types \ {id} : types'[i] = types[i]
      /\ types'[id].inUse = types[id].inUse + 1 /\ types'[id].count = types[id].count
      /\ types'[id].free = types[id].free \ {o} /\ types'[id].max = types[id].max
  BY <1>2, Types DEF ReuseInstance, TypeIs, ObjectType
<1>5. \A i \in Ids : FreeOf(i)' = IF i = id THEN FreeOf(i) \ {o} ELSE FreeOf(i)
  BY <1>2, <1>4 DEF FreeOf
<1>6. o \in FreeOf(id)
  BY <1>2 DEF FreeOf
<1>7. Placed'
  BY <1>1, <1>2, <1>3, <1>4, <1>5, <1>6 DEF Placed
<1>8. Cardinality(held'[id]) = Cardinality(held[id]) + 1
  <2>1. o \notin held[id]
    BY <1>1, <1>6 DEF Placed
  <2> QED BY <1>2, <1>3, <2>1, Types, OneMore
<1>9. Cardinality(types'[id].free) = Cardinality(types[id].free) - 1
  BY <1>2, <1>4, Types, OneLess
<1>10. Counted(id)'
  <2>1. /\ types[id].inUse = Cardinality(held[id])
        /\ types[id].count = Cardinality(held[id]) + Cardinality(types[id].free)
        /\ types[id].count <= types[id].max
    BY <1>1, <1>2 DEF Counted
  <2>2. Cardinality(held[id]) \in Nat /\ Cardinality(types[id].free) \in Nat
    BY <1>2, Types
  <2> QED BY <1>4, <1>8, <1>9, <2>1, <2>2 DEF Counted
<1>11. \A i \in DOMAIN types \ {id} : Counted(i)'
  BY <1>1, <1>3, <1>4, Types DEF Counted
<1> QED BY <1>2, <1>4, <1>7, <1>10, <1>11, PlacesNext

\* An object that is freed is destroyed or goes to the free list.
LEMMA FreeAccounted ==
    ASSUME TypeOK, TypeOK', Accounted, NEW id \in Ids, NEW o \in Objs, FreeObject(id, o)
    PROVE  Accounted'
<1>1. Placed /\ \A i \in DOMAIN types : Counted(i)
  BY Places
<1>2. id \in DOMAIN types /\ o \in held[id] /\ open' = open
  BY DEF FreeObject, Registered
<1>3. /\ held'[id] = held[id] \ {o}
      /\ \A i \in Ids \ {id} : held'[i] = held[i]
  BY DEF FreeObject, TypeOK
<1>4. Cardinality(held'[id]) = Cardinality(held[id]) - 1
  BY <1>2, <1>3, Types, OneLess
<1>5. CASE TypeIs(id, AfterDestroy(types[id])) /\ FreeMem({o})
  <2>1. /\ DOMAIN types' = DOMAIN types
        /\ \A i \in DOMAIN types \ {id} : types'[i] = types[i]
        /\ types'[id].inUse = types[id].inUse - 1 /\ types'[id].count = types[id].count - 1
        /\ types'[id].free = types[id].free /\ types'[id].max = types[id].max
        /\ mem' = mem \ {o}
    BY <1>2, <1>5, Types DEF TypeIs, AfterDestroy, FreeMem, ObjectType
  <2>2. \A i \in Ids : FreeOf(i)' = FreeOf(i)
    BY <2>1 DEF FreeOf
  <2>3. Placed'
    BY <1>1, <1>2, <1>3, <2>1, <2>2 DEF Placed
  <2>4. Counted(id)'
    BY <1>1, <1>2, <1>4, <2>1, Types DEF Counted
  <2>5. \A i \in DOMAIN types \ {id} : Counted(i)'
    BY <1>1, <1>3, <2>1, Types DEF Counted
  <2> QED BY <1>2, <2>1, <2>3, <2>4, <2>5, PlacesNext
<1>6. CASE TypeIs(id, AfterRelease(types[id], o)) /\ mem' = mem
  <2>1. /\ DOMAIN types' = DOMAIN types
        /\ \A i \in DOMAIN types \ {id} : types'[i] = types[i]
        /\ types'[id].inUse = types[id].inUse - 1 /\ types'[id].count = types[id].count
        /\ types'[id].free = types[id].free \cup {o} /\ types'[id].max = types[id].max
    BY <1>2, <1>6, Types DEF TypeIs, AfterRelease, ObjectType
  <2>2. \A i \in Ids : FreeOf(i)' = IF i = id THEN FreeOf(i) \cup {o} ELSE FreeOf(i)
    BY <1>2, <2>1 DEF FreeOf
  <2>3. Placed'
    BY <1>1, <1>2, <1>3, <1>6, <2>1, <2>2 DEF Placed
  <2>4. Cardinality(types'[id].free) = Cardinality(types[id].free) + 1
    <3>1. o \notin types[id].free
      BY <1>1, <1>2 DEF Placed, FreeOf
    <3> QED BY <1>2, <2>1, <3>1, Types, OneMore
  <2>5. Counted(id)'
    BY <1>1, <1>2, <1>4, <2>1, <2>4, Types DEF Counted
  <2>6. \A i \in DOMAIN types \ {id} : Counted(i)'
    BY <1>1, <1>3, <2>1, Types DEF Counted
  <2> QED BY <1>2, <2>1, <2>3, <2>5, <2>6, PlacesNext
<1> QED BY <1>5, <1>6 DEF FreeObject

\* What is on the free lists is freed with the pool, and nothing else.
LEMMA FreePoolAccounted ==
    ASSUME TypeOK, TypeOK', Accounted, FreeObjectPool
    PROVE  Accounted'
<1>1. Placed
  BY Places
<1>2. /\ DOMAIN types' = {} /\ held' = held /\ ~ open'
      /\ mem' = mem \ UNION {types[i].free : i \in DOMAIN types}
  BY DEF FreeObjectPool, DestroyObjectTypes, FreeMem
<1>3. \A i \in Ids : FreeOf(i)' = {}
  BY <1>2 DEF FreeOf
<1>4. \A o \in Objs : o \in mem' <=> o \in mem /\ \A i \in Ids : o \notin FreeOf(i)
  <2>1. DOMAIN types \subseteq Ids
    BY DEF TypeOK
  <2> QED BY <1>2, <2>1 DEF FreeOf
<1>5. Placed'
  BY <1>1, <1>2, <1>3, <1>4 DEF Placed
<1> QED BY <1>2, <1>5, PlacesNext

LEMMA StepAccounted ==
    ASSUME TypeOK, TypeOK', Accounted, [Next]_vars
    PROVE  Accounted'
<1>1. CASE \E id \in Ids : CannotRegister(id) \/ AllocFails(id)
  BY <1>1 DEF CannotRegister, AllocFails, Accounted, Counted, Own, FreeOf
<1>2. CASE UNCHANGED vars
  BY <1>2 DEF vars, Accounted, Counted, Own, FreeOf
<1> QED BY <1>1, <1>2, RegisterAccounted, CreateAccounted, ReuseAccounted, FreeAccounted,
           FreePoolAccounted DEF Next

\* Every variable keeps its type, whatever the sequence of calls.
THEOREM TypeCorrect == Spec => []TypeOK
<1>1. Init => TypeOK /\ Accounted
  BY InitTypes, InitAccounted
<1>2. TypeOK /\ Accounted /\ [Next]_vars => TypeOK' /\ Accounted'
  BY StepTypes, StepAccounted
<1> QED BY <1>1, <1>2, PTL DEF Spec

\* The counters are right, and no block is lost, shared or freed while in use.
THEOREM Accounting == Spec => []Accounted
<1>1. Init => TypeOK /\ Accounted
  BY InitTypes, InitAccounted
<1>2. TypeOK /\ Accounted /\ [Next]_vars => TypeOK' /\ Accounted'
  BY StepTypes, StepAccounted
<1> QED BY <1>1, <1>2, PTL DEF Spec

-----------------------------------------------------------------------------
(* ObjectPool implements ObjectStore.                                      *)

MaxOf == [id \in DOMAIN types |-> types[id].max]

\* An operation on one type keeps the maximum of every type.
LEMMA KeepsMax ==
    ASSUME TypeOK, NEW id \in DOMAIN types, DOMAIN types' = DOMAIN types,
           \A i \in DOMAIN types \ {id} : types'[i] = types[i],
           types'[id].max = types[id].max
    PROVE  MaxOf' = MaxOf
<1>1. \A i \in DOMAIN types : types'[i].max = types[i].max
  OBVIOUS
<1> QED BY <1>1 DEF MaxOf

\* Both modules count alike.
LEMMA SameCardinality ==
    ASSUME NEW S
    PROVE  Store!Cardinality(S) = Cardinality(S)
BY DEF Store!Cardinality, Cardinality

LEMMA StoreInit == Init => Store!Init
BY DEF Init, Store!Init

LEMMA StoreAlloc ==
    ASSUME TypeOK, Accounted, NEW id \in Ids, NEW o \in Objs,
           CreateInstance(id, o) \/ ReuseInstance(id, o)
    PROVE  Store!Alloc(id, o)
<1>1. id \in DOMAIN types /\ Counted(id)
  BY DEF CreateInstance, ReuseInstance, Registered, Accounted
<1>2. /\ held' = [held EXCEPT ![id] = @ \cup {o}] /\ answer' = {o} /\ failures' = failures
  BY DEF CreateInstance, ReuseInstance
<1>3. /\ DOMAIN types' = DOMAIN types
      /\ \A i \in DOMAIN types \ {id} : types'[i] = types[i]
      /\ types'[id].max = types[id].max
  BY <1>1, Types DEF CreateInstance, ReuseInstance, TypeIs, ObjectType
<1>4. MaxOf' = MaxOf
  BY <1>1, <1>3, KeepsMax
<1>5. Cardinality(held[id]) < types[id].max
  <2>1. CASE CreateInstance(id, o)
    BY <1>1, <2>1, Types DEF CreateInstance, CanCreate, Counted
  <2>2. CASE ReuseInstance(id, o)
    <3>1. types[id].inUse # types[id].count
      BY <2>2 DEF ReuseInstance
    <3> QED BY <1>1, <3>1, Types DEF Counted
  <2> QED BY <2>1, <2>2
<1>6. \A i \in Ids : o \notin held[i]
  <2>1. CASE CreateInstance(id, o)
    BY <2>1, Places DEF CreateInstance, Placed
  <2>2. CASE ReuseInstance(id, o)
    <3>1. o \in FreeOf(id)
      BY <1>1, <2>2 DEF ReuseInstance, FreeOf
    <3> QED BY <3>1, Places DEF Placed
  <2> QED BY <2>1, <2>2
<1>7. id \in DOMAIN MaxOf /\ Cardinality(held[id]) < MaxOf[id]
  BY <1>1, <1>5 DEF MaxOf
<1>8. [i \in DOMAIN types |-> types[i].max]' = [i \in DOMAIN types |-> types[i].max]
  BY <1>4 DEF MaxOf
<1>9. /\ id \in DOMAIN [i \in DOMAIN types |-> types[i].max]
      /\ Cardinality(held[id]) < [i \in DOMAIN types |-> types[i].max][id]
  BY <1>7 DEF MaxOf
<1> QED BY <1>2, <1>6, <1>8, <1>9, SameCardinality DEF Store!Alloc

LEMMA StoreRefuse ==
    ASSUME TypeOK, Accounted, NEW id \in Ids, AllocFails(id)
    PROVE  Store!Refuse(id)
<1>1. answer' = {} /\ held' = held /\ types' = types
  BY DEF AllocFails
<1>2. CASE failures' = failures + 1
  BY <1>1, <1>2 DEF Store!Refuse
<1>3. CASE ~ (Registered(id) /\ CanCreate(types[id])) /\ failures' = failures
  <2>1. ASSUME id \in DOMAIN types
        PROVE  Cardinality(held[id]) >= types[id].max
    BY <1>3, <2>1, Types DEF AllocFails, Registered, CanCreate, Accounted, Counted
  <2>2. [i \in DOMAIN types |-> types[i].max]' = [i \in DOMAIN types |-> types[i].max]
    BY <1>1
  <2>3. id \in DOMAIN [i \in DOMAIN types |-> types[i].max] =>
            Cardinality(held[id]) >= [i \in DOMAIN types |-> types[i].max][id]
    BY <2>1
  <2> QED BY <1>1, <1>3, <2>2, <2>3, SameCardinality DEF Store!Refuse
<1> QED BY <1>2, <1>3 DEF AllocFails, MemoryShort

LEMMA StoreFree ==
    ASSUME TypeOK, NEW id \in Ids, NEW o \in Objs, FreeObject(id, o)
    PROVE  Store!Free(id, o)
<1>1. id \in DOMAIN types
  BY DEF FreeObject, Registered
<1>2. /\ DOMAIN types' = DOMAIN types
      /\ \A i \in DOMAIN types \ {id} : types'[i] = types[i]
      /\ types'[id].max = types[id].max
  BY <1>1, Types DEF FreeObject, TypeIs, AfterDestroy, AfterRelease, ObjectType
<1>3. MaxOf' = MaxOf
  BY <1>1, <1>2, KeepsMax
<1> QED BY <1>3 DEF FreeObject, Store!Free, MaxOf

LEMMA StoreRegister ==
    ASSUME TypeOK, NEW id \in Ids, NEW l \in Limits, NEW blocks \in SUBSET (Objs \ mem),
           RegisterObjectType(id, l[1], l[2], blocks)
    PROVE  Store!Register(id)
<1>1. l[2] \in Nat
  BY ObjectPoolAssumption
<1>2. /\ id \notin DOMAIN types /\ DOMAIN types' = DOMAIN types \cup {id}
      /\ \A i \in DOMAIN types : types'[i] = types[i]
      /\ types'[id].max = l[2]
      /\ held' = held /\ answer' = answer /\ failures' \in {failures, failures + 1}
  BY DEF RegisterObjectType, Registered, MemoryShort
<1> QED BY <1>1, <1>2 DEF Store!Register

LEMMA StoreStep ==
    ASSUME TypeOK, Accounted, [Next]_vars
    PROVE  [Store!Next]_(Store!vars)
<1>1. CASE \E id \in Ids, l \in Limits, blocks \in SUBSET (Objs \ mem) :
              RegisterObjectType(id, l[1], l[2], blocks)
  BY <1>1, StoreRegister DEF Store!Next
<1>2. ASSUME NEW id \in Ids, CannotRegister(id)
      PROVE  Store!MemoryShort
  BY <1>2 DEF CannotRegister, MemoryShort, Store!MemoryShort
<1>3. ASSUME NEW id \in Ids, AllocFails(id)
      PROVE  Store!Refuse(id)
  BY <1>3, StoreRefuse
<1>4. ASSUME NEW id \in Ids, NEW o \in Objs,
             CreateInstance(id, o) \/ ReuseInstance(id, o) \/ FreeObject(id, o)
      PROVE  Store!Alloc(id, o) \/ Store!Free(id, o)
  BY <1>4, StoreAlloc, StoreFree
<1>5. CASE FreeObjectPool
  <2>1. Store!Close
    BY <1>5 DEF FreeObjectPool, Store!Close
  <2> QED BY <2>1 DEF Store!Next
<1>6. CASE UNCHANGED vars
  BY <1>6 DEF vars, Store!vars
<1> QED BY <1>1, <1>2, <1>3, <1>4, <1>5, <1>6 DEF Next, Store!Next

\* The pool implements the store: no object is handed out while in use or beyond the maximum
\* of its type, and APB_AllocObject refuses only for want of objects, memory or a type.
THEOREM Refinement == Spec => Implements
<1>1. Init => Store!Init
  BY StoreInit
<1>2. TypeOK /\ Accounted /\ [Next]_vars => [Store!Next]_(Store!vars)
  BY StoreStep
<1>3. Spec => [](TypeOK /\ Accounted)
  BY TypeCorrect, Accounting, PTL
<1> QED BY <1>1, <1>2, <1>3, PTL DEF Spec, Implements, Store!Spec

=============================================================================
