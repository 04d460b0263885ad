--------------------------- MODULE SettingsProofs ---------------------------
(***************************************************************************)
(* Proofs about IdeSettings (Settings.tla) for every set of schemas,      *)
(* instances, keys and values.                                            *)
(*                                                                         *)
(* AnnouncedStateCurrent is not inductive as it stands: a write to key k  *)
(* re-reads only k, so the step proof needs the announced state of every  *)
(* key, not only those of the object's schema, to equal the value a read  *)
(* returns.  A write changes one entry of one layer, and a read of any    *)
(* other key, or through an object that does not have that layer, does    *)
(* not look at it (ValueCongruence).                                      *)
(***************************************************************************)
EXTENDS Settings, TLAPS

(* An object that constructs has one or two layers, each a path, and it   *)
(* writes to the first.                                                   *)
LEMMA LayersShape ==
  ASSUME NEW i \in Live
  PROVE  /\ Len(Layers(i)) \in {1, 2}
         /\ \A n \in 1..Len(Layers(i)) : Layers(i)[n] \in Paths
         /\ WritePath(i) = Layers(i)[1]
<1>1. Len(Layers(i)) \in {1, 2}
  BY DEF Layers
<1>2. \A n \in 1..Len(Layers(i)) : Layers(i)[n] \in Paths
  BY DEF Paths
<1>3. QED
  BY <1>1, <1>2 DEF WritePath

(* The schema of an object that constructs is installed, so its keys are  *)
(* keys.                                                                  *)
LEMMA LiveKeys ==
  ASSUME NEW i \in Live
  PROVE  SchemaKeys[i.schema] \subseteq Keys
BY SettingsConstants DEF Live, ConstructError

(* The keys stored at a path are keys.                                    *)
LEMMA PathKeysType ==
  ASSUME NEW p
  PROVE  PathKeys(p) \subseteq Keys
BY LiveKeys DEF PathKeys

(* The values a key allows are values, and none is NULL.                  *)
LEMMA KeyValsType ==
  ASSUME NEW k \in Keys
  PROVE  KeyVals(k) \subseteq Vals /\ NULL \notin KeyVals(k)
         /\ Default[k] \in KeyVals(k)
BY SettingsConstants DEF KeyVals, Vals

(* The first layer that has a value, as ide_layered_settings_get_value   *)
(* finds it: a set of layer indexes that is not empty has a least one,    *)
(* and it is 1 when the first layer has a value.                          *)
LEMMA FirstLayer ==
  ASSUME NEW i \in Live, NEW S \in SUBSET (1..Len(Layers(i))), S # {}
  PROVE  LET m == CHOOSE n \in S : \A x \in S : n <= x IN
         /\ m \in S
         /\ 1 \in S => m = 1
<1> DEFINE m == CHOOSE n \in S : \A x \in S : n <= x
<1>1. \E n \in S : \A x \in S : n <= x
  <2>1. CASE 1 \in S
    BY <2>1
  <2>2. CASE 1 \notin S
    <3>1. \A x \in S : x = 2
      BY <2>2, LayersShape
    <3>2. PICK y \in S : TRUE
      OBVIOUS
    <3>3. \A x \in S : y <= x
      BY <3>1
    <3>4. QED
      BY <3>3
  <2>3. QED
    BY <2>1, <2>2
<1>2. m \in S /\ \A x \in S : m <= x
  BY <1>1
<1>3. 1 \in S => m = 1
  <2> HAVE 1 \in S
  <2>1. m \in 1..Len(Layers(i)) /\ m <= 1
    BY <1>2
  <2>2. QED
    BY <2>1
<1>4. QED
  BY <1>2, <1>3

(* A read of k through i looks at no entry but k of the layers of i.      *)
LEMMA ValueCongruence ==
  ASSUME NEW d1, NEW d2, NEW i \in Live, NEW k,
         \A n \in 1..Len(Layers(i)) : d1[Layers(i)[n]][k] = d2[Layers(i)[n]][k]
  PROVE  ValueIn(d1, i, k) = ValueIn(d2, i, k)
<1> DEFINE S == {n \in 1..Len(Layers(i)) : d1[Layers(i)[n]][k] # NULL}
           m == CHOOSE n \in S : \A x \in S : n <= x
<1>1. S = {n \in 1..Len(Layers(i)) : d2[Layers(i)[n]][k] # NULL}
  OBVIOUS
<1>2. ValueIn(d1, i, k) = IF S = {} THEN Default[k] ELSE d1[Layers(i)[m]][k]
  BY DEF ValueIn
<1>3. ValueIn(d2, i, k) = IF S = {} THEN Default[k] ELSE d2[Layers(i)[m]][k]
  <2> DEFINE T == {n \in 1..Len(Layers(i)) : d2[Layers(i)[n]][k] # NULL}
  <2>1. ValueIn(d2, i, k) = IF T = {} THEN Default[k]
                           ELSE d2[Layers(i)[CHOOSE n \in T : \A x \in T : n <= x]][k]
    BY DEF ValueIn
  <2>2. QED
    BY <2>1, <1>1
<1>4. S # {} => m \in 1..Len(Layers(i))
  <2>1. S \in SUBSET (1..Len(Layers(i)))
    OBVIOUS
  <2>2. QED
    BY <2>1, FirstLayer
<1>5. CASE S = {}
  BY <1>2, <1>3, <1>5
<1>6. CASE S # {}
  <2>1. d1[Layers(i)[m]][k] = d2[Layers(i)[m]][k]
    BY <1>4, <1>6
  <2>2. QED
    BY <1>2, <1>3, <1>6, <2>1
<1>7. QED
  BY <1>5, <1>6
(* The values of the layers of dconf: a value of some key, or NULL.       *)
DconfOK(d) == d \in [Paths -> [Keys -> Vals \cup {NULL}]]

(* A read returns a value: the first layer's that has one, or the schema *)
(* default.                                                               *)
LEMMA ValueType ==
  ASSUME NEW d, DconfOK(d), NEW i \in Live, NEW k \in Keys
  PROVE  ValueIn(d, i, k) \in Vals
<1> DEFINE S == {n \in 1..Len(Layers(i)) : d[Layers(i)[n]][k] # NULL}
           m == CHOOSE n \in S : \A x \in S : n <= x
<1>1. ValueIn(d, i, k) = IF S = {} THEN Default[k] ELSE d[Layers(i)[m]][k]
  BY DEF ValueIn
<1>2. CASE S = {}
  BY <1>1, <1>2, KeyValsType
<1>3. CASE S # {}
  <2>1. m \in S
    BY <1>3, FirstLayer
  <2>2. Layers(i)[m] \in Paths
    BY <2>1, LayersShape
  <2>3. d[Layers(i)[m]][k] \in Vals \cup {NULL}
    BY <2>2 DEF DconfOK
  <2>4. d[Layers(i)[m]][k] # NULL
    BY <2>1
  <2>5. QED
    BY <1>1, <1>3, <2>3, <2>4
<1>4. QED
  BY <1>2, <1>3

(* A value i writes to k is what a read of k through i returns next: the  *)
(* write goes to the first layer, which a read looks at first.            *)
(* e is d after v is written to key k of layer p.                        *)
Wrote(e, d, p, k, v) == e = [d EXCEPT ![p][k] = v]

LEMMA WrittenFirst ==
  ASSUME NEW d, DconfOK(d), NEW i \in Live, NEW k \in Keys, NEW v, v # NULL,
         NEW e, Wrote(e, d, WritePath(i), k, v)
  PROVE  ValueIn(e, i, k) = v
<1> DEFINE S == {n \in 1..Len(Layers(i)) : e[Layers(i)[n]][k] # NULL}
           m == CHOOSE n \in S : \A x \in S : n <= x
<1>1. ValueIn(e, i, k) = IF S = {} THEN Default[k] ELSE e[Layers(i)[m]][k]
  BY DEF ValueIn
<1>2. WritePath(i) \in Paths /\ WritePath(i) = Layers(i)[1]
      /\ 1 \in 1..Len(Layers(i))
  BY LayersShape
<1>3. e[Layers(i)[1]][k] = v
  BY <1>2 DEF DconfOK, Wrote
<1>4. 1 \in S
  BY <1>2, <1>3
<1>5. m = 1
  BY <1>4, FirstLayer
<1>6. QED
  BY <1>1, <1>3, <1>4, <1>5

(* The announced state st of every object and every key is what a read   *)
(* of d returns.                                                          *)
Current(d, st) == \A i \in Live : \A k \in Keys : st[i][k] = ValueIn(d, i, k)

(* One write of v to key k of layer p, with the changed signal that       *)
(* re-reads k through every object on p, keeps dconf and the state in     *)
(* their types and every announced state current.                         *)
LEMMA WriteAnnounced ==
  ASSUME DconfOK(dconf), state \in [Live -> [Keys -> Vals]],
         Current(dconf, state),
         NEW p \in Paths, NEW k \in Keys, NEW v \in Vals \cup {NULL},
         NEW e, Wrote(e, dconf, p, k, v)
  PROVE  /\ DconfOK(e)
         /\ Announce(e, p, k) \in [Live -> [Keys -> Vals]]
         /\ Current(e, Announce(e, p, k))
<1> DEFINE On(i) == \E n \in 1..Len(Layers(i)) : Layers(i)[n] = p
<1>1. DconfOK(e)
  BY DEF DconfOK, Wrote
<1>2. ASSUME NEW i \in Live, NEW x \in Keys
      PROVE  Announce(e, p, k)[i][x] =
               IF On(i) /\ x = k THEN ValueIn(e, i, k) ELSE state[i][x]
  BY DEF Announce
<1>3. ASSUME NEW i \in Live, NEW x \in Keys, ~(On(i) /\ x = k)
      PROVE  ValueIn(e, i, x) = ValueIn(dconf, i, x)
  <2>1. ASSUME NEW n \in 1..Len(Layers(i))
        PROVE  e[Layers(i)[n]][x] = dconf[Layers(i)[n]][x]
    <3>1. Layers(i)[n] \in Paths
      BY LayersShape
    <3>2. Layers(i)[n] # p \/ x # k
      BY <1>3
    <3>3. QED
      BY <3>1, <3>2 DEF DconfOK, Wrote
  <2>2. \A n \in 1..Len(Layers(i)) : e[Layers(i)[n]][x] = dconf[Layers(i)[n]][x]
    BY <2>1
  <2>3. QED
    BY <2>2, ValueCongruence
<1>4. Current(e, Announce(e, p, k))
  <2> SUFFICES ASSUME NEW i \in Live, NEW x \in Keys
               PROVE  Announce(e, p, k)[i][x] = ValueIn(e, i, x)
    BY DEF Current
  <2>1. CASE On(i) /\ x = k
    BY <2>1, <1>2
  <2>2. CASE ~(On(i) /\ x = k)
    <3>1. state[i][x] = ValueIn(dconf, i, x)
      BY DEF Current
    <3>2. QED
      BY <2>2, <3>1, <1>2, <1>3
  <2>3. QED
    BY <2>1, <2>2
<1>5. Announce(e, p, k) \in [Live -> [Keys -> Vals]]
  <2>1. ASSUME NEW i \in Live, NEW x \in Keys
        PROVE  Announce(e, p, k)[i][x] \in Vals
    <3>1. ValueIn(e, i, k) \in Vals
      BY <1>1, ValueType
    <3>2. state[i][x] \in Vals
      OBVIOUS
    <3>3. QED
      BY <3>1, <3>2, <1>2
  <2>2. \A i \in Live : DOMAIN Announce(e, p, k)[i] = Keys
    BY DEF Announce
  <2>3. QED
    BY <2>1, <2>2 DEF Announce
<1>6. QED
  BY <1>1, <1>4, <1>5
(* The strengthening of AnnouncedStateCurrent to the keys of every schema *)
(* that the step proof needs.                                            *)
IInv == TypeOK /\ Current(dconf, state)

LEMMA IInvInit == Init => IInv
<1> SUFFICES ASSUME Init PROVE IInv
  OBVIOUS
<1>1. DconfOK(dconf)
  BY DEF Init, DconfOK
<1>2. state \in [Live -> [Keys -> Vals]]
  BY <1>1, ValueType DEF Init, Value
<1>3. Current(dconf, state)
  BY DEF Init, Current, Value
<1>4. QED
  BY <1>1, <1>2, <1>3 DEF IInv, TypeOK, DconfOK

(* change_action_state through i: a value of the key's type and range is  *)
(* written, announced to every object on the first layer, and set as i's  *)
(* own state, which is what the read returns.                             *)
LEMMA ChangeStateStep ==
  ASSUME IInv, NEW i \in Live, NEW k \in Keys, NEW var, ChangeState(i, k, var)
  PROVE  IInv'
<1>1. CASE var.type = KeyType[k] /\ var.val \in KeyVals(k)
  <2> DEFINE A == Announce(dconf', WritePath(i), k)
  <2>1. /\ dconf' = Written(i, k, var.val)
        /\ state' = [Announce(Written(i, k, var.val), WritePath(i), k)
                     EXCEPT ![i][k] = var.val]
    BY <1>1 DEF ChangeState
  <2>2. state' = [A EXCEPT ![i][k] = var.val]
    BY <2>1
  <2>3. Wrote(dconf', dconf, WritePath(i), k, var.val)
    BY <2>1 DEF Written, Wrote
  <2>4. var.val \in Vals /\ var.val # NULL
    BY <1>1, KeyValsType
  <2>5. WritePath(i) \in Paths
    BY LayersShape
  <2>6. /\ DconfOK(dconf')
        /\ A \in [Live -> [Keys -> Vals]]
        /\ Current(dconf', A)
    BY <2>3, <2>4, <2>5, WriteAnnounced DEF IInv, TypeOK, DconfOK
  <2>7. ValueIn(dconf', i, k) = var.val
    BY <2>3, <2>4, WrittenFirst DEF IInv, TypeOK, DconfOK
  <2>8. A[i][k] = var.val
    BY <2>6, <2>7 DEF Current
  <2>9. state' = A
    BY <2>2, <2>6, <2>8
  <2>10. QED
    BY <2>6, <2>9 DEF IInv, TypeOK, DconfOK
<1>2. CASE ~(var.type = KeyType[k] /\ var.val \in KeyVals(k))
  BY <1>2 DEF ChangeState, IInv, TypeOK, Current, Value, vars
<1>3. QED
  BY <1>1, <1>2

LEMMA IInvStep == IInv /\ [Next]_vars => IInv'
<1> SUFFICES ASSUME IInv, [Next]_vars PROVE IInv'
  OBVIOUS
<1>1. CASE change_action_state
  BY <1>1, ChangeStateStep, LiveKeys DEF change_action_state
<1>2. CASE activate_action
  <2> PICK i \in Live, param \in GVariants \cup {NULL} :
         \E k \in SchemaKeys[i.schema] :
           IF KeyType[k] = "b"
           THEN IF param # NULL THEN UNCHANGED vars
                ELSE ChangeState(i, k, [type |-> "b", val |-> ~Value(i, k)])
           ELSE IF param = NULL THEN UNCHANGED vars
                ELSE ChangeState(i, k, param)
    BY <1>2 DEF activate_action
  <2> PICK k \in SchemaKeys[i.schema] :
           IF KeyType[k] = "b"
           THEN IF param # NULL THEN UNCHANGED vars
                ELSE ChangeState(i, k, [type |-> "b", val |-> ~Value(i, k)])
           ELSE IF param = NULL THEN UNCHANGED vars
                ELSE ChangeState(i, k, param)
    OBVIOUS
  <2>1. k \in Keys
    BY LiveKeys
  <2>2. CASE UNCHANGED vars
    BY <2>2 DEF IInv, TypeOK, Current, Value, vars
  <2>3. CASE ~UNCHANGED vars
    <3>1. \E var : ChangeState(i, k, var)
      BY <2>3
    <3>2. QED
      BY <3>1, <2>1, ChangeStateStep
  <2>4. QED
    BY <2>2, <2>3
<1>3. CASE set_value
  <2> PICK i \in Live, v \in Vals :
         \E k \in SchemaKeys[i.schema] :
           /\ v \in KeyVals(k)
           /\ dconf' = Written(i, k, v)
           /\ state' = Announce(dconf', WritePath(i), k)
    BY <1>3 DEF set_value
  <2> PICK k \in SchemaKeys[i.schema] :
           /\ v \in KeyVals(k)
           /\ dconf' = Written(i, k, v)
           /\ state' = Announce(dconf', WritePath(i), k)
    OBVIOUS
  <2>1. k \in Keys /\ WritePath(i) \in Paths
    BY LiveKeys, LayersShape
  <2>2. Wrote(dconf', dconf, WritePath(i), k, v)
    BY DEF Written, Wrote
  <2>3. QED
    BY <2>1, <2>2, WriteAnnounced DEF IInv, TypeOK, DconfOK
<1>4. CASE external_write
  <2> PICK p \in Paths, v \in Vals \cup {NULL} :
         \E k \in PathKeys(p) :
           /\ v \in KeyVals(k) \cup {NULL}
           /\ dconf' = [dconf EXCEPT ![p][k] = v]
           /\ state' = Announce(dconf', p, k)
    BY <1>4 DEF external_write
  <2> PICK k \in PathKeys(p) :
           /\ v \in KeyVals(k) \cup {NULL}
           /\ dconf' = [dconf EXCEPT ![p][k] = v]
           /\ state' = Announce(dconf', p, k)
    OBVIOUS
  <2>1. k \in Keys
    BY PathKeysType
  <2>2. Wrote(dconf', dconf, p, k, v)
    BY DEF Wrote
  <2>3. QED
    BY <2>1, <2>2, WriteAnnounced DEF IInv, TypeOK, DconfOK
<1>5. CASE UNCHANGED vars
  BY <1>5 DEF IInv, TypeOK, Current, Value, vars
<1>6. QED
  BY <1>1, <1>2, <1>3, <1>4, <1>5 DEF Next
(* The type invariant of IdeSettings: dconf holds values or NULL, and     *)
(* every object has announced a value for every key.                      *)
THEOREM TypeCorrect == Spec => []TypeOK
BY IInvInit, IInvStep, PTL DEF Spec, IInv

(* AnnouncedStateCurrent, the invariant of run settings_actions, for every *)
(* set of schemas, objects, keys and values: whatever writes the objects  *)
(* and other processes make to whatever layers, every object's action    *)
(* state is the value a read returns (ide_settings_change_action_state,  *)
(* ide_settings_set_* and the changed signal of the layered settings).    *)
THEOREM AnnouncedCurrent == Spec => []AnnouncedStateCurrent
<1>1. IInv => AnnouncedStateCurrent
  BY LiveKeys DEF IInv, Current, AnnouncedStateCurrent, Value
<1>2. QED
  BY IInvInit, IInvStep, <1>1, PTL DEF Spec

(* The project layer mirrors the user layer for every object, constructed *)
(* or not: a project path exists only for a relocatable schema and a      *)
(* project, and then the path it is built from (the path property, else   *)
(* the schema id) is the app path, which construction has checked to lie  *)
(* under /org/gnome/builder/.                                             *)
LEMMA MirrorsApp ==
  ASSUME NEW i
  PROVE  ProjectLayerMirrorsApp(i)
<1> SUFFICES ASSUME ~ConstructError(i), ProjectPath(i) # NULL
             PROVE  /\ HasPrefix(AppPath(i), Builder)
                    /\ ProjectPath(i) = Projects \o <<i.project>>
                                          \o Drop(AppPath(i), Len(Builder))
  BY DEF ProjectLayerMirrorsApp
<1>1. SchemaPath[i.schema] = NULL /\ i.project # NULL
  BY DEF ProjectPath
<1>2. CASE i.path # NULL
  <2>1. AppPath(i) = i.path.segs
    BY <1>1, <1>2 DEF AppPath
  <2>2. HasPrefix(i.path.segs, Builder)
    BY <1>2 DEF ConstructError
  <2>3. ProjectPath(i) = Projects \o <<i.project>> \o Drop(i.path.segs, Len(Builder))
    BY <1>1, <1>2 DEF ProjectPath
  <2>4. QED
    BY <2>1, <2>2, <2>3
<1>3. CASE i.path = NULL
  <2>1. AppPath(i) = i.schema
    BY <1>1, <1>3 DEF AppPath
  <2>2. HasPrefix(i.schema, Builder)
    BY <1>1 DEF ConstructError
  <2>3. ProjectPath(i) = Projects \o <<i.project>> \o Drop(i.schema, Len(Builder))
    BY <1>1, <1>3 DEF ProjectPath
  <2>4. QED
    BY <2>1, <2>2, <2>3
<1>4. QED
  BY <1>2, <1>3

(* ProjectLayersMirror, the third invariant of run settings_actions, for   *)
(* every set of schemas and objects: ide_settings_constructed puts each   *)
(* project layer at the place under /org/gnome/builder/projects/<id>/     *)
(* that the user layer has under /org/gnome/builder/, whether the path    *)
(* comes from the schema id or from the path property.                   *)
THEOREM ProjectLayersMirrorAlways == Spec => []ProjectLayersMirror
<1>1. ProjectLayersMirror
  BY MirrorsApp DEF ProjectLayersMirror
<1>2. QED
  BY <1>1, PTL
=============================================================================
