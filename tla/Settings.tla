------------------------------ MODULE Settings ------------------------------
(***************************************************************************)
(* IdeSettings (src/src/libide/core/ide-settings.c): the layer paths      *)
(* chosen in ide_settings_constructed, the ide_settings_get_* and         *)
(* ide_settings_set_* accessors, and the GActionGroup through which the   *)
(* keys of a schema are read, changed and toggled.                        *)
(*                                                                         *)
(* Schema ids and dconf paths are sequences of segments: the schema id    *)
(* "org.gnome.builder.editor" is <<"org", "gnome", "builder", "editor">>  *)
(* and the path "/org/gnome/builder/editor/" the same sequence; a path    *)
(* argument also records whether it ends in "/".  g_strdelimit turning    *)
(* '.' into '/' is the identity on segments, and a string prefix test is  *)
(* a test on the leading segments.                                        *)
(*                                                                         *)
(* IdeLayeredSettings is not under src/; it is modelled from the section  *)
(* comment of ide-settings.c: a read returns the value of the first layer *)
(* that has one, else the schema default, and a write goes to the first  *)
(* layer.                                                                 *)
(***************************************************************************)
EXTENDS Naturals, Sequences

CONSTANTS
  Schemas,      \* installed schema ids
  SchemaPath,   \* SchemaPath[s]: the path fixed by schema s, or NULL
  Instances,    \* IdeSettings objects: [project, schema, path] records
  Keys,         \* the keys of the schemas
  SchemaKeys,   \* SchemaKeys[s]: the keys of schema s
  KeyType,      \* KeyType[k]: "b" for a boolean key, "s" for a string key
  Range,        \* Range[k]: the choices of a string key
  Strings,      \* string values an argument may carry, in a range or not
  Default,      \* Default[k]: the schema default of key k
  NULL

(* A schema's keys are keys, each boolean or a string with choices, whose  *)
(* default is a value of its range; NULL is no value of a key.            *)
ASSUME SettingsConstants ==
  /\ SchemaKeys \in [Schemas -> SUBSET Keys]
  /\ KeyType \in [Keys -> {"b", "s"}]
  /\ \A k \in Keys : /\ Default[k] \in IF KeyType[k] = "b" THEN BOOLEAN ELSE Range[k]
                     /\ NULL \notin Range[k]
  /\ NULL \notin BOOLEAN

Builder == <<"org", "gnome", "builder">>
Projects == Builder \o <<"projects">>

HasPrefix(s, p) == Len(p) <= Len(s) /\ SubSeq(s, 1, Len(p)) = p
Drop(s, n) == SubSeq(s, n + 1, Len(s))

(***************************************************************************)
(* ide_settings_constructed (lines 107-201) for the properties of i: the  *)
(* error it stops with, or the paths of its layers, project layer first.  *)
(***************************************************************************)
ConstructError(i) ==
  \/ ~(i.schema = Builder \/ (HasPrefix(i.schema, Builder)
                              /\ Len(i.schema) > Len(Builder)))
  \/ i.path # NULL /\ ~(HasPrefix(i.path.segs, Builder) /\ i.path.slash)
  \/ i.schema \notin Schemas
  \/ SchemaPath[i.schema] = NULL /\ ~(HasPrefix(i.schema, Builder)
                                      /\ Len(i.schema) > Len(Builder))

AppPath(i) ==
  IF SchemaPath[i.schema] # NULL THEN SchemaPath[i.schema]
  ELSE IF i.path # NULL THEN i.path.segs
  ELSE i.schema

(* Mutant: the project path is derived from the schema id even when a    *)
(* path was given.                                                        *)
ProjectPathFromSchema(i) ==
  IF SchemaPath[i.schema] = NULL /\ i.project # NULL
  THEN Projects \o <<i.project>> \o Drop(i.schema, Len(Builder))
  ELSE NULL

ProjectPath(i) ==
  IF SchemaPath[i.schema] = NULL /\ i.project # NULL
  THEN IF i.path # NULL
       THEN Projects \o <<i.project>> \o Drop(i.path.segs, Len(Builder))
       ELSE Projects \o <<i.project>> \o Drop(i.schema, Len(Builder))
  ELSE NULL

Layers(i) ==
  IF ProjectPath(i) # NULL THEN <<ProjectPath(i), AppPath(i)>>
  ELSE <<AppPath(i)>>

Live == {i \in Instances : ~ConstructError(i)}

Paths == UNION {{Layers(i)[n] : n \in 1..Len(Layers(i))} : i \in Live}

VARIABLES
  dconf,     \* dconf[p][k]: the value written at path p for key k, or NULL
  state      \* state[i][k]: the action state i last announced for k

vars == <<dconf, state>>

(* The values of key k its schema allows: g_settings_schema_key_range_check *)
(* for a boolean or a string key with choices.                            *)
KeyVals(k) == IF KeyType[k] = "b" THEN BOOLEAN ELSE Range[k]

(* The keys stored at path p: those of the schemas of the IdeSettings     *)
(* that have p as a layer.                                                *)
PathKeys(p) ==
  UNION {SchemaKeys[i.schema] :
           i \in {j \in Live : \E n \in 1..Len(Layers(j)) : Layers(j)[n] = p}}

(* The values a key of any schema may hold.                              *)
Vals == UNION {KeyVals(k) : k \in Keys}

(* ide_layered_settings_get_value over the values d: the value of the     *)
(* first layer that has one, else the schema default.                     *)
ValueIn(d, i, k) ==
  LET set == {n \in 1..Len(Layers(i)) : d[Layers(i)[n]][k] # NULL} IN
  IF set = {} THEN Default[k]
  ELSE d[Layers(i)[CHOOSE n \in set : \A m \in set : n <= m]][k]

Value(i, k) == ValueIn(dconf, i, k)

(* ide_layered_settings_set_value: a write goes to the first layer.       *)
WritePath(i) == Layers(i)[1]

TypeOK ==
  /\ dconf \in [Paths -> [Keys -> Vals \cup {NULL}]]
  /\ state \in [Live -> [Keys -> Vals]]

Init ==
  /\ dconf = [p \in Paths |-> [k \in Keys |-> NULL]]
  /\ state = [i \in Live |-> [k \in Keys |-> Value(i, k)]]

(* Mutant: the announced value is the changed layer's own value.          *)
AnnounceLayer(d, p, k) ==
  [i \in Live |-> IF \E n \in 1..Len(Layers(i)) : Layers(i)[n] = p
                  THEN [state[i] EXCEPT ![k] = IF d[p][k] = NULL THEN Default[k]
                                               ELSE d[p][k]]
                  ELSE state[i]]

(* ide_settings_layered_settings_changed_cb (lines 90-105): on a change   *)
(* of k in one of its layers, every IdeSettings reads its value again and *)
(* announces it as the action state.                                      *)
Announce(d, p, k) ==
  [i \in Live |-> IF \E n \in 1..Len(Layers(i)) : Layers(i)[n] = p
                  THEN [state[i] EXCEPT ![k] = ValueIn(d, i, k)]
                  ELSE state[i]]

(* dconf after i writes v to k.                                           *)
Written(i, k, v) == [dconf EXCEPT ![WritePath(i)][k] = v]

(* A GVariant argument: a boolean ("b"), or a string ("s") that may lie   *)
(* outside every key's range.                                             *)
GVariants == {[type |-> "b", val |-> b] : b \in BOOLEAN}
               \cup {[type |-> "s", val |-> v] : v \in Strings}

(* ide_settings_change_action_state (lines 616-632): a value of the key's *)
(* type and range is written and announced; any other value is ignored.   *)
ChangeState(i, k, var) ==
  IF var.type = KeyType[k] /\ var.val \in KeyVals(k)
  THEN /\ dconf' = Written(i, k, var.val)
       /\ state' = [Announce(Written(i, k, var.val), WritePath(i), k)
                     EXCEPT ![i][k] = var.val]
  ELSE UNCHANGED vars

change_action_state ==
  \E i \in Live, var \in GVariants :
    \E k \in SchemaKeys[i.schema] : ChangeState(i, k, var)

(* ide_settings_activate_action (lines 645-667).  On a boolean key, with a *)
(* parameter it returns, without one it changes the state to the negation *)
(* of the current value.  On another key it changes the state to the      *)
(* parameter; g_action_group_change_action_state refuses a NULL one.      *)
activate_action ==
  \E i \in Live, param \in GVariants \cup {NULL} :
   \E k \in SchemaKeys[i.schema] :
    IF KeyType[k] = "b"
    THEN IF param # NULL THEN UNCHANGED vars
         ELSE ChangeState(i, k, [type |-> "b", val |-> ~Value(i, k)])
    ELSE IF param = NULL THEN UNCHANGED vars
         ELSE ChangeState(i, k, param)

(* ide_settings_set_value and the typed setters ide_settings_set_boolean,  *)
(* set_string... (lines 397-512): the value goes to the first layer, and  *)
(* the layered changed signal announces it to every IdeSettings on that   *)
(* layer, this one included.  GSettings refuses a value out of range, so  *)
(* only values of the key's range are written.                            *)
set_value ==
  \E i \in Live, v \in Vals :
   \E k \in SchemaKeys[i.schema] :
    /\ v \in KeyVals(k)
    /\ dconf' = Written(i, k, v)
    /\ state' = Announce(dconf', WritePath(i), k)

(* A write from outside this IdeSettings (another process, the gsettings  *)
(* tool, a reset) to any layer, seen through the changed signal.         *)
external_write ==
  \E p \in Paths, v \in Vals \cup {NULL} :
   \E k \in PathKeys(p) :
    /\ v \in KeyVals(k) \cup {NULL}
    /\ dconf' = [dconf EXCEPT ![p][k] = v]
    /\ state' = Announce(dconf', p, k)

Next == change_action_state \/ activate_action \/ set_value \/ external_write

Spec == Init /\ [][Next]_vars

-----------------------------------------------------------------------------
(* Every IdeSettings has announced, for every key, the value a read       *)
(* returns now: a write through one object, or from outside, to a layer   *)
(* that several objects share reaches all of them, and a write to a layer *)
(* that another layer shadows announces the shadowing value.             *)
AnnouncedStateCurrent ==
  \A i \in Live : \A k \in SchemaKeys[i.schema] : state[i][k] = Value(i, k)

(* The project layer of an IdeSettings sits at the same place under       *)
(* /org/gnome/builder/projects/<project-id>/ as its user layer sits under *)
(* /org/gnome/builder/, whether the path comes from the schema id or from *)
(* the path property: a project value overrides the user value of the     *)
(* same key of the same settings.                                         *)
ProjectLayerMirrorsApp(i) ==
  ~ConstructError(i) /\ ProjectPath(i) # NULL =>
    /\ HasPrefix(AppPath(i), Builder)
    /\ ProjectPath(i) = Projects \o <<i.project>> \o Drop(AppPath(i), Len(Builder))

(* For every IdeSettings that has been constructed (those with an action  *)
(* state), the project layer mirrors the user layer.                      *)
ProjectLayersMirror == \A i \in DOMAIN state : ProjectLayerMirrorsApp(i)
=============================================================================
