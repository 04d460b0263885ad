----------------------------- MODULE MC_Settings -----------------------------
(* Five IdeSettings over two schemas and two projects: the relocatable     *)
(* schema "editor" for project p1, for no project, and for project p2 with *)
(* its own path and with the path of a sub-object; the schema "terminal"   *)
(* with a fixed path for project p1; and one whose path lacks the trailing *)
(* '/', which construction rejects.  "editor" has the boolean key k1,     *)
(* "terminal" also the string key k2 with the one choice sa; the string   *)
(* sz lies outside every range, so change_action_state must refuse it.    *)
EXTENDS Settings, TLC

CONSTANTS sa, sz

Editor == Builder \o <<"editor">>
Terminal == Builder \o <<"terminal">>

MCSchemaPath == (Editor :> NULL) @@ (Terminal :> Terminal)

MCInstances ==
  { [project |-> "p1", schema |-> Editor, path |-> NULL],
    [project |-> NULL, schema |-> Editor, path |-> NULL],
    [project |-> "p2", schema |-> Editor,
     path |-> [segs |-> Editor, slash |-> TRUE]],
    [project |-> "p1", schema |-> Terminal, path |-> NULL],
    [project |-> "p2", schema |-> Editor,
     path |-> [segs |-> Builder \o <<"editor", "ui">>, slash |-> TRUE]],
    [project |-> "p1", schema |-> Editor,
     path |-> [segs |-> Editor, slash |-> FALSE]] }

MCSchemas == {Editor, Terminal}

MCSchemaKeys == (Editor :> {"k1"}) @@ (Terminal :> {"k1", "k2"})

MCKeys == {"k1", "k2"}
MCKeyType == ("k1" :> "b") @@ ("k2" :> "s")
MCRange == ("k1" :> {}) @@ ("k2" :> {sa})
MCStrings == {sa, sz}
MCDefault == ("k1" :> FALSE) @@ ("k2" :> sa)
=============================================================================
