-------------------------- MODULE MC_PluginCanLoad --------------------------
(* The dependency walk of can_load against its reference over every       *)
(* dependency list of length at most two for three plugins (a missing     *)
(* name included) and every setting of their "enabled" keys.  Plugin a is *)
(* bundled; b carries the ABI "3.32" of IDE_VERSION_S "3.32.0" and c the  *)
(* major-only ABI "3".                                                    *)
EXTENDS Naturals, Sequences, TLC

CONSTANTS a, b, c, Missing, NULL

Ps == {a, b, c}
DepLists == UNION {[1..n -> Ps \cup {Missing}] : n \in 0..2}

VARIABLES dg, en

PL == INSTANCE PluginLoader WITH
        Plugins <- Ps, Deps <- [x \in Ps |-> << >>], Builtin <- {a}, AtStartup <- {},
        Abi <- (a :> NULL) @@ (b :> <<"3", ".", "3", "2">>) @@ (c :> <<"3">>),
        Version <- <<"3", ".", "3", "2", ".", "0">>,
        PluginList <- <<a, b, c>>, SinglePlugin <- NULL,
        enabled <- [x \in Ps |-> TRUE], visible <- Ps, settings <- {}, loaded <- {},
        phase <- "running", toggled <- FALSE

Init == dg \in [Ps -> DepLists] /\ en \in [Ps -> BOOLEAN]

Next == UNCHANGED <<dg, en>>

(* can_load accepts exactly the plugins the reference accepts, for every  *)
(* dependency graph and every "enabled" setting.                          *)
CanLoadMatchesReference ==
  \A p \in Ps : PL!CanLoadIn(dg, en, Ps, p).ok = PL!LoadableIn(dg, en, Ps, p)

=============================================================================
