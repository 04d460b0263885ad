---------------------------- MODULE PluginLoader ----------------------------
(***************************************************************************)
(* The application's plugin loader (src/libide/gui/ide-application-       *)
(* plugins.c): the dependency walk ide_application_can_load_plugin, the   *)
(* two load loops run at startup and after the disk search paths are      *)
(* added, and the "changed::enabled" settings callback.                   *)
(*                                                                         *)
(* libpeas is an external collaborator.  Its engine is modelled by its    *)
(* documented behaviour only: peas_engine_load_plugin loads a plugin      *)
(* together with its dependencies and fails when one is not found, and    *)
(* peas_engine_unload_plugin unloads a plugin together with the plugins   *)
(* that depend on it.  Plugin names and ABI strings are model values and  *)
(* sequences of characters.                                               *)
(***************************************************************************)
EXTENDS Naturals, Sequences, FiniteSets

CONSTANTS
  Plugins,       \* the plugin infos the engine can know of
  Missing,       \* a dependency name for which the engine has no info
  Deps,          \* Deps[p]: the X-Depends list of p, in manifest order
  Builtin,       \* plugins whose module dir is under resource:///plugins/
  AtStartup,     \* plugins with X-At-Startup in their manifest
  Abi,           \* Abi[p]: the X-Builder-ABI string of p, or NULL
  Version,       \* IDE_VERSION_S as a sequence of characters
  PluginList,    \* the order of peas_engine_get_plugin_list
  SinglePlugin,  \* self->plugin: the plugin of single-plugin mode, or NULL
  NULL

ASSUME PluginConstants ==
  /\ Missing \notin Plugins
  /\ Deps \in [Plugins -> Seq(Plugins \cup {Missing})]
  /\ Builtin \subseteq Plugins /\ AtStartup \subseteq Plugins
  /\ Version \in Seq(STRING)
  /\ \A p \in Plugins : Abi[p] = NULL \/ Abi[p] \in Seq(STRING)
  /\ PluginList \in Seq(Plugins)
  /\ SinglePlugin \in Plugins \cup {NULL}

VARIABLES
  enabled,   \* the "enabled" key of each plugin's org.gnome.builder.plugin
  settings,  \* modules with an entry in self->plugin_settings
  visible,   \* plugins the engine has found on its search paths
  loaded,    \* plugins peas_plugin_info_is_loaded reports as loaded
  phase,     \* "startup", "idle" (main loop), "running" (all loaded)
  toggled    \* history: some "enabled" key has been written

vars == <<enabled, settings, visible, loaded, phase, toggled>>

TypeOK ==
  /\ enabled \in [Plugins -> BOOLEAN]
  /\ settings \subseteq Plugins /\ visible \subseteq Plugins
  /\ loaded \subseteq Plugins
  /\ phase \in {"startup", "idle", "running"}
  /\ toggled \in BOOLEAN

(* The ABI test of can_load (lines 154-155): abi is a prefix of           *)
(* IDE_VERSION_S and the character of IDE_VERSION_S just after it is '.'. *)
AbiAccepted(abi) ==
  /\ abi # NULL
  /\ Len(abi) < Len(Version)
  /\ SubSeq(Version, 1, Len(abi)) = abi
  /\ Version[Len(abi) + 1] = "."

(* peas_engine_get_plugin_info: the info of a dependency name, or NULL    *)
(* (Missing) when the engine has not found that plugin.                   *)
Resolve(vis, d) == IF d \in vis THEN d ELSE Missing

(* The found dependencies of p under the dependency lists G.             *)
DepsOf(G, vis, p) == {Resolve(vis, G[p][i]) : i \in 1..Len(G[p])}

(***************************************************************************)
(* ide_application_can_load_plugin (lines 88-181), for dependency lists  *)
(* G, "enabled" keys E and the engine having found vis.  Walk[p, circ, 0] is a call on p with the table *)
(* circular = circ; Walk[p, circ, i], i >= 1, is p's dependency loop at   *)
(* deps[i].  The result is the verdict, the modules whose settings the    *)
(* walk created (get_settings, line 122) and the table after the call:    *)
(* p is removed only when its deps all pass.                              *)
(***************************************************************************)
(* Mutant: the walk leaves p in the table after its deps pass.           *)
CanLoadDoneKept(p, circ) == [ok |-> TRUE, seen |-> {}, circ |-> circ]

CanLoadDone(p, circ) == [ok |-> TRUE, seen |-> {}, circ |-> circ \ {p}]

CanLoadIn(G, E, vis, p) ==
  LET Fail(seen, c) == [ok |-> FALSE, seen |-> seen, circ |-> c]
      MaxDeps == CHOOSE m \in {Len(G[x]) : x \in Plugins} :
                   \A x \in Plugins : Len(G[x]) <= m
      Walk[q \in Plugins \cup {Missing}, circ \in SUBSET Plugins,
           i \in 0..(MaxDeps + 1)] ==
      IF i = 0 THEN
        IF q = Missing THEN Fail({}, circ)
        ELSE IF SinglePlugin # NULL
          THEN [ok |-> q = SinglePlugin, seen |-> {}, circ |-> circ]
        ELSE IF q \in circ THEN Fail({}, circ)
        ELSE IF ~E[q] THEN Fail({q}, circ \cup {q})
        ELSE IF q \notin Builtin /\ ~AbiAccepted(Abi[q])
          THEN Fail({q}, circ \cup {q})
        ELSE LET r == Walk[q, circ \cup {q}, 1]
             IN  [r EXCEPT !.seen = @ \cup {q}]
      ELSE IF i > Len(G[q]) THEN CanLoadDone(q, circ)
      ELSE LET d == Walk[Resolve(vis, G[q][i]), circ, 0]
               rest == Walk[q, d.circ, i + 1]
           IN  IF ~d.ok THEN d
               ELSE [rest EXCEPT !.seen = @ \cup d.seen]
  IN  Walk[p, {}, 0]

CanLoad(vis, p) == CanLoadIn(Deps, enabled, vis, p)

(* The plugins reachable from p through resolved dependencies, p itself   *)
(* included.                                                              *)
ReachIn(G, vis, p) ==
  LET r[n \in Nat] ==
        IF n = 0 THEN {p}
        ELSE r[n - 1] \cup UNION {DepsOf(G, vis, q) : q \in r[n - 1] \ {Missing}}
  IN  r[Cardinality(Plugins) + 1]

ReachFrom(vis, p) == ReachIn(Deps, vis, p)

(* libpeas: load p with its dependencies, or nothing when one is missing. *)
PeasLoad(vis, l, p) ==
  IF Missing \in ReachFrom(vis, p) THEN l ELSE l \cup ReachFrom(vis, p)

(* libpeas: unload p and every loaded plugin that depends on it.         *)
PeasUnload(p) == loaded \ {q \in Plugins : p \in ReachFrom(visible, q)}

(* _ide_application_load_plugin (lines 224-239) from the pair st of the   *)
(* loaded set and the settings table, the engine having found vis.        *)
LoadPlugin(vis, st, p) ==
  LET r == CanLoad(vis, p) IN
  [loaded   |-> IF r.ok THEN PeasLoad(vis, st.loaded, p) ELSE st.loaded,
   settings |-> st.settings \cup r.seen]

(* The loop over peas_engine_get_plugin_list that calls LoadPlugin on     *)
(* every found plugin of cands that is not loaded yet, in list order.    *)
LoadLoop(vis, cands) ==
  LET f[n \in 0..Len(PluginList)] ==
        IF n = 0 THEN [loaded |-> loaded, settings |-> settings]
        ELSE LET st == f[n - 1]
                 p == PluginList[n]
             IN  IF p \in vis /\ p \notin st.loaded /\ p \in cands
                 THEN LoadPlugin(vis, st, p) ELSE st
  IN  f[Len(PluginList)]

Init ==
  /\ enabled \in [Plugins -> BOOLEAN]
  /\ settings = {}
  /\ visible = Builtin
  /\ loaded = {}
  /\ phase = "startup"
  /\ toggled = FALSE

(* _ide_application_load_plugins_for_startup (lines 302-343): only the    *)
(* embedded search path is known, and the At-Startup plugins are loaded.  *)
load_plugins_for_startup ==
  /\ phase = "startup"
  /\ LET st == LoadLoop(visible, AtStartup) IN
       /\ loaded' = st.loaded
       /\ settings' = st.settings
  /\ phase' = "idle"
  /\ UNCHANGED <<enabled, visible, toggled>>

(* Mutant: the second loop keeps the At-Startup filter of the first.     *)
load_plugins_startup_only ==
  /\ phase = "idle"
  /\ visible' = Plugins
  /\ LET st == LoadLoop(Plugins, AtStartup) IN
       /\ loaded' = st.loaded
       /\ settings' = st.settings
  /\ phase' = "running"
  /\ UNCHANGED <<enabled, toggled>>

(* _ide_application_load_plugins (lines 354-596): the disk search paths   *)
(* are prepended, the engine rescans, and every plugin not yet loaded is  *)
(* offered to _ide_application_load_plugin.                               *)
load_plugins ==
  /\ phase = "idle"
  /\ visible' = Plugins
  /\ LET st == LoadLoop(Plugins, Plugins) IN
       /\ loaded' = st.loaded
       /\ settings' = st.settings
  /\ phase' = "running"
  /\ UNCHANGED <<enabled, toggled>>

(* A write of a plugin's "enabled" key (preferences, gsettings), with the *)
(* "changed::enabled" handler ide_application_changed_plugin_cb (lines    *)
(* 31-52) when get_settings has connected one for that plugin.            *)
changed_plugin ==
  /\ phase # "startup"
  /\ \E p \in Plugins :
       /\ enabled' = [enabled EXCEPT ![p] = ~@]
       /\ loaded' = IF p \notin settings THEN loaded
                    ELSE IF enabled'[p] THEN PeasLoad(visible, loaded, p)
                    ELSE PeasUnload(p)
  /\ toggled' = TRUE
  /\ UNCHANGED <<settings, visible, phase>>

Next == load_plugins_for_startup \/ load_plugins \/ changed_plugin

Spec == Init /\ [][Next]_vars

-----------------------------------------------------------------------------
(* The reference for can_load: p loads when every plugin reachable from   *)
(* it is found, enabled and ABI-compatible, and no dependency cycle is    *)
(* reachable from it; in single-plugin mode exactly self->plugin loads.   *)
LoadableIn(G, E, vis, p) ==
  IF SinglePlugin # NULL THEN p = SinglePlugin
  ELSE LET R == ReachIn(G, vis, p) IN
       /\ Missing \notin R
       /\ \A q \in R : E[q] /\ (q \in Builtin \/ AbiAccepted(Abi[q]))
       /\ \A q \in R :
            q \notin UNION {ReachIn(G, vis, d) : d \in DepsOf(G, vis, q)}

Loadable(p) == LoadableIn(Deps, enabled, visible, p)

(* The dependency walk of ide_application_can_load_plugin, with its table *)
(* of modules on the current path, accepts exactly the plugins of the     *)
(* reference: a shared dependency reached twice (a diamond) is not taken  *)
(* for a cycle, and a cycle, a missing, disabled or wrong-ABI dependency  *)
(* anywhere below rejects the plugin.                                     *)
CanLoadMatchesReference ==
  \A p \in Plugins : CanLoad(visible, p).ok = Loadable(p)

(* Once both load loops have run, and before any "enabled" key has been   *)
(* written, the loaded plugins are exactly those the reference accepts:   *)
(* a startup plugin whose dependency only appears on the disk path is     *)
(* retried, and nothing the checks reject came in as a dependency.        *)
LoadedExactlyLoadable ==
  phase = "running" /\ ~toggled =>
    loaded = {p \in Plugins : Loadable(p)}

(* Every loaded plugin that is not bundled passed the X-Builder-ABI check *)
(* that can_load documents as required (lines 134-160).                  *)
LoadedPassedAbiCheck ==
  \A p \in loaded \ Builtin : AbiAccepted(Abi[p])

=============================================================================
