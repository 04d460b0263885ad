# TLA+ models of Alwarsha's IDE library

This directory holds TLA+ models of the C sources under `src/`, with three kinds of check:

- TLC configurations that model-check the models on small instances;
- TLAPS proof modules for the ctags service, the plugin path arithmetic, symbol serialisation, IdeSettings and the tweaks window;
- the project file `PROJECT.json`, which records the runs, the mutants, the map from every definition to the source lines it models, the findings and the hazards.

## The system and its parts

| Part | Source | Module(s) | Status |
|---|---|---|---|
| ctags index service | `src/libide/ctags/ide-ctags-service.c` | `CtagsService`, `MC_CtagsService`, `CtagsServiceProofs` | modelled |
| plugin loader | `src/src/libide/gui/ide-application-plugins.c` lines 31-343, 509-596 | `PluginLoader`, `MC_PluginLoader`, `MC_PluginCanLoad` | partly |
| plugin install paths | same file, lines 357-508 | `PluginPaths`, `PluginPathsProofs` | modelled |
| IdeSettings | `src/src/libide/core/ide-settings.c` | `Settings`, `MC_Settings`, `SettingsProofs` | partly |
| symbol serialisation | `src/src/libide/symbols/ide-symbol.c` | `SymbolVariant`, `MC_SymbolVariant`, `SymbolVariantProofs` | partly |
| terminal preferences addin | `src/src/plugins/terminal/gbp-terminal-preferences-addin.c` | `TerminalPreferences` | modelled |
| tweaks window, directory row | `src/src/libide/tweaks/ide-tweaks-window.c`, `ide-tweaks-directory.c` | `Tweaks`, `MC_Tweaks`, `TweaksProofs` | partly |
| application actions | `src/src/libide/gui/ide-application-actions.c` | none | not modelled |
| rust-analyzer service, plugin registration stubs, headers | `src/src/plugins/...`, `*.h` | none | not modelled |

How the parts interact:

- The application loads plugins in two phases:
  - At startup, only the embedded plugins are visible, and the At-Startup ones among them are loaded.
  - Later, `_ide_application_load_plugins` computes the install prefix from `/proc/self/exe`, which is what `PluginPaths` models. It then adds the disk search paths and offers every plugin not yet loaded to `ide_application_can_load_plugin`.
  - Each plugin's `enabled` key lives in a GSettings object. Its `changed::enabled` handler loads or unloads the plugin later on.
- Plugins contribute services and preferences. The ctags service feeds the completion provider from `tags` files that a worker thread finds. The terminal plugin adds rows to the preferences window.
- IdeSettings is the layered settings object that the IDE's components read and write through a GActionGroup.

## Modules

Every model keeps the control flow of its handler: guards, early returns, error paths and their order. Data is abstracted to what the properties distinguish:

- directories, plugins, items and locations are model values;
- strings are short sequences of characters (the ABI string) or of path segments (settings paths);
- buffers are sizes together with the set of indices written.

### CtagsService: the ctags service

The model has three execution contexts, which TLC interleaves:

- **The main loop.**
  - `get_provider` is the first call. It runs `ide_ctags_service_mine`, which makes the session cancellable and starts the thread.
  - `stop` is the IdeService vfunc. It cancels the session and clears `self->cancellable`.
  - `do_load` runs each zero-delay timeout queued by `load_tags`. It calls `egg_task_cache_get_async` with force-update and the cancellable read *when the timeout runs*.
- **The miner thread.**
  - `miner_next_root` and `miner_exit` model `ide_ctags_service_miner`, which walks three roots in order.
  - Four actions model the recursion of `mine_directory` as an explicit stack of activations. Each activation records the directory, the recurse flag, a program counter and the children not yet enumerated:
    - `mine_directory_visit` is the cancellation check and the query of `<dir>/tags`;
    - `mine_directory_load` queues the timeout;
    - `mine_directory_enum` is the early return or the enumeration;
    - `mine_directory_next` is one turn of the enumeration loop, with the children in any order.
- **The index builds.** `build_index_finish` is `build_index_init_cb` together with the cache's answer to every request waiting on the key. Each waiting request then runs `tags_loaded_cb`, which adds the index only when the build succeeded. A build under a cancelled session fails; any other build may fail.

EggTaskCache is not under `src/`. It is modelled by the force-update behaviour that the service relies on: a request joins the build in flight for its key, or populates the key anew.

**The walk, checked.** The history variable `queued[d]` counts the `load_tags` calls the miner made for directory d. `MinedTagsExact` compares it with `ExpectedLoads(d)`, which is stated without the model's stack: the directories reachable from the working tree and from `/usr/include` through readable directories (`Reach`, the reflexive transitive closure of `Enumerates`, from the community module `Relation`), plus the home directory itself, counting only directories whose `tags` file can be queried. The count may never exceed this, and must equal it when the miner finishes before stop cancels the session.

### PluginLoader: the plugin loader

- **`CanLoadIn`** translates `ide_application_can_load_plugin`. It is a recursive function `Walk[q, circ, i]` over the plugin, the `circular` table and the position in the dependency list. It returns:
  - the verdict;
  - the table after the call;
  - the plugins whose settings `_ide_application_plugin_get_settings` created, since that call connects the `changed::enabled` handler.

  The early returns keep their order: single-plugin mode, then cycle, then disabled, then ABI, then dependencies. Removal from the table happens only on success, as in the code.
- **`LoadLoop`** is the loop over `peas_engine_get_plugin_list`, as a fold over the list.
- **The two loops** are `load_plugins_for_startup` and `load_plugins`.
- **`changed_plugin`** is a write of an `enabled` key. When the plugin has a settings object, the write also runs the handler.
- **libpeas** is modelled by its contract:
  - loading a plugin loads its dependency closure, or nothing when a dependency is missing;
  - unloading a plugin unloads its dependents.

### PluginPaths: the install-prefix arithmetic

- `readlink` into a 256-byte buffer, then `MIN` against `len - 1` compared as `size_t`, modulo `2^SizeWidth`.
- `strlen`, which reads an uninitialised buffer when `readlink` failed.
- The six variable-length arrays. For each, the model records its declared size and the set of indices that the copy loops and suffix writes touch.

### Settings: IdeSettings

- **Layer paths.** `ConstructError`, `AppPath`, `ProjectPath` and `Layers` translate `ide_settings_constructed`: the `g_error` checks and the app and project paths.
- **Keys.** Each schema has its own keys (`SchemaKeys`). A key is boolean or a string with a set of choices (`KeyType`, `Range`), and `KeyVals(k)` is what `g_settings_schema_key_range_check` accepts for it. The assumption `SettingsConstants` states that every default is in its key's range and that NULL is no value.
- **Stored values.** `dconf` maps each path and key to its stored value, or to NULL when nothing is stored there. It starts empty, so each read first returns the schema default. `state` is the action state each IdeSettings last announced.
- **Actions.**
  - `change_action_state` checks the argument's type and range, writes, and announces. An argument of another type, or a string outside the range, changes nothing. The write emits the layered `changed` signal, so every IdeSettings sharing the layer re-reads and announces (`Announce`).
  - `activate_action` handles a boolean key and a string key differently. On a boolean key it reads the state and writes its negation, or returns when given a parameter. On a string key it passes the parameter to `change_action_state`.
  - `set_value` is `ide_settings_set_value` and the typed setters. They write to the first layer and announce through the signal.
  - `external_write` is a write or a reset by another process or tool, seen through the same signal.
- **IdeLayeredSettings** is not under `src/`. It is modelled from the section comment of `ide-settings.c`: a read returns the first layer that has a value, else the default, and a write goes to the first layer. These definitions are marked `spec_modelled` in the map.

### SymbolVariant: symbol serialisation

`ToVariant` and `FromVariant` translate `ide_symbol_to_variant` and `ide_symbol_new_from_variant` over typed vardict entries. A variant is either a vardict, a value of another type, or either of these boxed in a `v`.

### TerminalPreferences: the terminal preferences addin

`addin_load` adds the seven rows and keeps their ids. `addin_unload` removes the ids that unload passes to `dzl_preferences_remove_id`.

### Tweaks: the tweaks window and directory row

- **Window.** `set_tweaks` has an early return for the same tweaks. Otherwise it clears, releases the old tweaks, takes the new one and rebuilds. Like the code, it has no guard against a disposed window. `dispose` clears as well and sets `self->tweaks` to NULL.
- **Directory row.**
  - `show_panel` is the panel list, which is not under `src/`, showing a page whose rows come from `create_for_item`.
  - `button_clicked` opens a chooser that holds the row as unreferenced data.
  - `chooser_response` runs only while the item lives, because the handler is connected with `g_signal_connect_object`.
- `set_tweaks` is offered only live IdeTweaks (`Alive`): that is the caller's obligation, since the window takes a reference of what it is given.
- **Lifetime.** An IdeTweaks is finalized when the window drops it, unless its caller holds it (`HeldElsewhere`).

## Runs

A pass run must finish with no error; a violation run must end with TLC reporting the named property violated.

| Run | cfg | Expect | What it shows |
|---|---|---|---|
| ctags_safety | `MC_CtagsService.cfg` | pass | over every interleaving of miner, timeouts, stop and builds, `ProviderOnlyBuilt`: only successfully built indexes reach the provider; `MinedTagsExact`: the recursive walk queues each tags file once per root that reaches it, never more, and exactly that often when it finishes uncancelled, past an unreadable directory |
| ctags_builds_cancellable | `MC_CtagsService_BuildsCancellable.cfg` | violation | a timeout that runs after stop starts a build with no cancellable |
| plugin_canload | `MC_PluginCanLoad.cfg` | pass | the can_load walk equals a reference definition on every graph of three plugins with up to two dependencies each, and every `enabled` assignment |
| plugin_loader | `MC_PluginLoader.cfg` | pass | after both loops, the loaded set is exactly the plugins whose closure passes all checks |
| plugin_abi_bypass | `MC_PluginLoader_AbiBypass.cfg` | violation | re-enabling a plugin loads it without the ABI check |
| plugin_paths | `MC_PluginPaths.cfg` | pass | every buffer is in bounds for every successful readlink and installed path length up to 300 |
| plugin_paths_short | `MC_PluginPaths_Short.cfg` | violation | a short path (or a failed readlink) breaks the bounds |
| terminal_unload | `MC_TerminalPreferences.cfg` | violation | the hyperlink row survives unload |
| symbol_roundtrip | `MC_SymbolVariant.cfg` | pass | to_variant followed by new_from_variant is the identity on encodable symbols, boxed or not |
| settings_actions | `MC_Settings.cfg` | pass | announced action states stay equal to reads across shared layers, and each project layer mirrors its user layer |
| tweaks_window | `MC_Tweaks.cfg` | pass | the window shows only its current tweaks, across every sequence of calls, set_tweaks after dispose included |
| tweaks_freed_row | `MC_Tweaks_FreedRow.cfg` | violation | a chooser answered after set_tweaks writes a finalized row |

The findings each violation run establishes are described in `PROJECT.json` ("findings"). Every property of a pass run has a mutant in `PROJECT.json`: a plausible bug in the mapped code that makes TLC report the property violated.

### Bounds and why they suffice

**ctags.** There are five directories:

- the working tree is the home directory, so one tags file is requested twice while its build is in flight, and is expected twice by `MinedTagsExact`;
- the tree has a nested directory;
- `/usr/include` has no tags file of its own, a readable child and an unreadable child, both with tags files: the walk must skip the unreadable one and still reach its sibling.

This reaches every branch of `mine_directory`, stop at every point of the miner, and builds that succeed, fail, or are cancelled.

**Plugin loader.**

- `a` depends on `b` and `c`, and both depend on `d`: a diamond.
- `e` has a rejected ABI.
- The built-ins are `{a, b, c}` and the At-Startup set is `{a}`. `a`'s dependency `d` is on disk, so `a` fails at startup and must be retried.
- The `enabled` keys start in every combination.

`MC_PluginCanLoad` enumerates every dependency graph of three plugins, including self-loops, cycles, diamonds and missing dependencies, together with every `enabled` assignment.

The instances of `MC_PluginLoader` are fixed by the constants, not enumerated.

**PluginPaths.** `size_t` is 16 bits wide (TLC integers are 32-bit). The wrap-around of `-1` happens at any width of at least 9 bits, because the result is then at least 255.

**Settings.** There are six instances:

- a plain schema;
- a project on a schema id;
- a project on the schema's own path;
- a project on a sub-path;
- a project on a fixed-path schema;
- one that fails construction.

Several of them share a layer. "editor" has one boolean key; "terminal" has that key and a string key with one choice. One string argument lies outside every range, so the refusal branch of `change_action_state` is taken. From the empty dconf, the writes reach every combination of stored values.

**Tweaks.** There are two tweaks objects, one held by its caller, with one, two and zero directory items, and up to five widgets.

### Fairness

No run checks liveness, and no specification has fairness. That every request attached to an index build is answered is EggTaskCache's behaviour, which is not under `src/`; the model takes it as given (`build_index_finish` answers every waiting request) rather than checking it.

## What is proved

`CtagsServiceProofs` proves two theorems with TLAPS, for every file system and every choice of roots, home directory and include directory, from the assumption `ConstantsAssumption` on the constants:

- `TypeCorrect`: `Spec => []TypeOK`. It rests on two lemmas: `LastOps`, on reading, dropping or replacing the last element of a sequence (the miner's stack), and `ActivationType`.
- `ProviderBuilt`: `Spec => []ProviderOnlyBuilt`. With `TypeOK` the invariant is inductive (`ProviderStep`): only a finished build changes `provider` or `cached`; it adds its key to the provider only when it succeeded, and in the same step records the key as cached. The proof splits on whether the key added is the build's key.

`MinedTagsExact` is checked by TLC only. A proof would need an invariant relating the miner's stack of activations to the closure `Reach`, and that relation is an induction over the directory tree.

### The other proof modules

- **`TweaksProofs`** proves `TypeCorrect` and `ShowsCurrent`, which is `Spec => []ShowsCurrentTweaks`, for every set of tweaks objects and items. `ShowsCurrentTweaks` needs two more facts to be inductive:
  - every panel and panel list names the current tweaks;
  - with no tweaks both stacks are empty, and otherwise the panel list stack holds exactly one list.

  The second fact is what lets `set_tweaks` from NULL, and `dispose` without tweaks, leave the stacks as they are. It rests on the assumption `TweaksConstants`.

- **`PluginPathsProofs`** proves `InstalledInBounds`, which is `Spec => []InstalledBuffersInBounds`, for every installed path length and every width of `size_t`. The assumption `PathConstants` requires `SizeMax = 2^SizeWidth` to exceed `sizeof (pBuf)`. The lemma `ArraysInBounds` carries the argument: the prefix length is positive, the copy loops stop one below it, and every suffix write ends at the last index.
- **`SymbolVariantProofs`** proves `SymbolRoundTripAlways`, which is `Init /\ [][Next]_sym => []SymbolRoundTrip` for `MC_SymbolVariant`. It follows from `RoundTripAll`: every symbol with a name comes back from `to_variant` and `new_from_variant` unchanged, boxed or not. This is the `RoundTrip` that run `symbol_roundtrip` checks on 216 symbols. It rests on `NullNoVariant`, which says NULL is no GVariant.
- **`SettingsProofs`** proves three theorems for every set of schemas, objects, keys and values, under `SettingsConstants`:
  - `TypeCorrect`;
  - `AnnouncedCurrent`, which is `Spec => []AnnouncedStateCurrent`;
  - `ProjectLayersMirrorAlways`, which is `Spec => []ProjectLayersMirror`. The lemma `MirrorsApp` shows that every IdeSettings, constructed or not, mirrors its user layer. It splits on whether the path property is set, and unfolds `AppPath` and `ProjectPath`. The invariant therefore needs no induction.

  `AnnouncedStateCurrent` is not inductive as stated. A write re-reads only the key written, so the invariant must also cover keys outside the object's schema. The inductive invariant `IInv` is `TypeOK` together with `Current(dconf, state)`: every object's state, for every key, equals the read. TLC checks `IInv` on the `settings_actions` instance. Two lemmas carry the step:
  - `ValueCongruence`: a read of key k through i depends only on entry k of i's layers;
  - `WrittenFirst`: a value written through i is what the next read returns, because the first layer is read first.

  `activate_action` on a boolean key is covered by `AnnouncedCurrent`: it writes the negation of the read value, and the announcement it makes must equal the next read.

**What only TLC checks.**

- Liveness needs fairness and ENABLED, which the prover does not handle; no run states a liveness property.
- `MinedTagsExact`, as above.
- The plugin loader's `CanLoadMatchesReference` and `LoadedExactlyLoadable` rest on the recursive functions `Walk` (can_load), `ReachIn` (the dependency closure, built by iterating `r[n]`) and `LoadLoop`. Each proof would need induction over data:
  - on `n`, to show that `ReachIn` is the closure;
  - on the walk's depth, to show that `Walk` agrees with `LoadableIn`;
  - on the plugin list, to show what the loop loads.

  The library's induction theorems take the predicate as an operator parameter, which neither Z3 nor Zenon can instantiate. So the loader has no theorem, not even its type invariant: `PeasLoad` stays in `Plugins` only because `ReachIn` avoids `Missing`, which is again the closure fact.

## Observations not stated as properties

Modelling turned up four further disagreements between the code and its documentation. None is checked by a run.

1. **`ide_ctags_service_get_provider` (line 262)** tests only `miner_ran`. A call after `stop` makes a new cancellable and starts mining for a stopped service, while the spec says a stopped service stays stopped.
2. **The X-Builder-ABI test (`ide-application-plugins.c:154`)** accepts any prefix of `IDE_VERSION_S` that is followed by `.`, for example `"3"`. The comment and the error message ask for major.minor.
3. **`ide_symbol_new_from_variant` (line 437)** builds a symbol whose name is NULL when the vardict has no string name. `ide_symbol_to_variant` formats the name with `<%s>`, so it cannot encode that symbol.
4. **`ide_settings_constructed` (line 159)** adds no project layer for a schema with a fixed path. A project IdeSettings over such a schema therefore writes the user's defaults, contrary to the section comment at lines 33-46.

## Not modelled

- **Application actions.** The about, quit, tweaks, stats and style actions are one-shot UI calls. The cancel action's weak notify, which removes an action from the application's action map in whatever thread drops the cancellable, is a hazard in `PROJECT.json`.
- **Settings bindings.** `ide_settings_bind` and `bind_with_mapping` hand a GObject property to IdeLayeredSettings, which is not under `src/`.
- **Other parts of the plugin file.** Resource loading, the load and unload signal handlers, and the application addin set are I/O and registration.
- **Other code.** The rust-analyzer service, the plugin registration stubs and the headers have no state machine.
- **Symlink cycles in the ctags miner.** The directory tree is acyclic in the model. A symlink cycle would make the miner's stack unbounded.

## Plan for later sittings

1. State the four observations above as properties, with one run each.
2. Prove `MinedTagsExact`, with an invariant relating the miner's stack to `Reach`.
3. Give the ctags model symlinked directories, with a bound on the depth, to exhibit the unbounded recursion.
4. State a `Settings` property about announcements. An object whose layers keep their value for a key should never announce a change of it. This is implied by `AnnouncedStateCurrent` and `ValueCongruence`, so it needs a mutant that breaks it alone before it earns a run.
5. Give the plugin loader an abstract specification: the loaded set as the greatest set closed under the checks. Show the loader refines it, in the steps that need no induction over the graph.
