--------------------------- MODULE CtagsService ---------------------------
(***************************************************************************)
(* The ctags index service of libide/ctags/ide-ctags-service.c.           *)
(*                                                                         *)
(* Three execution contexts share the service:                            *)
(*  - the main loop, which runs ide_ctags_service_get_provider, the        *)
(*    IdeService stop vfunc, the zero-delay do_load timeouts and the       *)
(*    completion callbacks of the index cache;                             *)
(*  - the miner thread (g_task_run_in_thread), which walks the working     *)
(*    tree, the home directory and /usr/include and queues one do_load     *)
(*    timeout per "tags" file it finds;                                    *)
(*  - the index builds (g_async_initable_init_async of IdeCtagsIndex),    *)
(*    one per key the EggTaskCache decides to populate.                    *)
(*                                                                         *)
(* A directory is a model value; the file <dir>/tags is named by its      *)
(* directory, and that file is the key of the index cache.                *)
(***************************************************************************)
EXTENDS Naturals, Sequences, FiniteSets

LOCAL INSTANCE Relation

CONSTANTS
    Dirs,         \* the directories of the file system
    Children,     \* Children[d]: the sub-directories listed by enumerating d
    TagsDirs,     \* directories holding a regular file named "tags"
    UnreadableDirs, \* directories whose children cannot be queried or listed
    WorkDir,      \* ide_vcs_get_working_directory (vcs)
    HomeDir,      \* g_get_home_dir ()
    IncludeDir,   \* "/usr/include"
    Session,      \* the GCancellable made by ide_ctags_service_mine
    NULL

ASSUME ConstantsAssumption ==
    /\ Children \in [Dirs -> SUBSET Dirs]
    /\ TagsDirs \subseteq Dirs
    /\ UnreadableDirs \subseteq Dirs
    /\ {WorkDir, HomeDir, IncludeDir} \subseteq Dirs
    /\ Session # NULL

\* The cancellables the service can hand to a cache request.
Tokens == {Session, NULL}

\* Variant of MinerRoots that walks /usr/include without recursing.
MinerRootsIncludeFlat ==
              << [dir |-> WorkDir,    recurse |-> TRUE],
                 [dir |-> HomeDir,    recurse |-> FALSE],
                 [dir |-> IncludeDir, recurse |-> FALSE] >>

\* The three roots ide_ctags_service_miner walks, in its order.
MinerRoots == << [dir |-> WorkDir,    recurse |-> TRUE],
                 [dir |-> HomeDir,    recurse |-> FALSE],
                 [dir |-> IncludeDir, recurse |-> TRUE] >>

\* One activation of ide_ctags_service_mine_directory on the miner stack:
\* "visit" before the cancellation check, "load" after the tags file was
\* found, "enum" before enumerating, "next" inside the enumeration loop
\* with the children not yet returned by g_file_enumerator_next_file.
Frame == [dir: Dirs, recurse: BOOLEAN,
          pc: {"visit", "load", "enum", "next"}, pending: SUBSET Dirs]

\* An index build in flight: the cancellable of the request that made the
\* cache populate the key, and a serial number telling builds apart.
Build == [id: Nat, key: Dirs, token: Tokens]

VARIABLES
    miner_ran,    \* self->miner_ran
    cancellable,  \* self->cancellable (Session or NULL)
    cancelled,    \* g_cancellable_is_cancelled (Session)
    miner,        \* "none" before the thread starts, then "running", "done"
    roots,        \* roots ide_ctags_service_miner has still to walk
    stack,        \* the recursion of ide_ctags_service_mine_directory
    timeouts,     \* do_load sources queued by g_timeout_add (0, ...)
    builds,       \* index builds in flight (EggTaskCache populate tasks)
    nextBuild,    \* serial number of the next build
    waiting,      \* waiting[k]: get_async requests for k not answered yet
    cached,       \* cached[k]: the cache holds a built index for k
    provider,     \* indexes added to the completion provider
    stopCalled,   \* history: the service's stop vfunc has run
    queued        \* history: queued[d], the load_tags calls made for d

vars == <<miner_ran, cancellable, cancelled, miner, roots, stack, timeouts,
          builds, nextBuild, waiting, cached, provider, stopCalled, queued>>

minerVars == <<roots, stack, queued>>
cacheVars == <<builds, nextBuild, waiting, cached, provider>>
-----------------------------------------------------------------------------
TypeOK ==
    /\ miner_ran \in BOOLEAN
    /\ cancellable \in Tokens
    /\ cancelled \in BOOLEAN
    /\ miner \in {"none", "running", "done"}
    /\ roots \in Seq([dir: Dirs, recurse: BOOLEAN])
    /\ stack \in Seq(Frame)
    /\ timeouts \in Seq(Dirs)
    /\ builds \subseteq Build
    /\ nextBuild \in Nat
    /\ waiting \in [Dirs -> Nat]
    /\ cached \in [Dirs -> BOOLEAN]
    /\ provider \subseteq Dirs
    /\ stopCalled \in BOOLEAN
    /\ queued \in [Dirs -> Nat]

Init ==
    /\ miner_ran = FALSE
    /\ cancellable = NULL
    /\ cancelled = FALSE
    /\ miner = "none"
    /\ roots = << >>
    /\ stack = << >>
    /\ timeouts = << >>
    /\ builds = {}
    /\ nextBuild = 0
    /\ waiting = [k \in Dirs |-> 0]
    /\ cached = [k \in Dirs |-> FALSE]
    /\ provider = {}
    /\ stopCalled = FALSE
    /\ queued = [d \in Dirs |-> 0]
-----------------------------------------------------------------------------
(***************************************************************************)
(* Main loop: the public entry point and the stop vfunc.                  *)
(***************************************************************************)

\* ide_ctags_service_get_provider: the first call runs
\* ide_ctags_service_mine, which makes a fresh cancellable and starts the
\* miner thread with it; later calls only return the provider.
get_provider ==
    /\ ~miner_ran
    /\ miner_ran' = TRUE
    /\ cancellable' = Session
    /\ miner' = "running"
    /\ roots' = MinerRoots
    /\ UNCHANGED <<cancelled, stack, queued, timeouts, cacheVars, stopCalled>>

\* ide_ctags_service_stop: cancel the cancellable if there is one and it is
\* not cancelled yet, then clear self->cancellable. The context stops a
\* service once.
stop ==
    /\ ~stopCalled
    /\ cancelled' = (cancelled \/ cancellable = Session)
    /\ cancellable' = NULL
    /\ stopCalled' = TRUE
    /\ UNCHANGED <<miner_ran, miner, minerVars, timeouts, cacheVars>>
-----------------------------------------------------------------------------
(***************************************************************************)
(* Miner thread: ide_ctags_service_miner and the recursion of             *)
(* ide_ctags_service_mine_directory, with the cancellable of the task,    *)
(* which is the Session cancellable.                                      *)
(***************************************************************************)

Top == stack[Len(stack)]
Pop == SubSeq(stack, 1, Len(stack) - 1)
SetTop(f) == [stack EXCEPT ![Len(stack)] = f]
\* The activation of mine_directory for d, at step pc.
Activation(d, recurse, pc, pending) ==
    [dir |-> d, recurse |-> recurse, pc |-> pc, pending |-> pending]
\* The top activation moves on to step pc with the children still pending.
Goto(pc, pending) == SetTop(Activation(Top.dir, Top.recurse, pc, pending))

\* ide_ctags_service_miner: walk the next root.
miner_next_root ==
    /\ miner = "running"
    /\ stack = << >>
    /\ roots # << >>
    /\ stack' = << Activation(Head(roots).dir, Head(roots).recurse,
                              "visit", {}) >>
    /\ roots' = Tail(roots)
    /\ UNCHANGED <<miner_ran, cancellable, cancelled, miner, queued, timeouts,
                   cacheVars, stopCalled>>

\* ide_ctags_service_miner returns and the thread ends.
miner_exit ==
    /\ miner = "running"
    /\ stack = << >>
    /\ roots = << >>
    /\ miner' = "done"
    /\ UNCHANGED <<miner_ran, cancellable, cancelled, minerVars, timeouts,
                   cacheVars, stopCalled>>

\* Entry of mine_directory: return at once when cancelled, otherwise query
\* the type of <dir>/tags (the query fails when cancelled or when the
\* directory cannot be read).
mine_directory_visit ==
    /\ miner = "running"
    /\ stack # << >>
    /\ Top.pc = "visit"
    /\ IF cancelled
         THEN stack' = Pop
         ELSE stack' = Goto(IF Top.dir \in TagsDirs \ UnreadableDirs
                              THEN "load" ELSE "enum", {})
    /\ UNCHANGED <<miner_ran, cancellable, cancelled, miner, roots, queued,
                   timeouts, cacheVars, stopCalled>>

\* ide_ctags_service_load_tags: queue do_load on the main loop.
mine_directory_load ==
    /\ miner = "running"
    /\ stack # << >>
    /\ Top.pc = "load"
    /\ timeouts' = Append(timeouts, Top.dir)
    /\ queued' = [queued EXCEPT ![Top.dir] = @ + 1]
    /\ stack' = Goto("enum", {})
    /\ UNCHANGED <<miner_ran, cancellable, cancelled, miner, roots,
                   cacheVars, stopCalled>>

\* Return when not recursing; otherwise enumerate the children. The
\* enumerator is NULL when cancelled or unreadable, and the loop then
\* never runs.
mine_directory_enum ==
    /\ miner = "running"
    /\ stack # << >>
    /\ Top.pc = "enum"
    /\ IF ~Top.recurse \/ cancelled \/ Top.dir \in UnreadableDirs
         THEN stack' = Pop
         ELSE stack' = Goto("next", Children[Top.dir])
    /\ UNCHANGED <<miner_ran, cancellable, cancelled, miner, roots, queued,
                   timeouts, cacheVars, stopCalled>>

\* One turn of the enumeration loop: next_file returns NULL once cancelled
\* or when no child is left, otherwise recurse into a child, in whatever
\* order the enumerator lists them.
mine_directory_next ==
    /\ miner = "running"
    /\ stack # << >>
    /\ Top.pc = "next"
    /\ IF cancelled \/ Top.pending = {}
         THEN stack' = Pop
         ELSE \E c \in Top.pending :
                stack' = Append(Goto("next", Top.pending \ {c}),
                                Activation(c, Top.recurse, "visit", {}))
    /\ UNCHANGED <<miner_ran, cancellable, cancelled, miner, roots, queued,
                   timeouts, cacheVars, stopCalled>>
-----------------------------------------------------------------------------
(***************************************************************************)
(* Main loop: do_load and the index cache.                                *)
(***************************************************************************)

\* do_load: egg_task_cache_get_async (indexes, file, TRUE,
\* self->cancellable, ...). With force_update the cache does not answer
\* from a stored index: it attaches the request to the build in flight for
\* the key, or populates the key anew through
\* ide_ctags_service_build_index_cb, whose init_async takes the
\* cancellable of the request.
do_load ==
    /\ timeouts # << >>
    /\ LET k == Head(timeouts) IN
         /\ IF \E b \in builds : b.key = k
              THEN UNCHANGED <<builds, nextBuild>>
              ELSE /\ builds' = builds \cup
                        {[id |-> nextBuild, key |-> k, token |-> cancellable]}
                   /\ nextBuild' = nextBuild + 1
         /\ waiting' = [waiting EXCEPT ![k] = @ + 1]
    /\ timeouts' = Tail(timeouts)
    /\ UNCHANGED <<miner_ran, cancellable, cancelled, miner, minerVars,
                   cached, provider, stopCalled>>

\* Variant of tags_loaded_cb that adds whatever get_finish returned,
\* without testing it for NULL.
tags_loaded_cb_unchecked(k, ok) ==
    provider' = IF waiting[k] > 0 THEN provider \cup {k} ELSE provider

\* ide_ctags_service_tags_loaded_cb, run for the requests waiting on k:
\* egg_task_cache_get_finish yields the index only when the build
\* succeeded, and only then is it added to the provider.
tags_loaded_cb(k, ok) ==
    provider' = IF ok /\ waiting[k] > 0 THEN provider \cup {k} ELSE provider

\* ide_ctags_service_build_index_init_cb returns the index or the error of
\* init_async; the cache hands the result to every request attached to the
\* key, each of which runs ide_ctags_service_tags_loaded_cb. A build under
\* a cancelled cancellable ends cancelled; any other build may fail (the
\* file vanished or cannot be read).
build_index_finish(b) ==
    /\ \E ok \in IF b.token = Session /\ cancelled THEN {FALSE}
                                                    ELSE BOOLEAN :
         /\ cached' = [cached EXCEPT ![b.key] = @ \/ ok]
         /\ tags_loaded_cb(b.key, ok)
    /\ builds' = builds \ {b}
    /\ waiting' = [waiting EXCEPT ![b.key] = 0]
    /\ UNCHANGED <<miner_ran, cancellable, cancelled, miner, minerVars,
                   timeouts, nextBuild, stopCalled>>
-----------------------------------------------------------------------------
MinerStep ==
    \/ miner_next_root
    \/ miner_exit
    \/ mine_directory_visit
    \/ mine_directory_load
    \/ mine_directory_enum
    \/ mine_directory_next

Next ==
    \/ get_provider
    \/ stop
    \/ MinerStep
    \/ do_load
    \/ \E b \in builds : build_index_finish(b)

Spec == Init /\ [][Next]_vars
-----------------------------------------------------------------------------
(***************************************************************************)
(* Properties.                                                             *)
(***************************************************************************)

\* ide_ctags_service_tags_loaded_cb only hands the provider an index the
\* cache has built: a failed or cancelled build adds nothing.
ProviderOnlyBuilt ==
    \A k \in provider : cached[k]

\* An edge of the walk: mine_directory enumerates d (it can be read) and
\* recurses into its sub-directory c.
Enumerates == [e \in Dirs \X Dirs |->
                 e[1] \notin UnreadableDirs /\ e[2] \in Children[e[1]]]

\* Reach[d, c]: mine_directory (d, TRUE) reaches c, d itself included.
Reach == ReflexiveTransitiveClosure(Enumerates, Dirs)

\* How often the miner should call load_tags for d: once for each of the
\* trees under the working directory and under /usr/include that holds d,
\* once more when d is the home directory, never for a directory whose
\* tags file cannot be queried.
ExpectedLoads(d) ==
    IF d \in TagsDirs \ UnreadableDirs
    THEN Cardinality({r \in {"work", "include"} :
                        Reach[IF r = "work" THEN WorkDir ELSE IncludeDir, d]})
         + (IF d = HomeDir THEN 1 ELSE 0)
    ELSE 0

\* The miner queues each tags file once per root that reaches it, never
\* more, and, when it finishes before stop cancels the session, exactly
\* that often: the working tree and /usr/include are walked recursively,
\* the home directory only for its own tags file, an unreadable directory
\* neither yields its tags file nor stops the walk of its siblings.
MinedTagsExact ==
    /\ \A d \in Dirs : queued[d] <= ExpectedLoads(d)
    /\ miner = "done" /\ ~cancelled =>
         \A d \in Dirs : queued[d] = ExpectedLoads(d)

\* Every build the service starts can be cancelled by the service's stop:
\* the request that populates a key carries the mining session's
\* cancellable (spec: cancelling the session propagates to the builds it
\* started).
BuildsCancellable ==
    \A b \in builds : b.token = Session

=============================================================================
