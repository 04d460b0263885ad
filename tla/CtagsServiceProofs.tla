------------------------ MODULE CtagsServiceProofs ------------------------
(***************************************************************************)
(* Proofs about CtagsService, for every file system and every value of    *)
(* the constants: the type invariant, and that the completion provider    *)
(* holds only built indexes, which MC_CtagsService checks on one tree.    *)
(***************************************************************************)
EXTENDS CtagsService, SequenceTheorems, TLAPS

\* A non-empty sequence keeps the type of its elements when its last
\* element is read, dropped or replaced by another element of the type.
LEMMA LastOps ==
    ASSUME NEW S, NEW st \in Seq(S), st # << >>, NEW x \in S
    PROVE  /\ st[Len(st)] \in S
           /\ SubSeq(st, 1, Len(st) - 1) \in Seq(S)
           /\ [st EXCEPT ![Len(st)] = x] \in Seq(S)
  <1>1. Len(st) \in Nat \ {0}
    OBVIOUS
  <1>2. st[Len(st)] \in S
    BY <1>1
  <1>3. SubSeq(st, 1, Len(st) - 1) \in Seq(S)
    BY <1>1
  <1>4. [st EXCEPT ![Len(st)] = x] \in Seq(S)
    BY <1>1
  <1>. QED
    BY <1>2, <1>3, <1>4

\* An activation of mine_directory built from typed parts is a Frame.
LEMMA ActivationType ==
    ASSUME NEW d \in Dirs, NEW r \in BOOLEAN,
           NEW pc \in {"visit", "load", "enum", "next"}, NEW P \in SUBSET Dirs
    PROVE  Activation(d, r, pc, P) \in Frame
  BY DEF Activation, Frame

\* Type correctness: every reachable state satisfies TypeOK.
THEOREM TypeCorrect == Spec => []TypeOK
<1> USE ConstantsAssumption
<1>1. Init => TypeOK
  <2> SUFFICES ASSUME Init PROVE TypeOK
    OBVIOUS
  <2>1. /\ roots \in Seq([dir: Dirs, recurse: BOOLEAN])
        /\ stack \in Seq(Frame)
        /\ timeouts \in Seq(Dirs)
    BY DEF Init
  <2>2. /\ waiting \in [Dirs -> Nat]
        /\ cached \in [Dirs -> BOOLEAN]
        /\ builds \subseteq Build
    BY DEF Init
  <2>. QED
    BY <2>1, <2>2 DEF Init, TypeOK, Tokens
<1>2. TypeOK /\ [Next]_vars => TypeOK'
  <2> SUFFICES ASSUME TypeOK, [Next]_vars PROVE TypeOK'
    OBVIOUS
  <2>1. CASE get_provider
    BY <2>1 DEF get_provider, TypeOK, MinerRoots, Tokens, cacheVars
  <2>2. CASE stop
    BY <2>2 DEF stop, TypeOK, Tokens, minerVars, cacheVars
  <2>3. CASE miner_next_root
    <3>1. Head(roots) \in [dir: Dirs, recurse: BOOLEAN]
      <4>1. roots \in Seq([dir: Dirs, recurse: BOOLEAN]) /\ roots # << >>
        BY <2>3 DEF miner_next_root, TypeOK
      <4>. QED
        BY <4>1, HeadTailProperties
    <3>2. Activation(Head(roots).dir, Head(roots).recurse, "visit", {})
            \in Frame
      BY <3>1, ActivationType
    <3>3. stack' \in Seq(Frame) /\ roots' \in Seq([dir: Dirs, recurse: BOOLEAN])
      BY <2>3, <3>2 DEF miner_next_root, TypeOK
    <3>. QED
      BY <2>3, <3>3 DEF miner_next_root, TypeOK, cacheVars
  <2>4. CASE miner_exit
    BY <2>4 DEF miner_exit, TypeOK, minerVars, cacheVars
  \* The four steps of mine_directory only pop the stack or move the top
  \* activation, and the last may push a child.
  <2>0. ASSUME stack \in Seq(Frame), stack # << >>
        PROVE  /\ Top \in Frame
               /\ Pop \in Seq(Frame)
               /\ \A pc \in {"visit", "load", "enum", "next"},
                     P \in SUBSET Dirs : Goto(pc, P) \in Seq(Frame)
    <3>1. Top \in Frame /\ Pop \in Seq(Frame)
      BY <2>0, LastOps DEF Top, Pop
    <3>2. ASSUME NEW pc \in {"visit", "load", "enum", "next"},
                 NEW P \in SUBSET Dirs
          PROVE  Goto(pc, P) \in Seq(Frame)
      <4>1. Activation(Top.dir, Top.recurse, pc, P) \in Frame
        BY <3>1, ActivationType DEF Frame
      <4>. QED
        BY <2>0, <4>1, LastOps DEF Goto, SetTop
    <3>. QED
      BY <3>1, <3>2
  <2>5. CASE mine_directory_visit
    BY <2>5, <2>0 DEF mine_directory_visit, TypeOK, cacheVars
  <2>6. CASE mine_directory_load
    <3>1. Top \in Frame /\ Goto("enum", {}) \in Seq(Frame)
      BY <2>6, <2>0 DEF mine_directory_load, TypeOK
    <3>2. Top.dir \in Dirs
      BY <3>1 DEF Frame
    <3>3. queued' \in [Dirs -> Nat]
      BY <2>6, <3>2 DEF mine_directory_load, TypeOK
    <3>4. /\ timeouts' = Append(timeouts, Top.dir)
          /\ stack' = Goto("enum", {})
          /\ UNCHANGED <<miner_ran, cancellable, cancelled, miner, roots,
                         cacheVars, stopCalled>>
      BY <2>6 DEF mine_directory_load
    <3>5. timeouts' \in Seq(Dirs) /\ stack' \in Seq(Frame)
      BY <3>1, <3>2, <3>4 DEF TypeOK
    <3>. QED
      BY <3>3, <3>4, <3>5 DEF TypeOK, cacheVars
  <2>7. CASE mine_directory_enum
    <3>1. Top \in Frame
      BY <2>7, <2>0 DEF mine_directory_enum, TypeOK
    <3>2. Children[Top.dir] \in SUBSET Dirs
      BY <3>1, ConstantsAssumption DEF Frame
    <3>. QED
      BY <2>7, <2>0, <3>2 DEF mine_directory_enum, TypeOK, cacheVars
  <2>8. CASE mine_directory_next
    <3>1. Top \in Frame /\ Pop \in Seq(Frame)
      BY <2>8, <2>0 DEF mine_directory_next, TypeOK
    <3>2. ASSUME NEW c \in Top.pending
          PROVE  Append(Goto("next", Top.pending \ {c}),
                        Activation(c, Top.recurse, "visit", {})) \in Seq(Frame)
      <4>1. Goto("next", Top.pending \ {c}) \in Seq(Frame)
        BY <2>8, <2>0, <3>1 DEF mine_directory_next, TypeOK, Frame
      <4>2. Activation(c, Top.recurse, "visit", {}) \in Frame
        BY <3>1, ActivationType DEF Frame
      <4>. QED
        BY <4>1, <4>2
    <3>. QED
      BY <2>8, <3>1, <3>2 DEF mine_directory_next, TypeOK, cacheVars
  <2>9. CASE do_load
    <3> DEFINE k == Head(timeouts)
    <3>1. k \in Dirs /\ Tail(timeouts) \in Seq(Dirs)
      BY <2>9 DEF do_load, TypeOK
    <3>2. builds' \subseteq Build /\ nextBuild' \in Nat
      <4>1. CASE \E b \in builds : b.key = k
        BY <2>9, <4>1 DEF do_load, TypeOK
      <4>2. CASE ~\E b \in builds : b.key = k
        <5>1. /\ builds' = builds \cup
                   {[id |-> nextBuild, key |-> k, token |-> cancellable]}
              /\ nextBuild' = nextBuild + 1
          BY <2>9, <4>2 DEF do_load
        <5>2. [id |-> nextBuild, key |-> k, token |-> cancellable] \in Build
          BY <3>1 DEF TypeOK, Build, Tokens
        <5>. QED
          BY <5>1, <5>2 DEF TypeOK
      <4>. QED
        BY <4>1, <4>2
    <3>3. waiting' \in [Dirs -> Nat]
      <4>1. waiting' = [waiting EXCEPT ![k] = @ + 1]
        BY <2>9 DEF do_load
      <4>. QED
        BY <3>1, <4>1 DEF TypeOK
    <3>4. /\ timeouts' = Tail(timeouts)
          /\ UNCHANGED <<miner_ran, cancellable, cancelled, miner, minerVars,
                         cached, provider, stopCalled>>
      BY <2>9 DEF do_load
    <3>5. timeouts' \in Seq(Dirs)
      BY <3>1, <3>4
    <3>. QED
      BY <3>2, <3>3, <3>4, <3>5 DEF TypeOK, minerVars
  <2>10. CASE \E b \in builds : build_index_finish(b)
    <3>1. PICK b \in builds : build_index_finish(b)
      BY <2>10
    <3>. QED
      BY <3>1 DEF build_index_finish, tags_loaded_cb, TypeOK, Build,
                  minerVars
  <2>11. CASE UNCHANGED vars
    BY <2>11 DEF vars, TypeOK
  <2>. QED
    BY <2>1, <2>2, <2>3, <2>4, <2>5, <2>6, <2>7, <2>8, <2>9, <2>10, <2>11
       DEF Next, MinerStep
<1>. QED
  BY <1>1, <1>2, PTL DEF Spec
-----------------------------------------------------------------------------
\* Only a finished build changes the provider or the cached indexes; it
\* adds its key to the provider only when it succeeded, and then the key
\* is cached. Every other step leaves both alone.
LEMMA ProviderStep ==
  TypeOK /\ ProviderOnlyBuilt /\ [Next]_vars => ProviderOnlyBuilt'
<1> SUFFICES ASSUME TypeOK, ProviderOnlyBuilt, [Next]_vars
             PROVE  ProviderOnlyBuilt'
  OBVIOUS
<1>1. ASSUME NEW b \in builds, build_index_finish(b)
      PROVE  ProviderOnlyBuilt'
  <2> DEFINE k == b.key
  <2>1. k \in Dirs
    BY DEF TypeOK, Build
  <2>2. PICK ok \in BOOLEAN :
          /\ cached' = [cached EXCEPT ![k] = @ \/ ok]
          /\ provider' = IF ok /\ waiting[k] > 0
                           THEN provider \cup {k} ELSE provider
    BY <1>1 DEF build_index_finish, tags_loaded_cb
  <2>3. ASSUME NEW j \in provider' PROVE cached'[j]
    <3>1. CASE j = k
      <4>1. cached'[k] = (cached[k] \/ ok)
        BY <2>1, <2>2 DEF TypeOK
      <4>2. ok \/ k \in provider
        BY <2>2, <3>1
      <4>. QED
        BY <3>1, <4>1, <4>2 DEF ProviderOnlyBuilt
    <3>2. CASE j # k
      <4>1. j \in provider
        BY <2>2, <3>2
      <4>. QED
        BY <2>2, <3>2, <4>1 DEF ProviderOnlyBuilt, TypeOK
    <3>. QED
      BY <3>1, <3>2
  <2>. QED
    BY <2>3 DEF ProviderOnlyBuilt
<1>2. CASE UNCHANGED <<cached, provider>>
  BY <1>2 DEF ProviderOnlyBuilt
<1>. QED
  BY <1>1, <1>2 DEF Next, MinerStep, get_provider, stop, miner_next_root,
     miner_exit, mine_directory_visit, mine_directory_load,
     mine_directory_enum, mine_directory_next, do_load, vars, cacheVars

\* The provider holds only indexes the cache has built, in every state.
THEOREM ProviderBuilt == Spec => []ProviderOnlyBuilt
<1>1. Init => ProviderOnlyBuilt
  BY DEF Init, ProviderOnlyBuilt
<1>2. TypeOK /\ ProviderOnlyBuilt /\ [Next]_vars => ProviderOnlyBuilt'
  BY ProviderStep
<1>. QED
  BY <1>1, <1>2, TypeCorrect, PTL DEF Spec
====
