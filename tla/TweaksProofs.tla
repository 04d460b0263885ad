---------------------------- MODULE TweaksProofs ----------------------------
(***************************************************************************)
(* Proofs about the tweaks window (Tweaks.tla) for every set of tweaks    *)
(* objects and items and every bound on the widgets made.                 *)
(*                                                                         *)
(* ShowsCurrentTweaks is inductive together with TypeOK: a panel or panel *)
(* list names an IdeTweaks, never NULL, so with no current tweaks both    *)
(* stacks are empty, and that is what lets set_tweaks from NULL and       *)
(* dispose without tweaks leave them as they are.                         *)
(***************************************************************************)
EXTENDS Tweaks, FiniteSetTheorems, TLAPS

(* A step keeps every variable in its type: widget ids stay within        *)
(* 0..MaxId, rows and choosers name items, and only IdeTweaks objects are *)
(* ever freed.                                                            *)
LEMMA TypeStep == TypeOK /\ [Next]_vars => TypeOK'
<1> SUFFICES ASSUME TypeOK, [Next]_vars PROVE TypeOK'
  OBVIOUS
<1>1. CASE set_tweaks
  BY <1>1, TweaksConstants
     DEF set_tweaks, Alive, Clear, ClearPanelStack, RowsOf, Released,
         Rebuild, TypeOK, Ids, Row, vars
<1>2. CASE dispose
  BY <1>2, TweaksConstants
     DEF dispose, Clear, ClearPanelStack, RowsOf, Released, TypeOK, vars
<1>3. CASE show_panel
  BY <1>3, TweaksConstants DEF show_panel, TypeOK, Ids, Row
<1>4. CASE button_clicked
  BY <1>4, TweaksConstants DEF button_clicked, TypeOK, Ids, Row
<1>5. CASE chooser_response
  BY <1>5 DEF chooser_response, TypeOK
<1>6. CASE UNCHANGED vars
  BY <1>6 DEF vars, TypeOK
<1>7. QED
  BY <1>1, <1>2, <1>3, <1>4, <1>5, <1>6 DEF Next

(* The window starts with every variable in its type.                    *)
LEMMA TypeInit == Init => TypeOK
<1> SUFFICES ASSUME Init PROVE TypeOK
  OBVIOUS
<1>1. nextId \in Ids
  BY TweaksConstants DEF Init, Ids
<1>2. QED
  BY <1>1 DEF Init, TypeOK

(* The type invariant of the tweaks window.                               *)
LEMMA TypeCorrect == Spec => []TypeOK
BY TypeInit, TypeStep, PTL DEF Spec

(* The strengthening the step proof needs: besides ShowsCurrentTweaks,    *)
(* the panel list stack holds at most the one list, as a set.             *)
IInv ==
  /\ TypeOK
  /\ \A w \in lists \cup panels : w.tweaks = tweaks
  /\ IF tweaks = NULL THEN lists = {} ELSE \E w : lists = {w}

LEMMA IInvShows == IInv => ShowsCurrentTweaks
BY FS_EmptySet, FS_Singleton DEF IInv, ShowsCurrentTweaks

(* With no current tweaks both stacks are empty.                          *)
LEMMA NullEmpty ==
  ASSUME IInv, tweaks = NULL
  PROVE  lists = {} /\ panels = {}
BY TweaksConstants DEF IInv, TypeOK

\* IInv is preserved by every step of the window.
LEMMA ShowsCurrentStep == IInv /\ [Next]_vars => IInv'
<1>2. IInv /\ [Next]_vars => IInv'
  <2> SUFFICES ASSUME IInv, [Next]_vars PROVE IInv'
    OBVIOUS
  <2>0. TypeOK'
    BY TypeStep DEF IInv
  <2>1. CASE set_tweaks
    <3> PICK t \in {x \in TweaksObjs : Alive(x)} \cup {NULL} :
          IF t = tweaks THEN UNCHANGED vars
          ELSE /\ t # NULL => nextId < MaxId
               /\ IF tweaks # NULL THEN Clear /\ freed' = Released(tweaks)
                                   ELSE UNCHANGED <<panels, rows, freed>>
               /\ lists' = IF t # NULL THEN {Rebuild(t)} ELSE {}
               /\ nextId' = IF t # NULL THEN nextId + 1 ELSE nextId
               /\ tweaks' = t
               /\ UNCHANGED <<choosers, disposed, wroteFreed>>
      BY <2>1 DEF set_tweaks
    <3>1. CASE t = tweaks
      BY <3>1, <2>0 DEF IInv, vars
    <3>2. CASE t # tweaks
      <4>1. panels' = {}
        <5>1. CASE tweaks # NULL
          BY <3>2, <5>1 DEF Clear, ClearPanelStack
        <5>2. CASE tweaks = NULL
          BY <3>2, <5>2, NullEmpty
        <5>3. QED
          BY <5>1, <5>2
      <4>2. lists' = IF t # NULL THEN {Rebuild(t)} ELSE {}
        BY <3>2
      <4>3. tweaks' = t
        BY <3>2
      <4>4. CASE t = NULL
        BY <4>1, <4>2, <4>3, <4>4, <2>0 DEF IInv
      <4>5. CASE t # NULL
        <5>1. lists' = {Rebuild(t)} /\ Rebuild(t).tweaks = t
          BY <4>2, <4>5 DEF Rebuild
        <5>2. \A w \in lists' \cup panels' : w.tweaks = tweaks'
          BY <4>1, <4>3, <5>1
        <5>3. \E w : lists' = {w}
          BY <5>1
        <5>4. QED
          BY <4>3, <4>5, <5>2, <5>3, <2>0 DEF IInv
      <4>6. QED
        BY <4>4, <4>5
    <3>4. QED
      BY <3>1, <3>2
  <2>2. CASE dispose
    <3>1. CASE tweaks # NULL
      BY <2>2, <3>1, <2>0 DEF dispose, IInv, Clear, ClearPanelStack
    <3>2. CASE tweaks = NULL
      BY <2>2, <3>2, <2>0, NullEmpty DEF dispose, IInv
    <3>3. QED
      BY <3>1, <3>2
  <2>3. CASE show_panel
    BY <2>3, <2>0 DEF show_panel, IInv
  <2>4. CASE button_clicked
    BY <2>4, <2>0 DEF button_clicked, IInv
  <2>5. CASE chooser_response
    BY <2>5, <2>0 DEF chooser_response, IInv
  <2>6. CASE UNCHANGED vars
    BY <2>6, <2>0 DEF vars, IInv
  <2>7. QED
    BY <2>1, <2>2, <2>3, <2>4, <2>5, <2>6 DEF Next
<1>. QED
  BY <1>2

(* Whatever sequence of set_tweaks and dispose calls, panels shown and    *)
(* choosers answered the window gets, it shows its current tweaks only:   *)
(* the ShowsCurrentTweaks invariant of run tweaks_window, for every       *)
(* instance.                                                              *)
THEOREM ShowsCurrent == Spec => []ShowsCurrentTweaks
<1>1. Init => IInv
  BY TypeInit DEF Init, IInv
<1>2. QED
  BY <1>1, ShowsCurrentStep, IInvShows, PTL DEF Spec
====
