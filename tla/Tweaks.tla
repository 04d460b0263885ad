------------------------------- MODULE Tweaks -------------------------------
(***************************************************************************)
(* The tweaks window (src/src/libide/tweaks/ide-tweaks-window.c) and the  *)
(* directory row of a tweaks page (ide-tweaks-directory.c) with the file  *)
(* chooser its button opens.                                              *)
(*                                                                         *)
(* The window holds an IdeTweaks; its panel_list_stack holds the panel    *)
(* list of the current tweaks and its panel_stack the panels shown, whose *)
(* rows are made by create_for_item.  A row's button opens a file chooser *)
(* that keeps the row as plain object data ("ENTRY") and answers through  *)
(* a handler connected with g_signal_connect_object to the directory item *)
(* (disconnected when the item is finalized).  An item lives as long as  *)
(* its IdeTweaks, which the window references and which the caller that  *)
(* made the window may reference too.                                     *)
(***************************************************************************)
EXTENDS Naturals, FiniteSets

CONSTANTS
  TweaksObjs,     \* IdeTweaks objects
  Items,          \* IdeTweaksDirectory items
  Owner,          \* Owner[i]: the IdeTweaks item i belongs to
  HasSettings,    \* the items whose settings property is set
  HeldElsewhere,  \* the IdeTweaks a caller keeps a reference to
  MaxId,          \* bound on the widgets made
  NULL

ASSUME TweaksConstants ==
  /\ Owner \in [Items -> TweaksObjs]
  /\ HasSettings \subseteq Items
  /\ HeldElsewhere \subseteq TweaksObjs
  /\ MaxId \in Nat
  /\ NULL \notin TweaksObjs

VARIABLES
  tweaks,      \* self->tweaks
  lists,       \* the panel lists in panel_list_stack: [id, tweaks]
  panels,      \* the panels in panel_stack: [id, tweaks]
  rows,        \* the entry rows alive: [panel, item]
  choosers,    \* the open file choosers: [id, entry, info]
  freed,       \* the IdeTweaks finalized
  disposed,    \* the window has been disposed
  nextId,      \* the next widget id
  wroteFreed   \* history: a chooser set the text of a finalized row

vars == <<tweaks, lists, panels, rows, choosers, freed, disposed, nextId,
          wroteFreed>>

Ids == 0..MaxId
Row == [panel : Ids, item : Items]

TypeOK ==
  /\ tweaks \in TweaksObjs \cup {NULL}
  /\ lists \subseteq [id : Ids, tweaks : TweaksObjs]
  /\ panels \subseteq [id : Ids, tweaks : TweaksObjs]
  /\ rows \subseteq Row
  /\ choosers \subseteq [id : Ids, entry : Row, info : Items]
  /\ freed \subseteq TweaksObjs
  /\ disposed \in BOOLEAN
  /\ nextId \in Ids
  /\ wroteFreed \in BOOLEAN

(* An IdeTweaks and its items live while the window or a caller holds it. *)
Alive(t) == t \notin freed

Init ==
  /\ tweaks = NULL
  /\ lists = {} /\ panels = {} /\ rows = {} /\ choosers = {}
  /\ freed = {}
  /\ disposed = FALSE
  /\ nextId = 0
  /\ wroteFreed = FALSE

(* The second loop of ide_tweaks_window_clear left out: the panels stay. *)
ClearPanelStackKept(ps) == ps

(* The second loop of ide_tweaks_window_clear (lines 60-61): every panel  *)
(* is removed from panel_stack.                                           *)
ClearPanelStack(ps) == {}

(* The rows alive once the panels ps remain: a removed panel finalizes    *)
(* its rows.                                                              *)
RowsOf(ps) == {r \in rows : \E p \in ps : p.id = r.panel}

(* ide_tweaks_window_clear (lines 49-62): the panel list and the panels   *)
(* are removed from their stacks.                                         *)
Clear ==
  /\ panels' = ClearPanelStack(panels)
  /\ rows' = RowsOf(panels')

(* g_clear_object (&self->tweaks): the window's reference is dropped, and *)
(* t is finalized unless a caller holds it.                               *)
Released(t) == IF t \in HeldElsewhere THEN freed ELSE freed \cup {t}

(* ide_tweaks_window_rebuild (lines 64-78): the new panel list for t.     *)
Rebuild(t) == [id |-> nextId, tweaks |-> t]

(* ide_tweaks_window_set_tweaks (lines 192-215): nothing when t is the    *)
(* current tweaks; otherwise clear and release the old one, then take t   *)
(* and rebuild.                                                           *)
set_tweaks ==
  /\ \E t \in {x \in TweaksObjs : Alive(x)} \cup {NULL} :
       IF t = tweaks THEN UNCHANGED vars
       ELSE /\ t # NULL => nextId < MaxId
            /\ IF tweaks # NULL THEN Clear /\ freed' = Released(tweaks)
                                ELSE UNCHANGED <<panels, rows, freed>>
            /\ lists' = IF t # NULL THEN {Rebuild(t)} ELSE {}
            /\ nextId' = IF t # NULL THEN nextId + 1 ELSE nextId
            /\ tweaks' = t
            /\ UNCHANGED <<choosers, disposed, wroteFreed>>

(* ide_tweaks_window_dispose (lines 80-92).                               *)
dispose ==
  /\ ~disposed
  /\ disposed' = TRUE
  /\ tweaks' = NULL
  /\ IF tweaks # NULL THEN Clear /\ lists' = {} /\ freed' = Released(tweaks)
     ELSE UNCHANGED <<lists, panels, rows, freed>>
  /\ UNCHANGED <<choosers, nextId, wroteFreed>>

(* The panel list shows a page of the current tweaks in panel_stack; its  *)
(* directory items get a row from ide_tweaks_directory_create_for_item    *)
(* (lines 142-202), which makes none for an item without settings.        *)
show_panel ==
  /\ ~disposed /\ tweaks # NULL /\ nextId < MaxId
  /\ panels' = panels \cup {[id |-> nextId, tweaks |-> tweaks]}
  /\ rows' = rows \cup {[panel |-> nextId, item |-> i] :
                          i \in {x \in HasSettings : Owner[x] = tweaks}}
  /\ nextId' = nextId + 1
  /\ UNCHANGED <<tweaks, lists, choosers, freed, disposed, wroteFreed>>

(* on_button_clicked_cb (lines 104-140): a chooser is opened with the row *)
(* stored as "ENTRY" without a reference, and its response handler bound  *)
(* to the item.                                                           *)
button_clicked ==
  /\ nextId < MaxId
  /\ \E r \in rows :
       choosers' = choosers \cup {[id |-> nextId, entry |-> r, info |-> r.item]}
  /\ nextId' = nextId + 1
  /\ UNCHANGED <<tweaks, lists, panels, rows, freed, disposed, wroteFreed>>

(* on_chooser_response_cb (lines 76-102), run only while the item lives:  *)
(* an accepted native file sets the text of "ENTRY", and the chooser is   *)
(* destroyed.                                                             *)
chooser_response ==
  \E ch \in choosers, accept \in BOOLEAN, native \in BOOLEAN :
    /\ Alive(Owner[ch.info])
    /\ wroteFreed' = (wroteFreed \/ (accept /\ native /\ ch.entry \notin rows))
    /\ choosers' = choosers \ {ch}
    /\ UNCHANGED <<tweaks, lists, panels, rows, freed, disposed, nextId>>

Next ==
  \/ set_tweaks \/ dispose \/ show_panel \/ button_clicked \/ chooser_response

Spec == Init /\ [][Next]_vars
-----------------------------------------------------------------------------
(* Whatever sequence of set_tweaks calls the window gets, both of its     *)
(* stacks show the current tweaks and nothing of a former one: one panel  *)
(* list, for self->tweaks, and only panels of it.                         *)
ShowsCurrentTweaks ==
  /\ \A w \in lists \cup panels : w.tweaks = tweaks
  /\ Cardinality(lists) = IF tweaks = NULL THEN 0 ELSE 1

(* A directory row's file chooser never sets the text of a row that has   *)
(* been finalized: the row it keeps as "ENTRY" outlives every answer.     *)
NoWriteToFreedRow == ~wroteFreed

=============================================================================
