------------------------- MODULE TerminalPreferences -------------------------
(***************************************************************************)
(* The terminal plugin's preferences addin (src/src/plugins/terminal/     *)
(* gbp-terminal-preferences-addin.c).  load adds the plugin's rows to the *)
(* preferences and keeps the id of each; unload removes rows by the ids   *)
(* it kept.  The preferences window is modelled as the set of rows it     *)
(* shows, each with the id dzl_preferences_add_* returned.  libpeas calls *)
(* load and unload alternately as the terminal plugin is enabled and      *)
(* disabled while a preferences window is open.                           *)
(***************************************************************************)
EXTENDS Naturals

CONSTANTS
  MaxCycles   \* how many times the plugin may be loaded, a positive number

(* The rows load adds, one per field of GbpTerminalPreferencesAddin.      *)
Rows == {"font", "allow_bold", "allow_hyperlink", "scroll_on_output",
         "scroll_on_keystroke", "limit", "lines"}

(* The ids unload passes to dzl_preferences_remove_id (lines 140-145).    *)
RemovedOnUnload == Rows \ {"allow_hyperlink"}

VARIABLES
  shown,     \* rows of the preferences: [id, field] pairs
  field_id,  \* the addin's *_id fields
  next_id,   \* the next id dzl_preferences hands out
  loaded,    \* the addin is loaded
  cycles     \* loads so far

vars == <<shown, field_id, next_id, loaded, cycles>>

TypeOK ==
  /\ shown \subseteq [id : Nat, field : Rows]
  /\ field_id \in [Rows -> Nat]
  /\ next_id \in Nat /\ loaded \in BOOLEAN /\ cycles \in 0..MaxCycles

Init ==
  /\ shown = {}
  /\ field_id = [f \in Rows |-> 0]
  /\ next_id = 1
  /\ loaded = FALSE
  /\ cycles = 0

(* The ids the seven dzl_preferences_add_* calls return, in call order.   *)
Order == <<"font", "allow_bold", "allow_hyperlink", "scroll_on_output",
           "scroll_on_keystroke", "limit", "lines">>

IdOf(f) == next_id + CHOOSE i \in 0..6 : Order[i + 1] = f

(* gbp_terminal_preferences_addin_load (lines 41-129).                    *)
addin_load ==
  /\ ~loaded /\ cycles < MaxCycles
  /\ field_id' = [f \in Rows |-> IdOf(f)]
  /\ shown' = shown \cup {[id |-> IdOf(f), field |-> f] : f \in Rows}
  /\ next_id' = next_id + 7
  /\ loaded' = TRUE
  /\ cycles' = cycles + 1

(* gbp_terminal_preferences_addin_unload (lines 131-146).                 *)
addin_unload ==
  /\ loaded
  /\ shown' = {r \in shown : r.id \notin {field_id[f] : f \in RemovedOnUnload}}
  /\ loaded' = FALSE
  /\ UNCHANGED <<field_id, next_id, cycles>>

Next == addin_load \/ addin_unload

Spec == Init /\ [][Next]_vars

(* Once the addin is unloaded, no row it added is left in the            *)
(* preferences: unload removes every id load obtained.                    *)
NoRowAfterUnload == ~loaded => shown = {}
=============================================================================
