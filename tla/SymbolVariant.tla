---------------------------- MODULE SymbolVariant ----------------------------
(***************************************************************************)
(* IdeSymbol and its GVariant form (src/src/libide/symbols/ide-symbol.c): *)
(* ide_symbol_new, ide_symbol_to_variant and ide_symbol_new_from_variant. *)
(* A GVariant is a record of its type ("a{sv}", "v" for a boxed variant,  *)
(* or another type) and its value: for a vardict, a function from the     *)
(* keys present to typed values.  A source location is a model value; its *)
(* own variant form (ide_source_location_to_variant, not under src/) is   *)
(* a value of type "loc".                                                 *)
(***************************************************************************)
EXTENDS Naturals

CONSTANTS
  Kinds,   \* IdeSymbolKind values (0 is the default of new_from_variant)
  Flags,   \* IdeSymbolFlags values
  Names,   \* symbol names
  Locs,    \* source locations
  NULL

Keys == {"kind", "flags", "name", "declaration", "definition", "canonical"}
LocField == [declaration |-> "decl", definition |-> "def",
             canonical |-> "canon"]

(* The fields of struct _IdeSymbol that the variant carries.              *)
Symbols == [kind : Kinds, flags : Flags, name : Names \cup {NULL},
            decl : Locs \cup {NULL}, def : Locs \cup {NULL},
            canon : Locs \cup {NULL}]

(* ide_symbol_new (lines 60-89): a symbol holding the given fields.       *)
SymbolNew(name, kind, flags, decl, def, canon) ==
  [kind |-> kind, flags |-> flags, name |-> name,
   decl |-> decl, def |-> def, canon |-> canon]

Typed(t, v) == [t |-> t, v |-> v]

(* ide_symbol_to_variant (lines 370-403): a vardict with kind, flags and  *)
(* name, and each location the symbol has.  g_variant_new_parsed of a     *)
(* NULL %s does not produce a variant, so a nameless symbol has none.     *)
ToVariantDefined(s) == s.name # NULL

ToVariant(s) ==
  LET present == {k \in {"declaration", "definition", "canonical"} :
                    s[LocField[k]] # NULL}
  IN  [type |-> "a{sv}",
       dict |-> [k \in {"kind", "flags", "name"} \cup present |->
                   CASE k = "kind"  -> Typed("i", s.kind)
                     [] k = "flags" -> Typed("i", s.flags)
                     [] k = "name"  -> Typed("s", s.name)
                     [] OTHER       -> Typed("loc", s[LocField[k]])]]

(* NULL, the null pointer, is none of the variants of a symbol, boxed or  *)
(* not.                                                                   *)
ASSUME NullNoVariant ==
  \A s \in Symbols :
    NULL \notin {ToVariant(s), [type |-> "v", inner |-> ToVariant(s)]}

(* g_variant_dict_lookup with a format string: the value when the key is  *)
(* present with that type, otherwise dflt.                               *)
Lookup(dict, k, t, dflt) ==
  IF k \in DOMAIN dict /\ dict[k].t = t THEN dict[k].v ELSE dflt

(* ide_source_location_new_from_variant of g_variant_dict_lookup_value:   *)
(* a location for a location variant, NULL for a missing key.             *)
LocFrom(dict, k) == Lookup(dict, k, "loc", NULL)

(* Mutant: the definition location is read from the "declaration" key.   *)
FromVariantMixed(var) ==
  LET v == IF var # NULL /\ var.type = "v" THEN var.inner ELSE var IN
  IF var = NULL \/ v.type # "a{sv}" THEN NULL
  ELSE SymbolNew(Lookup(v.dict, "name", "s", NULL),
                 Lookup(v.dict, "kind", "i", 0),
                 Lookup(v.dict, "flags", "i", 0),
                 LocFrom(v.dict, "declaration"),
                 LocFrom(v.dict, "declaration"),
                 LocFrom(v.dict, "canonical"))

(* ide_symbol_new_from_variant (lines 404-453).                           *)
FromVariant(var) ==
  LET v == IF var # NULL /\ var.type = "v" THEN var.inner ELSE var IN
  IF var = NULL \/ v.type # "a{sv}" THEN NULL
  ELSE SymbolNew(Lookup(v.dict, "name", "s", NULL),
                 Lookup(v.dict, "kind", "i", 0),
                 Lookup(v.dict, "flags", "i", 0),
                 LocFrom(v.dict, "declaration"),
                 LocFrom(v.dict, "definition"),
                 LocFrom(v.dict, "canonical"))

-----------------------------------------------------------------------------
(* A symbol that to_variant can encode comes back unchanged from          *)
(* new_from_variant, whether the variant is passed as is or boxed in a    *)
(* "v": every field to_variant writes is read back under its own key and  *)
(* type, and a location the symbol lacks is read back as NULL.           *)
RoundTrip(s) ==
  ToVariantDefined(s) =>
    /\ FromVariant(ToVariant(s)) = s
    /\ FromVariant([type |-> "v", inner |-> ToVariant(s)]) = s

=============================================================================
