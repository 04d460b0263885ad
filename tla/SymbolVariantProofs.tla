------------------------- MODULE SymbolVariantProofs -------------------------
(***************************************************************************)
(* The round trip of ide_symbol_to_variant and ide_symbol_new_from_variant *)
(* (SymbolVariant.tla) for every set of kinds, flags, names and           *)
(* locations: TLC checks it on 216 symbols, the proof on all of them.     *)
(***************************************************************************)
EXTENDS MC_SymbolVariant, TLAPS

(* A field that to_variant writes is read back by g_variant_dict_lookup   *)
(* under the same key and type.                                           *)
LEMMA LookupPresent ==
  ASSUME NEW D, NEW k \in DOMAIN D, NEW t, NEW v, NEW dflt, D[k] = Typed(t, v)
  PROVE  Lookup(D, k, t, dflt) = v
BY DEF Lookup, Typed

(* A key that to_variant leaves out is read back as the default.          *)
LEMMA LookupAbsent ==
  ASSUME NEW D, NEW k, k \notin DOMAIN D, NEW t, NEW dflt
  PROVE  Lookup(D, k, t, dflt) = dflt
BY DEF Lookup

(* The vardict of a symbol gives back each of the symbol's fields.        *)
LEMMA DictFields ==
  ASSUME NEW s \in Symbols
  PROVE  LET D == ToVariant(s).dict IN
         /\ Lookup(D, "name", "s", NULL) = s.name
         /\ Lookup(D, "kind", "i", 0) = s.kind
         /\ Lookup(D, "flags", "i", 0) = s.flags
         /\ LocFrom(D, "declaration") = s.decl
         /\ LocFrom(D, "definition") = s.def
         /\ LocFrom(D, "canonical") = s.canon
<1> DEFINE D == ToVariant(s).dict
           present == {k \in {"declaration", "definition", "canonical"} :
                         s[LocField[k]] # NULL}
<1>1. /\ DOMAIN D = {"kind", "flags", "name"} \cup present
      /\ \A k \in DOMAIN D :
           D[k] = CASE k = "kind"  -> Typed("i", s.kind)
                    [] k = "flags" -> Typed("i", s.flags)
                    [] k = "name"  -> Typed("s", s.name)
                    [] OTHER       -> Typed("loc", s[LocField[k]])
  BY DEF ToVariant
<1>2. /\ D["name"] = Typed("s", s.name)
      /\ D["kind"] = Typed("i", s.kind)
      /\ D["flags"] = Typed("i", s.flags)
  BY <1>1
<1>3. ASSUME NEW k \in {"declaration", "definition", "canonical"}
      PROVE  LocFrom(D, k) = s[LocField[k]]
  <2>1. CASE s[LocField[k]] # NULL
    <3>1. k \in DOMAIN D /\ D[k] = Typed("loc", s[LocField[k]])
      BY <1>1, <2>1
    <3>2. QED
      BY <3>1, LookupPresent DEF LocFrom
  <2>2. CASE s[LocField[k]] = NULL
    <3>1. k \notin DOMAIN D
      BY <1>1, <2>2
    <3>2. QED
      BY <3>1, <2>2, LookupAbsent DEF LocFrom
  <2>3. QED
    BY <2>1, <2>2
<1>4. /\ s[LocField["declaration"]] = s.decl
      /\ s[LocField["definition"]] = s.def
      /\ s[LocField["canonical"]] = s.canon
  BY DEF LocField
<1>5. QED
  BY <1>1, <1>2, <1>3, <1>4, LookupPresent

(* new_from_variant of a vardict builds the symbol of its fields.         *)
LEMMA FromDict ==
  ASSUME NEW s \in Symbols
  PROVE  LET var == ToVariant(s) IN
         /\ FromVariant(var) = s
         /\ FromVariant([type |-> "v", inner |-> var]) = s
<1> DEFINE var == ToVariant(s)
           D == var.dict
<1>1. /\ var.type = "a{sv}" /\ var # NULL
      /\ [type |-> "v", inner |-> var] # NULL
  BY NullNoVariant DEF ToVariant
<1>2. SymbolNew(Lookup(D, "name", "s", NULL), Lookup(D, "kind", "i", 0),
                Lookup(D, "flags", "i", 0), LocFrom(D, "declaration"),
                LocFrom(D, "definition"), LocFrom(D, "canonical")) = s
  <2>1. /\ Lookup(D, "name", "s", NULL) = s.name
        /\ Lookup(D, "kind", "i", 0) = s.kind
        /\ Lookup(D, "flags", "i", 0) = s.flags
        /\ LocFrom(D, "declaration") = s.decl
        /\ LocFrom(D, "definition") = s.def
        /\ LocFrom(D, "canonical") = s.canon
    BY DictFields
  <2>2. QED
    BY <2>1 DEF SymbolNew, Symbols
<1>3. FromVariant(var) = s
  BY <1>1, <1>2 DEF FromVariant
<1>4. FromVariant([type |-> "v", inner |-> var]) = s
  BY <1>1, <1>2 DEF FromVariant
<1>5. QED
  BY <1>3, <1>4

(* RoundTrip, the property of run symbol_roundtrip, for every symbol:     *)
(* a symbol with a name that to_variant encodes comes back unchanged from *)
(* new_from_variant, boxed in a "v" or not.                               *)
THEOREM RoundTripAll == \A s \in Symbols : RoundTrip(s)
BY FromDict DEF RoundTrip

(* SymbolRoundTrip, the invariant of run symbol_roundtrip, for every set  *)
(* of kinds, flags, names and locations: whichever symbol the run starts  *)
(* from, new_from_variant gives it back from its to_variant encoding.     *)
THEOREM SymbolRoundTripAlways == Init /\ [][Next]_sym => []SymbolRoundTrip
<1>1. Init => SymbolRoundTrip
  BY RoundTripAll DEF Init, SymbolRoundTrip
<1>2. SymbolRoundTrip /\ [Next]_sym => SymbolRoundTrip'
  BY DEF SymbolRoundTrip, Next
<1>3. QED
  BY <1>1, <1>2, PTL
=============================================================================
