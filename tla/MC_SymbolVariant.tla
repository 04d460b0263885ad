--------------------------- MODULE MC_SymbolVariant ---------------------------
(* The symbol encoding over every symbol built from two kinds, two flag    *)
(* values, one name or none, and two locations or none in each of the      *)
(* three location fields.                                                 *)
EXTENDS SymbolVariant

VARIABLE sym

Init == sym \in Symbols

Next == UNCHANGED sym

(* to_variant then new_from_variant gives back the symbol.                *)
SymbolRoundTrip == RoundTrip(sym)
=============================================================================
