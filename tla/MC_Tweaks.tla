------------------------------ MODULE MC_Tweaks ------------------------------
(* Two IdeTweaks: t1, kept by its caller, with two directory items of      *)
(* which one has settings, and t2, owned by the window alone.             *)
EXTENDS Tweaks, TLC

CONSTANTS t1, t2, i1, i2, i3

MCTweaksObjs == {t1, t2}
MCItems == {i1, i2, i3}
MCOwner == (i1 :> t1) @@ (i2 :> t1) @@ (i3 :> t2)
MCHasSettings == {i1, i3}
MCHeldElsewhere == {t1}
=============================================================================
