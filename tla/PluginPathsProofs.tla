-------------------------- MODULE PluginPathsProofs --------------------------
(***************************************************************************)
(* The install-prefix arithmetic of _ide_application_load_plugins         *)
(* (PluginPaths.tla) for every executable path length and every width of  *)
(* size_t that holds sizeof (pBuf): TLC checks lengths up to 300 with a   *)
(* 16-bit size_t, the proof covers them all.                              *)
(***************************************************************************)
EXTENDS PluginPaths, TLAPS

(* x % SizeMax is a size_t value.                                         *)
LEMMA AsSizeType ==
  ASSUME NEW x \in Int
  PROVE  AsSize(x) \in 0..(SizeMax - 1)
BY PathConstants DEF AsSize, BufLen

(* Whatever readlink returns, strlen (pBuf) is an integer.                *)
LEMMA PathLensType ==
  ASSUME NEW n \in Int, NEW f \in BOOLEAN
  PROVE  PathLens(n, f) \subseteq Int
<1>1. Readlink(n, f) \in Int
  BY DEF Readlink, BufLen
<1>2. Bytes(n, f) \in Int
  BY <1>1, AsSizeType DEF Bytes, MinSize, BufLen
<1>3. QED
  BY <1>2 DEF PathLens, BufLen

(* The bounds of the six arrays for a path of length n > 17: the prefix   *)
(* length L = n - 17 is positive, the copy loops leave i = L - 1, and the *)
(* suffix writes end at most at the last index; plugin_lib_dir and        *)
(* plugin_data_dir are filled to their last byte.                         *)
LEMMA ArraysInBounds ==
  ASSUME NEW n \in Int, n > Suffix
  PROVE  \A name \in DOMAIN Arrays(n) : InBounds(Arrays(n)[name])
<1> DEFINE L == n - Suffix
           E == L - 1
           A == Arrays(n)
<1>1. L \in Nat \ {0} /\ AfterCopy(L) = E
  BY DEF Suffix, AfterCopy
<1>2. AfterCopy(E + 21) = E + 20 /\ AfterCopy(E + 6) = E + 5
  BY <1>1 DEF AfterCopy
<1>3. DOMAIN A = {"real_prefix_path", "package_datadir", "pachage_libdir",
                  "girepositorydir", "plugin_lib_dir", "plugin_data_dir"}
  BY DEF Arrays
<1>4. InBounds(A.real_prefix_path)
  BY <1>1 DEF Arrays, InBounds
<1>5. InBounds(A.package_datadir)
  BY <1>1 DEF Arrays, InBounds
<1>6. InBounds(A.pachage_libdir)
  BY <1>1 DEF Arrays, InBounds
<1>7. InBounds(A.girepositorydir)
  BY <1>1, <1>2 DEF Arrays, InBounds
<1>8. InBounds(A.plugin_lib_dir)
  BY <1>1, <1>2 DEF Arrays, InBounds
<1>9. InBounds(A.plugin_data_dir)
  BY <1>1, <1>2 DEF Arrays, InBounds
<1>10. QED
  BY <1>3, <1>4, <1>5, <1>6, <1>7, <1>8, <1>9

(* InstalledBuffersInBounds, the invariant of run plugin_paths, holds for *)
(* every path length: an executable installed as                          *)
(* <prefix>/bin/gnome-builder with a non-empty prefix gets directory      *)
(* buffers large enough for every byte the copy loops and suffix writes   *)
(* put in them.                                                           *)
THEOREM InstalledInBounds == Spec => []InstalledBuffersInBounds
<1>1. Init => TypeOK
  BY PathConstants, PathLensType DEF Init, TypeOK
<1>2. TypeOK => InstalledBuffersInBounds
  BY ArraysInBounds DEF TypeOK, InstalledBuffersInBounds
<1>3. TypeOK /\ [Next]_vars => TypeOK'
  BY DEF TypeOK, Next, vars
<1>4. QED
  BY <1>1, <1>2, <1>3, PTL DEF Spec
=============================================================================
