----------------------------- MODULE PluginPaths -----------------------------
(***************************************************************************)
(* The install-prefix arithmetic at the top of _ide_application_load_     *)
(* plugins (src/src/libide/gui/ide-application-plugins.c, lines 357-514): *)
(* the executable's path is read with readlink("/proc/self/exe"), its     *)
(* last 17 characters ("bin/gnome-builder") are cut off, and the plugin   *)
(* and typelib directories are built in variable-length arrays.  Only the *)
(* lengths matter here: each array is its declared size and the set of   *)
(* indices the code writes into it.                                       *)
(***************************************************************************)
EXTENDS Integers

CONSTANTS
  SizeWidth,  \* the width of size_t in bits
  MaxExe      \* the longest executable path considered

BufLen == 256                      \* sizeof (pBuf)
Suffix == 17                       \* strlen ("bin/gnome-builder")
SizeMax == 2 ^ SizeWidth           \* the values of size_t are 0..SizeMax-1

(* size_t holds sizeof (pBuf).                                            *)
ASSUME PathConstants ==
  /\ SizeWidth \in Nat /\ SizeMax \in Nat /\ SizeMax > BufLen
  /\ MaxExe \in Nat

(* MIN (readlink (...), len - 1) (line 360): ssize_t against size_t, so   *)
(* both are compared as size_t and a failed readlink's -1 wraps around.  *)
AsSize(x) == x % SizeMax
MinSize(a, b) == IF AsSize(a) < AsSize(b) THEN AsSize(a) ELSE AsSize(b)

(* readlink into the 256-byte buffer: the path's first 256 bytes, or -1.  *)
Readlink(n, fails) == IF fails THEN -1 ELSE IF n < BufLen THEN n ELSE BufLen

Bytes(n, fails) == MinSize(Readlink(n, fails), BufLen - 1)

(* strlen (pBuf) (line 364): the path has no NUL, so the terminator at    *)
(* pBuf[bytes] ends it; when readlink failed pBuf is uninitialised up to  *)
(* pBuf[255], and strlen may stop anywhere before.                        *)
PathLens(n, fails) ==
  IF fails THEN 0..(BufLen - 1) ELSE {Bytes(n, fails)}

(***************************************************************************)
(* The arrays of lines 366-514 for a path of length pathlen: size and the *)
(* indices written.  Each copy loop leaves i at its bound; "i-=1" then    *)
(* makes the suffix start right after the copied prefix, or at 0 when the *)
(* loop did not run.                                                      *)
(***************************************************************************)
(* Mutant: the "i-=1" after the copy loop is left out.                   *)
AfterCopyNoDecrement(L) == IF L > 0 THEN L ELSE 0

(* i after a copy loop "for (i=0;i<L;i++)" and the "i-=1" that follows  *)
(* it (lines 395-402, 437-443, 473-477, 495-499).                         *)
AfterCopy(L) == (IF L > 0 THEN L ELSE 0) - 1

Arrays(pathlen) ==
  LET L == pathlen - Suffix                      \* total_prifex_length
      E == AfterCopy(L)                          \* i after "i-=1"
      libdir_lin == E + 21                       \* strlen (pachage_libdir)
      datadir_lin == E + 6                       \* strlen (package_datadir)
      G == AfterCopy(libdir_lin)
      D == AfterCopy(datadir_lin)
  IN  [real_prefix_path |-> [size |-> L, writes |-> 0..(L - 1)],
       package_datadir  |-> [size |-> 10 + L,
                             writes |-> 0..(L - 1) \cup (E + 1)..(E + 6)],
       pachage_libdir   |-> [size |-> L + 27,
                             writes |-> 0..(L - 1) \cup (E + 1)..(E + 21)],
       girepositorydir  |-> [size |-> libdir_lin + 35,
                             writes |-> 0..(libdir_lin - 1)
                                          \cup (G + 1)..(G + 32)],
       plugin_lib_dir   |-> [size |-> libdir_lin + 14 + 9,
                             writes |-> 0..(libdir_lin - 1)
                                          \cup (G + 1)..(G + 23)],
       plugin_data_dir  |-> [size |-> datadir_lin + 14 + 9,
                             writes |-> 0..(datadir_lin - 1)
                                          \cup (D + 1)..(D + 23)]]

(* A variable-length array has a positive size and is written only       *)
(* inside it.                                                             *)
InBounds(a) == a.size >= 1 /\ a.writes \subseteq 0..(a.size - 1)

VARIABLES
  exe_len,  \* the length of the executable's path
  fails,    \* readlink fails (no /proc)
  pathlen   \* strlen (pBuf)

vars == <<exe_len, fails, pathlen>>

Init ==
  /\ exe_len \in 1..MaxExe
  /\ fails \in BOOLEAN
  /\ pathlen \in PathLens(exe_len, fails)

Next == UNCHANGED vars

Spec == Init /\ [][Next]_vars

TypeOK ==
  /\ exe_len \in 1..MaxExe
  /\ fails \in BOOLEAN
  /\ pathlen \in Int

-----------------------------------------------------------------------------
(* For an executable installed as <prefix>/bin/gnome-builder with a       *)
(* non-empty prefix, every directory buffer is large enough for what is   *)
(* written into it, including plugin_lib_dir and plugin_data_dir, which   *)
(* the terminating NUL fills exactly.                                     *)
InstalledBuffersInBounds ==
  ~fails /\ pathlen > Suffix =>
    \A name \in DOMAIN Arrays(pathlen) : InBounds(Arrays(pathlen)[name])

(* Whatever readlink returns, every array has a positive size and every   *)
(* write stays inside it.                                                 *)
BuffersInBounds ==
  \A name \in DOMAIN Arrays(pathlen) : InBounds(Arrays(pathlen)[name])
=============================================================================
