------------------------- MODULE MC_CtagsService -------------------------
(* A file system of five directories: the project is the home directory   *)
(* w, with one sub-directory s; /usr/include is i with the sub-directories *)
(* j and u, and u cannot be read. w, s, j and u hold a tags file, so w's   *)
(* file is found twice (as the working tree and as the home directory).   *)
EXTENDS CtagsService

CONSTANTS w, s, i, j, u

MCDirs == {w, s, i, j, u}
MCChildren == [d \in MCDirs |->
                 IF d = w THEN {s} ELSE IF d = i THEN {j, u} ELSE {}]
MCTagsDirs == {w, s, j, u}
MCUnreadableDirs == {u}
=============================================================================
