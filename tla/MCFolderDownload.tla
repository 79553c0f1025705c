-------------------------- MODULE MCFolderDownload --------------------------
(* A root with one file and two subdirectories of one or two files, read by  *)
(* one reader into a channel of one place: every walker waits at some point  *)
(* for the reader and for room.                                              *)
EXTENDS FolderDownload

CONSTANTS root, d1, d2, f0, f1, f2, f3

MCDirs == {root, d1, d2}
MCFiles == {f0, f1, f2, f3}
MCParent == [e \in {d1, d2, f0, f1, f2, f3} |->
                IF e \in {f1} THEN d1 ELSE IF e \in {f2, f3} THEN d2 ELSE root]
=============================================================================
