---------------------------- MODULE MCFolderTree ----------------------------
(* Instances of FolderTree for TLC.  Folders have no order; the clients      *)
(* differ, one of them being the mover.                                     *)
EXTENDS FolderTree

Symmetry == Permutations(Folders)
=============================================================================
