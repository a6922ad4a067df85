-------------------------------- MODULE MCFat --------------------------------
(* A FAT12 disk with a fixed root directory and two clusters, and FAT32      *)
(* disks with four, of two cells each, and two inodes: one with room in its  *)
(* root directory, one whose root directory has a second cluster with room,  *)
(* and one whose second cluster is full.  The limits that tell the kinds     *)
(* apart are scaled down to those sizes.                                     *)
EXTENDS Fat

File(name) == Entry(name, FALSE, 0, 0)
MCImage ==
  {[clusters |-> 2, rootCluster |-> 2, root |-> <<<<File("a"), Deleted>>>>],
   [clusters |-> 4, rootCluster |-> 2, root |-> <<<<File("a"), Zero>>>>],
   [clusters |-> 4, rootCluster |-> 2, root |-> <<<<File("x"), File("y")>>, <<File("a"), Zero>>>>],
   [clusters |-> 4, rootCluster |-> 2,
    root |-> <<<<File("x"), File("y")>>, <<File("a"), File("z")>>>>]}
MCBuf == {<<1, 1>>}
HandleSymmetry == Permutations(Handle)

\* Nothing is claimed once a cluster can have two owners.
OneOwner == ~doubled
=============================================================================
