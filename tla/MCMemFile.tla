------------------------------ MODULE MCMemFile ------------------------------
(* Pages of two bytes, one file of up to three pages, and two descriptions   *)
(* of it.                                                                    *)
EXTENDS MemFile, TLC

MCFileOf == [d \in Fd |-> 1]
FdSymmetry == Permutations(Fd)
MCBuf    == {<<1>>, <<2, 1, 2>>}
=============================================================================
