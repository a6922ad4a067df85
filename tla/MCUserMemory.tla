---------------------------- MODULE MCUserMemory ----------------------------
(***************************************************************************)
(* Three pages: the image of the program, the break, and mmap; one table  *)
(* reaches all of them.                                                    *)
(***************************************************************************)
EXTENDS UserMemory

MCPathOf     == [pg \in Page |-> {1}]
MCSegments   == <<1>>
MCStackPages == <<>>
MCSupervisor == {}

\* Which frame is where only matters up to renaming.  The view replaces a frame
\* by what it contains, and a table entry by its positions in the list; the
\* number of different frames tells whether one of them is in two places, and
\* roots and tables always contain Entries.
Held(s) == {space[s].root, space[s].tables[1]}
             \union {space[s].mappings[i].frame : i \in DOMAIN space[s].mappings}

ByRenaming ==
  <<next, [i \in DOMAIN recycled |-> data[recycled[i]]],
    Cardinality((Range(recycled) \union UNION {Held(s) : s \in SpaceId}) \ {None}),
    [s \in SpaceId |->
       LET ms == space[s].mappings
       IN  <<space[s].root = None, space[s].tables[1] = None,
             [i \in DOMAIN ms |-> <<ms[i].page, ms[i].prot, data[ms[i].frame]>>],
             [pg \in Page |-> <<space[s].leaf[pg].prot,
                {i \in DOMAIN ms : ms[i].frame = space[s].leaf[pg].frame}>>]>>],
    brk, mmap_end, op, panicked>>
=============================================================================
