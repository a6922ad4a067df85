------------------------------- MODULE MCAhci -------------------------------
EXTENDS Ahci

\* A drive that knows 48-bit commands, one that only knows 28-bit ones and whose
\* last sector is out of the reach of three bytes, and one that reports nothing.
MCIdentity == {[s28 |-> 3, s48 |-> 3], [s28 |-> 3, s48 |-> 0], [s28 |-> 0, s48 |-> 0]}

\* The second entry is empty, the third reaches past the end of the drive.
MCMbr == << [type |-> 12, start |-> 1, count |-> 1], [type |-> 0, start |-> 0, count |-> 1],
            [type |-> 12, start |-> 2, count |-> 2], [type |-> 12, start |-> 0, count |-> 1] >>
\* Part of a sector, the end of one and a whole one, past the end of a partition.
MCExtent == {<<1, 1>>, <<1, 3>>, <<2, 2>>}
=============================================================================
