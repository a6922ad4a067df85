------------------------------- MODULE ByteFile -------------------------------
(***************************************************************************)
(* What a regular file promises: a sequence of bytes.  A write puts a      *)
(* prefix of the caller's buffer at an offset, and what lies between the   *)
(* old end and the offset reads as zero; a truncation cuts the sequence or *)
(* extends it with zeros.                                                  *)
(***************************************************************************)
EXTENDS Naturals, Sequences

CONSTANTS File, Buf, MaxSize

VARIABLE content

Longer(m, n) == IF m < n THEN n ELSE m

Overwrite(s, offset, data) ==
  [i \in 1 .. Longer(Len(s), offset + Len(data)) |->
     IF i \in (offset + 1) .. (offset + Len(data)) THEN data[i - offset]
     ELSE IF i <= Len(s) THEN s[i] ELSE 0]

Resize(s, size) == [i \in 1 .. size |-> IF i <= Len(s) THEN s[i] ELSE 0]

Init == content = [f \in File |-> <<>>]

Write(f) ==
  \E data \in Buf, offset \in 0 .. MaxSize :
    \E n \in 1 .. Len(data) :
      content' = [content EXCEPT ![f] = Overwrite(@, offset, SubSeq(data, 1, n))]

Truncate(f) == \E size \in 0 .. MaxSize : content' = [content EXCEPT ![f] = Resize(@, size)]

Next == \E f \in File : Write(f) \/ Truncate(f)

Spec == Init /\ [][Next]_content
=============================================================================
