------------------------------ MODULE MmapRange ------------------------------
(***************************************************************************)
(* The preflight arithmetic of mmap (syscall/mmap.rs), on machine words.   *)
(***************************************************************************)
EXTENDS Naturals, FiniteSetsExt

CONSTANTS Word,        \* the number of values of a usize
          page_size, user_end

ASSUME MmapRangeAssumption ==
  /\ {Word, page_size, user_end} \subseteq Nat \ {0}
  /\ page_size <= user_end /\ user_end < Word
  /\ Word % page_size = 0 /\ user_end % page_size = 0

EINVAL   == 22
ENOMEM   == 12
Overflow == Word

\* Mutant of checked_add: the sum wraps around.
wrapping_add(a, b) == (a + b) % Word

checked_add(a, b) == IF a + b < Word THEN a + b ELSE Overflow

align(value) ==
  LET v == checked_add(value, page_size - 1)
  IN  IF v = Overflow THEN Overflow ELSE v - (v % page_size)

Accept(b, l) == [error |-> 0, base |-> b, len |-> l, end |-> b + l]
Error(e)     == [error |-> e, base |-> 0, len |-> 0, end |-> 0]

checked_mmap_range(b, l) ==
  LET lenUp  == align(l)
      baseUp == align(b)
  IN  CASE l = 0 -> Error(EINVAL)
        [] l # 0 /\ (lenUp = Overflow \/ baseUp = Overflow) -> Error(ENOMEM)
        [] OTHER -> LET end == checked_add(baseUp, lenUp)
                    IN  IF end = Overflow \/ baseUp >= user_end \/ end > user_end
                        THEN Error(ENOMEM) ELSE Accept(baseUp, lenUp)

-----------------------------------------------------------------------------
\* What checked_mmap_range should answer, on unbounded numbers: the fewest whole
\* pages for l bytes from the first page that starts at or behind b.
PagesFor(n) == (n + page_size - 1) \div page_size

LeastFit(b, l) ==
  LET first == PagesFor(b) * page_size
      size  == PagesFor(l) * page_size
  IN  CASE l = 0 -> Error(EINVAL)
        [] l # 0 /\ first + size > user_end -> Error(ENOMEM)
        [] OTHER -> Accept(first, size)

\* The calls it answers differently.
Misfits == {c \in (0 .. (Word - 1)) \X (0 .. (Word - 1)) :
              checked_mmap_range(c[1], c[2]) # LeastFit(c[1], c[2])}
=============================================================================
