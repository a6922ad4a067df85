------------------------------- MODULE MemFile -------------------------------
(***************************************************************************)
(* File data in tmpfs (Storage::Sparse in fs/memfs.rs) under the cursors   *)
(* of open file descriptions (File for OpenFile in fs/vfs.rs).             *)
(*                                                                         *)
(* A file is a size and the pages that were written; what is in no page    *)
(* reads as zero.  Pages are charged to the mount, which all files share,  *)
(* and a write that meets the limit, or finds no frame, stops at the page  *)
(* where it does.  The data of ramfs is one contiguous vector, which is    *)
(* module ByteFile itself.                                                 *)
(***************************************************************************)
EXTENDS Naturals, Sequences, FiniteSetsExt

CONSTANTS
  File, PAGE_SIZE,
  Buf,          \* the buffers that programs write: non-empty, bytes # 0
  Fd, FileOf,   \* open file descriptions and their files
  PageLimit,    \* TmpfsOptions::size in pages
  MaxSize       \* stands for isize::MAX, the size no file exceeds

ASSUME MemFileAssumption ==
  /\ PAGE_SIZE \in Nat \ {0} /\ MaxSize \in Nat /\ PageLimit \in Nat
  /\ FileOf \in [Fd -> File]
  /\ Buf \subseteq Seq(Nat) \ {<<>>}

VARIABLES
  size,
  pages,     \* the pages of each file: a function from page indices to bytes
  used,      \* Shared::pages
  cursor, append

vars == <<size, pages, used, cursor, append>>

PageIndex == 0 .. (MaxSize \div PAGE_SIZE)
InPage    == 0 .. (PAGE_SIZE - 1)
Zeroed    == [i \in InPage |-> 0]

-----------------------------------------------------------------------------
\* The byte that MemoryInode::read finds at a position.
ByteAt(f, position) ==
  LET index == position \div PAGE_SIZE
  IN  IF index \in DOMAIN pages[f] THEN pages[f][index][position % PAGE_SIZE] ELSE 0

\* All a reader can see of a file.
content == [f \in File |-> [i \in 1 .. size[f] |-> ByteAt(f, i - 1)]]

\* How many bytes a read of n bytes at the cursor returns.
Count(f, position, n) ==
  Min({n, IF position <= size[f] THEN size[f] - position ELSE 0})

Touched(offset, n) == (offset \div PAGE_SIZE) .. ((offset + n - 1) \div PAGE_SIZE)
Missing(f, offset, n) == Touched(offset, n) \ DOMAIN pages[f]

\* The limit leaves room for the missing pages before `stop`.
Allowance(f, offset, n, stop) ==
  used + Cardinality({i \in Missing(f, offset, n) : i < stop}) <= PageLimit

\* The page with the bytes of the buffer that fall into it copied in; a new
\* page starts out zeroed (OwnedPage::new).
Filled(f, index, offset, data) ==
  LET old   == IF index \in DOMAIN pages[f] THEN pages[f][index] ELSE Zeroed
      first == index * PAGE_SIZE
  IN  [i \in InPage |->
         IF first + i >= offset /\ first + i < offset + Len(data)
         THEN data[first + i - offset + 1] ELSE old[i]]

EndFits(offset, n) == offset + n <= MaxSize

\* The write loop: it ends with the buffer, or at the first page `stop` for
\* which there is no charge or no memory; if that is the first page of all the
\* call fails.
write_data(f, offset, buf, written) ==
  LET data  == SubSeq(buf, 1, written)
      fresh == Missing(f, offset, written)
  IN  /\ EndFits(offset, Len(buf))
      /\ \/ /\ written = Len(buf)
            /\ Allowance(f, offset, Len(buf), MaxSize + 1)
         \/ \E stop \in Missing(f, offset, Len(buf)) :
              /\ stop * PAGE_SIZE > offset
              /\ written = stop * PAGE_SIZE - offset
              /\ Allowance(f, offset, Len(buf), stop)
      /\ pages' = [pages EXCEPT ![f] =
                     [i \in DOMAIN @ \union fresh |->
                        IF i \in Touched(offset, written) THEN Filled(f, i, offset, data)
                        ELSE @[i]]]
      /\ used' = used + Cardinality(fresh)
      /\ size' = [size EXCEPT ![f] = Max({@, offset + written})]

-----------------------------------------------------------------------------
Init ==
  /\ size = [f \in File |-> 0]
  /\ pages = [f \in File |-> [i \in {} |-> Zeroed]]
  /\ used = 0
  /\ cursor = [d \in Fd |-> 0]
  /\ append \in [Fd -> BOOLEAN]

WriteOffset(d) == IF append[d] THEN size[FileOf[d]] ELSE cursor[d]

write(d, buf) ==
  /\ \E written \in 1 .. Len(buf) :
       /\ write_data(FileOf[d], WriteOffset(d), buf, written)
       /\ cursor' = [cursor EXCEPT ![d] = WriteOffset(d) + written]
  /\ UNCHANGED append

read(d, n) ==
  /\ cursor' = [cursor EXCEPT ![d] = @ + Count(FileOf[d], @, n)]
  /\ UNCHANGED <<size, pages, used, append>>

\* SeekFrom::Start, Current and End; a position before the start is refused.
\* (MaxSize also bounds the positions.)
seek(d, base, delta, back) ==
  LET from == CASE base = "start" -> 0
                [] base = "current" -> cursor[d]
                [] base = "end" -> size[FileOf[d]]
  IN  /\ IF back THEN delta <= from ELSE from + delta <= MaxSize
      /\ base = "start" => ~back
      /\ cursor' = [cursor EXCEPT ![d] = IF back THEN from - delta ELSE from + delta]
      /\ UNCHANGED <<size, pages, used, append>>

\* fcntl F_SETFL.
set_append(d, flag) ==
  /\ append' = [append EXCEPT ![d] = flag]
  /\ UNCHANGED <<size, pages, used, cursor>>

\* Mutant of CutTail: the bytes behind the new end stay in the page.
TailStays(page, from) == page

CutTail(page, from) == [i \in InPage |-> IF i >= from THEN 0 ELSE page[i]]

\* Mutant of KeptPages: a page that starts at the new end is kept.
KeptToEnd(new_size) == {i \in PageIndex : i * PAGE_SIZE <= new_size}

KeptPages(new_size) == {i \in PageIndex : i * PAGE_SIZE < new_size}

truncate(f, new_size) ==
  LET kept == DOMAIN pages[f] \intersect KeptPages(new_size)
  IN  /\ new_size <= MaxSize
      /\ IF new_size < size[f]
         THEN /\ pages' = [pages EXCEPT ![f] =
                    [i \in kept |->
                       IF i = new_size \div PAGE_SIZE /\ new_size % PAGE_SIZE # 0
                       THEN CutTail(@[i], new_size % PAGE_SIZE) ELSE @[i]]]
              /\ used' = used - Cardinality(DOMAIN pages[f] \ kept)
         ELSE UNCHANGED <<pages, used>>
      /\ size' = [size EXCEPT ![f] = new_size]
      /\ UNCHANGED <<cursor, append>>

Next ==
  \/ \E d \in Fd :
       \/ \E buf \in Buf : write(d, buf)
       \/ \E n \in 0 .. MaxSize : read(d, n)
       \/ \E base \in {"start", "current", "end"}, delta \in 0 .. MaxSize, back \in BOOLEAN :
            seek(d, base, delta, back)
       \/ \E flag \in BOOLEAN : set_append(d, flag)
  \/ \E f \in File, n \in 0 .. MaxSize : truncate(f, n)

Spec == Init /\ [][Next]_vars

-----------------------------------------------------------------------------
Bytes == {0} \union UNION {{buf[i] : i \in DOMAIN buf} : buf \in Buf}

\* Every variable has its type, and no file has grown past the limit on sizes.
TypeOK ==
  /\ size \in [File -> 0 .. MaxSize]
  /\ \A f \in File : /\ DOMAIN pages[f] \subseteq PageIndex
                      /\ \A i \in DOMAIN pages[f] : pages[f][i] \in [InPage -> Bytes]
  /\ used \in Nat
  /\ cursor \in [Fd -> 0 .. MaxSize] /\ append \in [Fd -> BOOLEAN]

BF == INSTANCE ByteFile

\* What readers see is a plain sequence of bytes: holes read as zero, bytes cut
\* off by a truncation never come back, and a write that stops early has
\* written a prefix of its buffer and changed nothing else.  Appending never
\* overwrites what any descriptor has written, however the cursors and the
\* truncations fall in between (write_data, truncate, OpenFile::write).
ContentImplemented ==
  /\ BF!Spec
  /\ [][\A d \in Fd, buf \in Buf :
          append[d] /\ write(d, buf)
            => LET f == FileOf[d]
               IN  SubSeq(content'[f], 1, size[f]) = content[f]]_vars

\* The pages that files have.
Held == {p \in File \X PageIndex : p[2] \in DOMAIN pages[p[1]]}

\* The mount is charged for exactly the pages its files have, and never more
\* than its limit; a file has no page behind its end: truncation gives pages
\* back at once (Shared::reserve, truncate).
PagesCharged ==
  /\ TypeOK
  /\ \A f \in File : \A i \in DOMAIN pages[f] : i * PAGE_SIZE < size[f]
  /\ used = Cardinality(Held)
  /\ used <= PageLimit
=============================================================================
