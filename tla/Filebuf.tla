------------------------------ MODULE Filebuf ------------------------------
(***************************************************************************)
(* The slow-mode file buffers (classes Filebuf and FIFOfilebuf, buffer.h   *)
(* and buffer.cpp).  A Filebuf has one file offset, which store and fetch  *)
(* share; a FIFOfilebuf has a second descriptor for reading, so its writer *)
(* always stands at the end of the file.  In both cases pos is the offset  *)
(* that fetch uses.  Disk failures, which abort the process, are not       *)
(* modelled.                                                               *)
(***************************************************************************)
EXTENDS Integers, Sequences

(* A newly created buffer; also what clear() (truncate, rewind) leaves. *)
EmptyFile == [data |-> <<>>, pos |-> 0]

(* Filebuf::store: write at the shared offset, over what is there. *)
Store(f, d) ==
    [data |-> SubSeq(f.data, 1, f.pos) \o d
              \o SubSeq(f.data, f.pos + Len(d) + 1, Len(f.data)),
     pos  |-> f.pos + Len(d)]

(* Filebuf::copy_data: the destination is cleared, then stores all there   *)
(* is of the source, whose content is d.                                   *)
copy_data(d) == Store(EmptyFile, d)

(* FIFOfilebuf::store: the writer's own offset is the end of the file. *)
StoreLast(f, d) == [data |-> f.data \o d, pos |-> f.pos]

(* fetch: the at most max elements that follow the offset ... *)
Fetched(f, max) ==
    SubSeq(f.data, f.pos + 1, IF f.pos + max < Len(f.data) THEN f.pos + max
                              ELSE Len(f.data))

\* Mutant of Advance: rewinds over everything fetched, not over what was not passed on.
Advance_whole(f, count, n) == [data |-> f.data, pos |-> IF n < count THEN f.pos ELSE f.pos + n]

(* ... which moves past them; the caller, having passed on only n of the   *)
(* count elements, rewinds over the other count - n.                       *)
Advance(f, count, n) == [data |-> f.data, pos |-> (f.pos + count) - (count - n)]

\* Mutant of Rewind: forgotten.
Rewind_forgotten(f) == f

(* rewind(): back to the beginning. *)
Rewind(f) == [data |-> f.data, pos |-> 0]

(* What a fetch has not returned yet. *)
Unread(f) == SubSeq(f.data, f.pos + 1, Len(f.data))
=============================================================================
