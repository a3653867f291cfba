---------------------------- MODULE Circularbuf ----------------------------
(***************************************************************************)
(* The in-memory circular buffer that both directions of a fast-mode       *)
(* connection use as their output queue (class Circularbuf, buffer.h and   *)
(* buffer.cpp).  Pointers are offsets into the array; one cell is never    *)
(* used, so that start = end always means "empty".                         *)
(***************************************************************************)
EXTENDS Integers, Sequences

CONSTANTS
    Byte,       \* the values a cell holds
    BufSize,    \* SOCK_IO_BUF_SIZE, the number of cells
    MaxOffer    \* bound: the longest block a caller copies in at once

ASSUME ByteAssumption == Byte # {}
ASSUME BufSizeAssumption == BufSize \in Nat \ {0}
ASSUME MaxOfferAssumption == MaxOffer \in Nat

VARIABLES
    buffer,     \* the cells
    start,      \* start_ptr - buffer: the oldest byte
    end,        \* end_ptr - buffer: the cell after the youngest byte
    given,      \* the block the last call was given to copy
    count,      \* the value the last call returned (size or io_stat.nbytes)
    taken       \* the bytes the last call passed to write() or to the file

vars == <<buffer, start, end, given, count, taken>>

Index == 0..(BufSize - 1)
MinOf(a, b) == IF a <= b THEN a ELSE b

(* Every block of at most k bytes a caller may hold in its own memory. *)
Blocks(k) == UNION {[1..n -> Byte] : n \in 0..k}

(* memcpy of the block d to the cells from offset "at" on. *)
Memcpy(b, at, d) ==
    [i \in Index |-> IF i >= at /\ i < at + Len(d) THEN d[i - at + 1] ELSE b[i]]

(* The n cells from offset "at" on, as a block. *)
Cells(at, n) == [i \in 1..n |-> buffer[at + i - 1]]

data_size == IF start <= end THEN end - start ELSE BufSize - (start - end)

\* Mutant of remaining_space: forgets that one cell stays free.
remaining_space_all == BufSize - data_size

remaining_space == BufSize - 1 - data_size

(* The member initialisers leave the cells uninitialised. *)
Init ==
    /\ buffer \in [Index -> Byte]
    /\ start = 0
    /\ end = 0
    /\ given = <<>>
    /\ count = 0
    /\ taken = <<>>

\* Mutant of copy_from: "count <= space_to_rightend", the pointer wraps one call late.
copy_from_late_wrap(d) ==
    LET size  == MinOf(Len(d), remaining_space)
        right == BufSize - end
        n     == IF end >= start THEN MinOf(size, right) ELSE size
    IN  /\ given' = d
        /\ count' = size
        /\ taken' = <<>>
        /\ UNCHANGED start
        /\ buffer' = Memcpy(Memcpy(buffer, end, SubSeq(d, 1, n)),
                            0, SubSeq(d, n + 1, size))
        /\ end' = IF n = size THEN end + n ELSE size - n

(* Copy a block in, towards the right end first and then, wrapped, towards *)
(* start_ptr.                                                              *)
copy_from(d) ==
    LET size  == MinOf(Len(d), remaining_space)
        right == BufSize - end
        n     == MinOf(size, right)
    IN  /\ given' = d
        /\ count' = size
        /\ taken' = <<>>
        /\ UNCHANGED start
        /\ \/ size = 0 /\ UNCHANGED <<buffer, end>>
           \/ /\ size > 0 /\ end >= start
              /\ buffer' = Memcpy(Memcpy(buffer, end, SubSeq(d, 1, n)),
                                  0, SubSeq(d, n + 1, size))
              /\ end' = IF n < right THEN end + n ELSE size - n
           \/ /\ size > 0 /\ end < start
              /\ buffer' = Memcpy(buffer, end, SubSeq(d, 1, size))
              /\ end' = end + size

(* read_all with a limit of remaining_space, then copy_from the result; d  *)
(* is what the socket delivers.  The assertion that copy_from keeps all of *)
(* it holds because the limit is the space that is left.                   *)
read_all_from(d) == Len(d) <= remaining_space /\ copy_from(d)

(* The oldest n bytes leave, in at most two contiguous parts: towards the  *)
(* right end and, once that part is gone completely, from the array start. *)
Consume(n) ==
    LET right == BufSize - start
    IN  /\ UNCHANGED <<buffer, end>>
        /\ given' = <<>>
        /\ \/ /\ start > end /\ n < right
              /\ start' = start + n
              /\ taken' = Cells(start, n)
           \/ /\ start > end /\ n >= right
              /\ start' = n - right
              /\ taken' = Cells(start, right) \o Cells(0, n - right)
           \/ /\ start <= end
              /\ start' = start + n
              /\ taken' = Cells(start, n)

(* Write out; the socket accepts n bytes.  nbytes is the difference of the *)
(* two sizes, which is computed after the pointers moved.                  *)
write_all_to(n) ==
    /\ Consume(n)
    /\ count' = data_size - data_size'

(* Move everything to a file when the connection leaves fast mode. *)
dump_to ==
    /\ Consume(data_size)
    /\ count' = data_size

Next ==
    \/ \E d \in Blocks(MaxOffer) : copy_from(d)
    \/ \E d \in Blocks(MaxOffer) : read_all_from(d)
    \/ \E n \in 0..data_size : write_all_to(n)
    \/ dump_to

Spec == Init /\ [][Next]_vars

-----------------------------------------------------------------------------
(* The pointers stay inside the array and the cells hold bytes.            *)
TypeOK ==
    /\ buffer \in [Index -> Byte]
    /\ start \in Index
    /\ end \in Index
    /\ given \in Seq(Byte)
    /\ count \in Nat
    /\ taken \in Seq(Byte)

(* The queue a caller sees: the bytes from start_ptr to end_ptr, wrapping. *)
Content ==
    [i \in 1..data_size |-> IF start + i - 1 < BufSize THEN buffer[start + i - 1]
                            ELSE buffer[start + i - 1 - BufSize]]

Queue == INSTANCE ByteQueue WITH
            Capacity <- BufSize - 1, q <- Content

(* The circular buffer is a bounded FIFO of SOCK_IO_BUF_SIZE - 1 bytes:    *)
(* copy_from keeps the longest prefix that fits, write_all_to and dump_to  *)
(* hand out the oldest bytes in order, across every wrap of the pointers.  *)
ImplementsByteQueue == Queue!Spec
=============================================================================
