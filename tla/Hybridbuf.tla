----------------------------- MODULE Hybridbuf -----------------------------
(***************************************************************************)
(* The buffer for a connection's request history (class Hybridbuf,         *)
(* buffer.h and buffer.cpp): the first HIST_CACHE_SIZE bytes stay in       *)
(* memory, the others go to the file of the base class.  Memory and file   *)
(* have a cursor each, used for storing and for fetching.                  *)
(***************************************************************************)
EXTENDS Integers, Sequences, Filebuf

CONSTANTS
    Byte,       \* the values a cell holds
    CacheSize,  \* HIST_CACHE_SIZE, the number of cells
    MaxData,    \* bound: the most bytes stored between two clears
    MaxFetch    \* bound: the most bytes asked for in one fetch

ASSUME CacheSizeAssumption == CacheSize \in Nat \ {0}
ASSUME BoundsAssumption == MaxData \in Nat /\ MaxFetch \in Nat \ {0}

VARIABLES
    buffer,     \* the cells
    next_pos,   \* the cell to read or write next
    data_size,  \* bytes stored since the last clear
    file,       \* the file: its content and its one offset
    given,      \* the block the last call stored
    result      \* what the last call fetched

vars == <<buffer, next_pos, data_size, file, given, result>>

Index == 0..(CacheSize - 1)
MinOf(a, b) == IF a <= b THEN a ELSE b
Blocks(k) == UNION {[1..n -> Byte] : n \in 0..k}

\* Mutant of buf_remaining_space: the whole cache, wherever the cursor is.
buf_remaining_space_whole == CacheSize

buf_remaining_space == IF next_pos < CacheSize THEN CacheSize - next_pos ELSE 0

buf_unread_data_size == MinOf(data_size, CacheSize) - next_pos

(* The member initialisers leave the cells uninitialised. *)
Init ==
    /\ buffer \in [Index -> Byte]
    /\ next_pos = 0
    /\ data_size = 0
    /\ file = EmptyFile
    /\ given = <<>> /\ result = <<>>

(* Every user stores where the data end: after clear() and other stores    *)
(* (keep_track_request_history).                                           *)
AtEnd == next_pos + file.pos = data_size

(* _buf_write: what fits is copied to memory; the rest of d is left over. *)
buf_write(d) ==
    LET n == MinOf(Len(d), buf_remaining_space)
    IN  /\ buffer' = [i \in Index |-> IF i >= next_pos /\ i < next_pos + n
                                      THEN d[i - next_pos + 1] ELSE buffer[i]]
        /\ next_pos' = next_pos + n
LeftOver(d) == SubSeq(d, MinOf(Len(d), buf_remaining_space) + 1, Len(d))

\* Mutant of store: _file_write(data, size), from the block's beginning again.
store_twice(d) ==
    /\ AtEnd /\ data_size + Len(d) <= MaxData
    /\ buf_write(d)
    /\ file' = Store(file, SubSeq(d, 1, Len(LeftOver(d))))
    /\ data_size' = data_size + Len(d)
    /\ given' = d /\ result' = <<>>

(* store: memory first, the rest goes to the file. *)
store(d) ==
    /\ AtEnd /\ data_size + Len(d) <= MaxData
    /\ buf_write(d)
    /\ file' = Store(file, LeftOver(d))
    /\ data_size' = data_size + Len(d)
    /\ given' = d /\ result' = <<>>

(* _buf_read. *)
buf_read(max) ==
    LET n == MinOf(buf_unread_data_size, max)
    IN  /\ result' = [i \in 1..n |-> buffer[next_pos + i - 1]]
        /\ next_pos' = next_pos + n

(* fetch: from memory while there is something, then from the file; never  *)
(* from both in one call.                                                  *)
fetch(max) ==
    LET f == Fetched(file, max)
    IN  /\ \/ buf_unread_data_size # 0 /\ buf_read(max) /\ UNCHANGED file
           \/ /\ buf_unread_data_size = 0
              /\ result' = f
              /\ file' = Advance(file, Len(f), Len(f))
              /\ UNCHANGED next_pos
        /\ given' = <<>>
        /\ UNCHANGED <<buffer, data_size>>

(* rewind(): both cursors go to the beginning. *)
rewind ==
    /\ next_pos' = 0
    /\ file' = Rewind(file)
    /\ given' = <<>> /\ result' = <<>>
    /\ UNCHANGED <<buffer, data_size>>

(* rewind(amount) once everything has been fetched: the target is computed *)
(* from data_size, and lies in memory or in the file.                      *)
rewind_by(amount) ==
    LET offset == data_size - amount
    IN  /\ AtEnd
        /\ \/ /\ offset < CacheSize
              /\ file' = Rewind(file)
              /\ next_pos' = next_pos - (next_pos - offset)
           \/ /\ offset >= CacheSize
              /\ file' = [file EXCEPT !.pos = @ - amount]
              /\ UNCHANGED next_pos
        /\ given' = <<>> /\ result' = <<>>
        /\ UNCHANGED <<buffer, data_size>>

\* Mutant of clear: the file is truncated and rewound, the memory cursor is not.
clear_unrewound ==
    /\ data_size' = 0
    /\ file' = EmptyFile
    /\ given' = <<>> /\ result' = <<>>
    /\ UNCHANGED <<buffer, next_pos>>

(* clear: truncate the file, then the rewind of this class. *)
clear ==
    /\ data_size' = 0
    /\ file' = EmptyFile
    /\ next_pos' = 0
    /\ given' = <<>> /\ result' = <<>>
    /\ UNCHANGED buffer

Next ==
    \/ \E d \in Blocks(MaxData) : store(d)
    \/ \E max \in 1..MaxFetch : fetch(max)
    \/ rewind
    \/ \E amount \in 1..data_size : rewind_by(amount)
    \/ clear

Spec == Init /\ [][Next]_vars

-----------------------------------------------------------------------------
(* The cursors stay inside the array and the file. *)
TypeOK ==
    /\ buffer \in [Index -> Byte]
    /\ next_pos \in 0..CacheSize
    /\ data_size \in Nat
    /\ file \in [data : Seq(Byte), pos : Nat] /\ file.pos <= Len(file.data)
    /\ given \in Seq(Byte) /\ result \in Seq(Byte)

(* The two parts fit together: the file holds exactly what the memory does *)
(* not, is entered only behind the last cell, and the unsigned subtraction *)
(* of _buf_unread_data_size never wraps below zero.                        *)
Layout ==
    /\ data_size = MinOf(data_size, CacheSize) + Len(file.data)
    /\ file.pos > 0 => next_pos = CacheSize
    /\ buf_unread_data_size >= 0

(* The buffer a user sees. *)
Content ==
    [i \in 1..data_size |-> IF i <= CacheSize THEN buffer[i - 1]
                            ELSE file.data[i - CacheSize]]

TheTape == INSTANCE Tape WITH
            content <- Content, cursor <- next_pos + file.pos

(* A Hybridbuf is a plain buffer with a cursor: the border between memory  *)
(* and file loses, doubles or reorders nothing, and fetch returns 0 only   *)
(* at the end of the data, where copy_data's loop stops.                   *)
ImplementsTape == TheTape!Spec
=============================================================================
