-------------------------- MODULE HybridbufProofs --------------------------
(***************************************************************************)
(* Proofs about Hybridbuf for every cache size, byte set and block length: *)
(* the cursors stay inside memory and file, the two parts fit together at  *)
(* the border, and the class implements the Tape its users see.            *)
(***************************************************************************)
EXTENDS Hybridbuf, TLAPS

USE CacheSizeAssumption, BoundsAssumption

(* What the last call stored or fetched lies before the cursor; a rewind   *)
(* from the very beginning therefore changes nothing a user sees.          *)
Passed == Len(given) + Len(result) <= next_pos + file.pos

IInv == TypeOK /\ Layout /\ Passed

(* A block is a sequence of bytes. *)
LEMMA BlockIsSeq ==
    ASSUME NEW k \in Nat, NEW d \in Blocks(k)
    PROVE  d \in Seq(Byte)
  <1>1. PICK n \in 0..k : d \in [1..n -> Byte]
    BY DEF Blocks
  <1> QED
    BY <1>1

(* The elements of a concatenation. *)
LEMMA ConcatElements ==
    ASSUME NEW s \in Seq(Byte), NEW t \in Seq(Byte)
    PROVE  /\ s \o t \in Seq(Byte)
           /\ Len(s \o t) = Len(s) + Len(t)
           /\ \A i \in 1..Len(s) : (s \o t)[i] = s[i]
           /\ \A i \in 1..Len(t) : (s \o t)[Len(s) + i] = t[i]
  OBVIOUS

(* The elements of a subsequence. *)
LEMMA SubSeqElements ==
    ASSUME NEW s \in Seq(Byte), NEW m \in 1..(Len(s) + 1), NEW n \in 0..Len(s), m <= n + 1
    PROVE  /\ SubSeq(s, m, n) \in Seq(Byte)
           /\ Len(SubSeq(s, m, n)) = n - m + 1
           /\ \A i \in 1..(n - m + 1) : SubSeq(s, m, n)[i] = s[m + i - 1]
  OBVIOUS

LEMMA SeqExtensional ==
    ASSUME NEW s \in Seq(Byte), NEW t \in Seq(Byte), Len(s) = Len(t),
           \A i \in 1..Len(s) : s[i] = t[i]
    PROVE  s = t
  OBVIOUS

LEMMA MinFacts ==
    ASSUME NEW a \in Nat, NEW b \in Nat
    PROVE  MinOf(a, b) \in Nat /\ MinOf(a, b) <= a /\ MinOf(a, b) <= b
  BY DEF MinOf

(* A store at the end of a file appends. *)
LEMMA StoreAppends ==
    ASSUME NEW f \in [data : Seq(Byte), pos : Nat], f.pos = Len(f.data), NEW d \in Seq(Byte)
    PROVE  /\ Store(f, d).data = f.data \o d
           /\ Store(f, d).pos = Len(f.data) + Len(d)
           /\ Store(f, d) \in [data : Seq(Byte), pos : Nat]
  <1>1. f.data \in Seq(Byte) /\ Len(f.data) \in Nat /\ Len(d) \in Nat
    OBVIOUS
  <1>2. SubSeq(f.data, 1, f.pos) = f.data
    BY <1>1
  <1>3. SubSeq(f.data, f.pos + Len(d) + 1, Len(f.data)) = <<>>
    BY <1>1
  <1> DEFINE c == f.data \o d
             p == f.pos + Len(d)
  <1>4. c \in Seq(Byte) /\ p \in Nat /\ p = Len(f.data) + Len(d)
    BY <1>1
  <1>5. Store(f, d) = [data |-> c \o <<>>, pos |-> p]
    BY <1>2, <1>3 DEF Store
  <1> HIDE DEF c, p
  <1>6. c \o <<>> = c
    BY <1>4
  <1>7. Store(f, d) = [data |-> c, pos |-> p]
    BY <1>5, <1>6
  <1>8. /\ Store(f, d).data = c /\ Store(f, d).pos = p
        /\ Store(f, d) \in [data : Seq(Byte), pos : Nat]
    BY <1>4, <1>7
  <1> QED
    BY <1>4, <1>8 DEF c

(* Where both cursors stand at the end of the data, the file's stands at   *)
(* the end of the file.                                                    *)
LEMMA AtEndOfFile ==
    ASSUME TypeOK, Layout, AtEnd
    PROVE  file.pos = Len(file.data) /\ next_pos = MinOf(data_size, CacheSize)
  <1>1. file.pos \in Nat /\ Len(file.data) \in Nat /\ file.pos <= Len(file.data)
    BY DEF TypeOK
  <1> QED
    BY <1>1 DEF TypeOK, Layout, AtEnd, MinOf, buf_unread_data_size

(* What store does to the two parts: n bytes go to memory, the others,     *)
(* if any, behind the file's content, and then the memory is full.         *)
LEMMA StoreEffect ==
    ASSUME TypeOK, Layout, NEW d \in Seq(Byte), store(d)
    PROVE  \E n \in 0..Len(d) :
             /\ next_pos' = next_pos + n /\ next_pos + n <= CacheSize
             /\ n < Len(d) => next_pos + n = CacheSize
             /\ \A i \in Index : buffer'[i] = IF i >= next_pos /\ i < next_pos + n
                                              THEN d[i - next_pos + 1] ELSE buffer[i]
             /\ LeftOver(d) \in Seq(Byte) /\ Len(LeftOver(d)) = Len(d) - n
             /\ \A i \in 1..(Len(d) - n) : LeftOver(d)[i] = d[n + i]
             /\ file' \in [data : Seq(Byte), pos : Nat]
             /\ file'.data = file.data \o LeftOver(d)
             /\ file'.pos = Len(file.data) + (Len(d) - n)
  <1> DEFINE n == MinOf(Len(d), buf_remaining_space)
  <1>1. next_pos \in 0..CacheSize /\ Len(d) \in Nat
    BY DEF TypeOK
  <1>2. n \in 0..Len(d) /\ next_pos + n <= CacheSize /\ (n < Len(d) => next_pos + n = CacheSize)
    BY <1>1 DEF MinOf, buf_remaining_space
  <1>3. /\ next_pos' = next_pos + n
        /\ \A i \in Index : buffer'[i] = IF i >= next_pos /\ i < next_pos + n
                                         THEN d[i - next_pos + 1] ELSE buffer[i]
    BY DEF store, buf_write
  <1>4. LeftOver(d) = SubSeq(d, n + 1, Len(d))
    BY DEF LeftOver
  <1> HIDE DEF n
  <1>5. /\ LeftOver(d) \in Seq(Byte) /\ Len(LeftOver(d)) = Len(d) - n
        /\ \A i \in 1..(Len(d) - n) : LeftOver(d)[i] = d[n + i]
    <2>1. n + 1 \in 1..(Len(d) + 1) /\ Len(d) \in 0..Len(d) /\ n + 1 <= Len(d) + 1
          /\ Len(d) - (n + 1) + 1 = Len(d) - n
      BY <1>1, <1>2
    <2>2. \A i \in 1..(Len(d) - n) : n + 1 + i - 1 = n + i
      BY <1>1, <1>2
    <2>3. /\ SubSeq(d, n + 1, Len(d)) \in Seq(Byte)
          /\ Len(SubSeq(d, n + 1, Len(d))) = Len(d) - (n + 1) + 1
          /\ \A i \in 1..(Len(d) - (n + 1) + 1) : SubSeq(d, n + 1, Len(d))[i] = d[n + 1 + i - 1]
      BY <2>1, SubSeqElements
    <2> QED
      BY <2>1, <2>2, <2>3, <1>4
  <1>6. file.pos = Len(file.data) /\ file \in [data : Seq(Byte), pos : Nat]
    BY AtEndOfFile DEF store, TypeOK
  <1>7. /\ file' \in [data : Seq(Byte), pos : Nat]
        /\ file'.data = file.data \o LeftOver(d)
        /\ file'.pos = Len(file.data) + (Len(d) - n)
    BY <1>5, <1>6, StoreAppends DEF store
  <1> QED
    BY <1>2, <1>3, <1>5, <1>7

(* A file fetch: what it returns, and that it moves past it. *)
LEMMA FetchedElements ==
    ASSUME NEW f \in [data : Seq(Byte), pos : Nat], f.pos <= Len(f.data), NEW max \in Nat
    PROVE  LET n == MinOf(max, Len(f.data) - f.pos)
               r == Fetched(f, max)
           IN  /\ n \in 0..max /\ n <= Len(f.data) - f.pos
               /\ r \in Seq(Byte) /\ Len(r) = n
               /\ \A i \in 1..n : r[i] = f.data[f.pos + i]
               /\ Advance(f, Len(r), Len(r)) = [data |-> f.data, pos |-> f.pos + n]
  <1> DEFINE n == MinOf(max, Len(f.data) - f.pos)
             r == Fetched(f, max)
  <1>1. f.data \in Seq(Byte) /\ Len(f.data) \in Nat /\ f.pos \in Nat
    OBVIOUS
  <1>2. n \in 0..max /\ n <= Len(f.data) - f.pos
    BY <1>1 DEF MinOf
  <1>3. r = SubSeq(f.data, f.pos + 1, f.pos + n)
    <2>1. ASSUME NEW p \in Nat, NEW l \in Nat
          PROVE  p + MinOf(max, l - p) = IF p + max < l THEN p + max ELSE l
      BY <2>1 DEF MinOf
    <2>2. f.pos + n = IF f.pos + max < Len(f.data) THEN f.pos + max ELSE Len(f.data)
      BY <1>1, <2>1
    <2> HIDE DEF n
    <2> QED
      BY <2>2 DEF Fetched
  <1> HIDE DEF n, r
  <1>4. /\ f.pos + 1 \in 1..(Len(f.data) + 1) /\ f.pos + n \in 0..Len(f.data)
        /\ f.pos + 1 <= (f.pos + n) + 1 /\ (f.pos + n) - (f.pos + 1) + 1 = n
        /\ \A i \in 1..n : f.pos + 1 + i - 1 = f.pos + i
    <2>1. ASSUME NEW p \in Nat, NEW l \in Nat, p <= l, n \in Nat, n <= l - p
          PROVE  /\ p + 1 \in 1..(l + 1) /\ p + n \in 0..l
                 /\ p + 1 <= (p + n) + 1 /\ (p + n) - (p + 1) + 1 = n
                 /\ \A i \in 1..n : p + 1 + i - 1 = p + i
      BY <2>1
    <2>2. n \in Nat /\ f.pos <= Len(f.data) /\ n <= Len(f.data) - f.pos
      BY <1>2
    <2> QED
      BY <1>1, <2>1, <2>2, Zenon
  <1>5. /\ r \in Seq(Byte) /\ Len(r) = (f.pos + n) - (f.pos + 1) + 1
        /\ \A i \in 1..((f.pos + n) - (f.pos + 1) + 1) : r[i] = f.data[f.pos + 1 + i - 1]
    BY <1>1, <1>3, <1>4, SubSeqElements
  <1>6. r \in Seq(Byte) /\ Len(r) = n /\ \A i \in 1..n : r[i] = f.data[f.pos + i]
    BY <1>4, <1>5
  <1>7. (f.pos + Len(r)) - (Len(r) - Len(r)) = f.pos + n
    BY <1>1, <1>2, <1>6
  <1>8. Advance(f, Len(r), Len(r)) = [data |-> f.data, pos |-> f.pos + n]
    BY <1>7 DEF Advance
  <1> QED
    BY <1>2, <1>6, <1>8 DEF n, r
-----------------------------------------------------------------------------
LEMMA StoreKeeps ==
    ASSUME IInv, NEW d \in Seq(Byte), store(d)
    PROVE  IInv'
  <1>1. PICK n \in 0..Len(d) :
             /\ next_pos' = next_pos + n /\ next_pos + n <= CacheSize
             /\ n < Len(d) => next_pos + n = CacheSize
             /\ \A i \in Index : buffer'[i] = IF i >= next_pos /\ i < next_pos + n
                                              THEN d[i - next_pos + 1] ELSE buffer[i]
             /\ LeftOver(d) \in Seq(Byte) /\ Len(LeftOver(d)) = Len(d) - n
             /\ file' \in [data : Seq(Byte), pos : Nat]
             /\ file'.data = file.data \o LeftOver(d)
             /\ file'.pos = Len(file.data) + (Len(d) - n)
    BY StoreEffect DEF IInv
  <1>2. /\ next_pos \in 0..CacheSize /\ data_size \in Nat /\ buffer \in [Index -> Byte]
        /\ file.data \in Seq(Byte) /\ Len(file.data) \in Nat
        /\ Len(d) \in Nat /\ n \in Nat /\ n <= Len(d)
    <2>1. Len(d) \in Nat
      OBVIOUS
    <2>2. n \in Nat /\ n <= Len(d)
      BY <2>1
    <2> QED
      BY <2>1, <2>2 DEF IInv, TypeOK
  <1>3. /\ data_size = MinOf(data_size, CacheSize) + Len(file.data)
        /\ next_pos = MinOf(data_size, CacheSize)
    BY AtEndOfFile DEF IInv, Layout, store
  <1>4. data_size' = data_size + Len(d) /\ given' = d /\ result' = <<>>
    BY DEF store
  <1>5. Len(file'.data) = Len(file.data) + (Len(d) - n) /\ file'.data \in Seq(Byte)
    <2>1. LeftOver(d) \in Seq(Byte) /\ Len(LeftOver(d)) = Len(d) - n
          /\ file'.data = file.data \o LeftOver(d)
      BY <1>1
    <2>2. /\ file.data \o LeftOver(d) \in Seq(Byte)
          /\ Len(file.data \o LeftOver(d)) = Len(file.data) + Len(LeftOver(d))
      BY <1>2, <2>1, ConcatElements, Zenon
    <2> QED
      BY <2>1, <2>2, Zenon
  <1>6. buffer' \in [Index -> Byte]
    <2>1. ASSUME NEW i \in Index, i >= next_pos, i < next_pos + n
          PROVE  d[i - next_pos + 1] \in Byte
      <3>1. i - next_pos + 1 \in 1..Len(d)
        <4>1. i \in Int
          BY DEF Index
        <4> QED
          BY <1>2, <2>1, <4>1
      <3> QED
        BY <3>1
    <2>2. buffer' = [i \in Index |-> buffer'[i]]
      BY DEF store, buf_write
    <2>3. \A i \in Index : buffer'[i] \in Byte
      BY <1>1, <1>2, <2>1
    <2> QED
      BY <2>2, <2>3
  <1>7. /\ next_pos' \in 0..CacheSize /\ file' \in [data : Seq(Byte), pos : Nat]
        /\ next_pos' = next_pos + n /\ (n < Len(d) => next_pos' = CacheSize)
        /\ file'.pos = Len(file'.data) /\ file'.pos = Len(file.data) + (Len(d) - n)
    <2>1. /\ next_pos' = next_pos + n /\ next_pos + n <= CacheSize
          /\ n < Len(d) => next_pos + n = CacheSize
          /\ file' \in [data : Seq(Byte), pos : Nat]
          /\ file'.pos = Len(file.data) + (Len(d) - n)
      BY <1>1
    <2>2. next_pos' \in 0..CacheSize
      BY <2>1, <1>2
    <2> QED
      BY <2>1, <2>2, <1>5
  <1>8. TypeOK'
    <2>1. Len(file'.data) \in Nat /\ data_size' \in Nat
      BY <1>2, <1>4, <1>5
    <2>2. file'.pos <= Len(file'.data)
      BY <2>1, <1>7
    <2> QED
      BY <2>1, <2>2, <1>4, <1>6, <1>7 DEF TypeOK
  <1>9. Layout' /\ Passed'
    <2>1. \/ data_size + Len(d) <= CacheSize /\ n = Len(d)
          \/ data_size + Len(d) > CacheSize /\ next_pos' = CacheSize
      BY <1>2, <1>3, <1>7 DEF MinOf
    <2>2. Layout'
      <3> DEFINE k == Len(d)
                 m == Len(file.data)
                 q == Len(file'.data)
                 p == file'.pos
      <3>1. /\ k \in Nat /\ m \in Nat /\ n \in Nat /\ n <= k /\ q = m + (k - n) /\ p = q
            /\ data_size \in Nat /\ next_pos \in 0..CacheSize /\ next_pos' = next_pos + n
            /\ data_size = MinOf(data_size, CacheSize) + m /\ next_pos = MinOf(data_size, CacheSize)
            /\ data_size' = data_size + k
            /\ \/ data_size + k <= CacheSize /\ n = k
               \/ data_size + k > CacheSize /\ next_pos' = CacheSize
        BY <1>2, <1>3, <1>4, <1>5, <1>7, <2>1
      <3> HIDE DEF k, m, q, p
      <3>2. /\ data_size' = MinOf(data_size', CacheSize) + q
            /\ p > 0 => next_pos' = CacheSize
            /\ MinOf(data_size', CacheSize) - next_pos' >= 0
        BY <3>1 DEF MinOf
      <3> QED
        BY <3>2 DEF Layout, buf_unread_data_size, p, q
    <2>3. Len(given') = Len(d) /\ Len(result') = 0
      BY <1>4
    <2>4. next_pos' + file'.pos >= Len(d)
      <3> DEFINE k == Len(d)
                 m == Len(file.data)
      <3>1. k \in Nat /\ m \in Nat /\ n \in Nat /\ next_pos \in Nat
            /\ next_pos' = next_pos + n /\ file'.pos = m + (k - n)
        BY <1>2, <1>7
      <3> HIDE DEF k, m
      <3>2. next_pos' + file'.pos >= k
        BY <3>1
      <3> QED
        BY <3>2 DEF k
    <2>5. Passed'
      BY <1>2, <2>3, <2>4 DEF Passed
    <2> QED
      BY <2>2, <2>5
  <1> QED
    BY <1>8, <1>9 DEF IInv

(* What fetch returns: n bytes that follow one of the two cursors, and     *)
(* none only when both parts are used up.                                  *)
LEMMA FetchEffect ==
    ASSUME IInv, NEW max \in Nat \ {0}, fetch(max)
    PROVE  \E n \in 0..max :
             /\ result' \in Seq(Byte) /\ Len(result') = n
             /\ \/ /\ next_pos + n <= MinOf(data_size, CacheSize) /\ n > 0 /\ file.pos = 0
                   /\ next_pos' = next_pos + n /\ file' = file
                   /\ \A i \in 1..n : result'[i] = buffer[next_pos + i - 1]
                \/ /\ next_pos = MinOf(data_size, CacheSize) /\ next_pos' = next_pos
                   /\ file' = [data |-> file.data, pos |-> file.pos + n]
                   /\ file.pos + n <= Len(file.data)
                   /\ n > 0 => next_pos = CacheSize
                   /\ n = 0 => file.pos = Len(file.data)
                   /\ \A i \in 1..n : result'[i] = file.data[file.pos + i]
  <1>1. /\ next_pos \in 0..CacheSize /\ data_size \in Nat
        /\ file \in [data : Seq(Byte), pos : Nat]
        /\ Len(file.data) \in Nat /\ file.pos \in Nat /\ file.pos <= Len(file.data)
        /\ buffer \in [Index -> Byte]
    BY DEF IInv, TypeOK
  <1>2. /\ data_size = MinOf(data_size, CacheSize) + Len(file.data)
        /\ file.pos > 0 => next_pos = CacheSize
        /\ buf_unread_data_size >= 0
        /\ buf_unread_data_size = MinOf(data_size, CacheSize) - next_pos
    BY DEF IInv, Layout, buf_unread_data_size
  <1>3. CASE buf_unread_data_size # 0
    <2> DEFINE n == MinOf(buf_unread_data_size, max)
    <2>1. /\ n \in 0..max /\ n > 0 /\ next_pos + n <= MinOf(data_size, CacheSize)
          /\ next_pos + n <= CacheSize
      BY <1>1, <1>2, <1>3 DEF MinOf
    <2>2. file.pos = 0
      BY <1>1, <1>2, <1>3 DEF MinOf
    <2>3. /\ result' = [i \in 1..n |-> buffer[next_pos + i - 1]]
          /\ next_pos' = next_pos + n /\ file' = file
      BY <1>3 DEF fetch, buf_read
    <2> HIDE DEF n
    <2>4. ASSUME NEW i \in 1..n PROVE buffer[next_pos + i - 1] \in Byte
      <3>1. next_pos + i - 1 \in Index
        BY <1>1, <2>1, <2>4 DEF Index
      <3> QED
        BY <1>1, <3>1
    <2>5. n \in Nat
      BY <2>1
    <2>6. /\ result' \in Seq(Byte) /\ Len(result') = n
          /\ \A i \in 1..n : result'[i] = buffer[next_pos + i - 1]
      BY <2>3, <2>4, <2>5
    <2> QED
      BY <2>1, <2>2, <2>3, <2>6
  <1>4. CASE buf_unread_data_size = 0
    <2> DEFINE n == MinOf(max, Len(file.data) - file.pos)
    <2>1. /\ n \in 0..max /\ n <= Len(file.data) - file.pos
          /\ Fetched(file, max) \in Seq(Byte) /\ Len(Fetched(file, max)) = n
          /\ \A i \in 1..n : Fetched(file, max)[i] = file.data[file.pos + i]
          /\ Advance(file, Len(Fetched(file, max)), Len(Fetched(file, max)))
                = [data |-> file.data, pos |-> file.pos + n]
      BY <1>1, FetchedElements
    <2>2. n = 0 => file.pos = Len(file.data)
      BY <1>1 DEF MinOf
    <2> HIDE DEF n
    <2>3. result' = Fetched(file, max) /\ next_pos' = next_pos
          /\ file' = [data |-> file.data, pos |-> file.pos + n]
      BY <1>4, <2>1 DEF fetch
    <2>4. next_pos = MinOf(data_size, CacheSize)
      BY <1>1, <1>2, <1>4 DEF MinOf
    <2>5. n > 0 => next_pos = CacheSize
      BY <1>1, <1>2, <2>1, <2>4 DEF MinOf
    <2>6. file.pos + n <= Len(file.data)
      BY <1>1, <2>1
    <2> QED
      BY <2>1, <2>2, <2>3, <2>4, <2>5, <2>6
  <1> QED
    BY <1>3, <1>4

LEMMA FetchKeeps ==
    ASSUME IInv, NEW max \in Nat \ {0}, fetch(max)
    PROVE  IInv'
  <1>1. PICK n \in 0..max :
             /\ result' \in Seq(Byte) /\ Len(result') = n
             /\ \/ /\ next_pos + n <= MinOf(data_size, CacheSize) /\ n > 0 /\ file.pos = 0
                   /\ next_pos' = next_pos + n /\ file' = file
                \/ /\ next_pos = MinOf(data_size, CacheSize) /\ next_pos' = next_pos
                   /\ file' = [data |-> file.data, pos |-> file.pos + n]
                   /\ file.pos + n <= Len(file.data)
                   /\ n > 0 => next_pos = CacheSize
    BY FetchEffect
  <1>2. /\ next_pos \in 0..CacheSize /\ data_size \in Nat
        /\ file \in [data : Seq(Byte), pos : Nat]
        /\ Len(file.data) \in Nat /\ file.pos \in Nat /\ file.pos <= Len(file.data)
        /\ data_size = MinOf(data_size, CacheSize) + Len(file.data)
        /\ file.pos > 0 => next_pos = CacheSize
        /\ n \in Nat
    BY <1>1 DEF IInv, TypeOK, Layout
  <1>3. given' = <<>> /\ buffer' = buffer /\ data_size' = data_size
    BY DEF fetch
  <1>4. /\ file' \in [data : Seq(Byte), pos : Nat] /\ file'.data = file.data
        /\ file'.pos \in Nat /\ file'.pos <= Len(file.data)
        /\ next_pos' \in 0..CacheSize /\ next_pos' <= MinOf(data_size, CacheSize)
        /\ file'.pos > 0 => next_pos' = CacheSize
        /\ next_pos' + file'.pos = next_pos + file.pos + n
    <2>0. MinOf(data_size, CacheSize) \in Nat /\ MinOf(data_size, CacheSize) <= CacheSize
      BY <1>2, MinFacts
    <2>1. CASE /\ next_pos + n <= MinOf(data_size, CacheSize) /\ n > 0 /\ file.pos = 0
               /\ next_pos' = next_pos + n /\ file' = file
      BY <2>0, <2>1, <1>2
    <2>2. CASE /\ next_pos = MinOf(data_size, CacheSize) /\ next_pos' = next_pos
               /\ file' = [data |-> file.data, pos |-> file.pos + n]
               /\ file.pos + n <= Len(file.data)
               /\ n > 0 => next_pos = CacheSize
      <3>1. file'.data = file.data /\ file'.pos = file.pos + n /\ file.pos + n \in Nat
        BY <2>2, <1>2
      <3>2. file' \in [data : Seq(Byte), pos : Nat]
        BY <2>2, <3>1, <1>2
      <3>3. file'.pos > 0 => next_pos' = CacheSize
        BY <2>2, <3>1, <1>2
      <3>4. next_pos' + file'.pos = next_pos + file.pos + n
        BY <2>2, <3>1, <1>2
      <3> QED
        BY <2>0, <2>2, <3>1, <3>2, <3>3, <3>4, <1>2
    <2> QED
      BY <1>1, <2>1, <2>2
  <1>5. TypeOK'
    <2>1. result' \in Seq(Byte) /\ given' \in Seq(Byte)
      BY <1>1, <1>3
    <2> QED
      BY <2>1, <1>3, <1>4 DEF IInv, TypeOK
  <1>6. Layout'
    <2>1. MinOf(data_size, CacheSize) - next_pos' >= 0
      <3>1. MinOf(data_size, CacheSize) \in Nat
        BY <1>2, MinFacts
      <3>2. next_pos' \in Nat /\ next_pos' <= MinOf(data_size, CacheSize)
        BY <1>4
      <3> QED
        BY <3>1, <3>2
    <2>2. Len(file'.data) = Len(file.data)
      BY <1>4
    <2>3. /\ data_size' = MinOf(data_size', CacheSize) + Len(file'.data)
          /\ file'.pos > 0 => next_pos' = CacheSize
          /\ MinOf(data_size', CacheSize) - next_pos' >= 0
      BY <1>2, <1>3, <1>4, <2>1, <2>2
    <2> QED
      BY <2>3 DEF Layout, buf_unread_data_size
  <1>7. Passed'
    <2>1. Len(given') = 0 /\ Len(result') = n
      BY <1>1, <1>3
    <2> QED
      BY <2>1, <1>2, <1>4 DEF Passed
  <1> QED
    BY <1>5, <1>6, <1>7 DEF IInv

LEMMA RewindKeeps ==
    ASSUME IInv, rewind
    PROVE  IInv' /\ file' = [data |-> file.data, pos |-> 0]
  <1>1. file' = [data |-> file.data, pos |-> 0]
    BY DEF rewind, Rewind
  <1>2. /\ next_pos' = 0 /\ data_size' = data_size /\ buffer' = buffer
        /\ given' = <<>> /\ result' = <<>>
    BY DEF rewind
  <1>3. /\ data_size \in Nat /\ file.data \in Seq(Byte) /\ Len(file.data) \in Nat
        /\ data_size = MinOf(data_size, CacheSize) + Len(file.data)
    BY DEF IInv, TypeOK, Layout
  <1>4. file'.data = file.data /\ file'.pos = 0 /\ file' \in [data : Seq(Byte), pos : Nat]
    BY <1>1, <1>3
  <1>5. TypeOK'
    BY <1>2, <1>3, <1>4 DEF IInv, TypeOK
  <1>6. Layout'
    <2>1. /\ data_size' = MinOf(data_size', CacheSize) + Len(file'.data)
          /\ file'.pos > 0 => next_pos' = CacheSize
          /\ MinOf(data_size', CacheSize) - next_pos' >= 0
      BY <1>2, <1>3, <1>4, MinFacts
    <2> QED
      BY <2>1 DEF Layout, buf_unread_data_size
  <1>7. Passed'
    BY <1>2, <1>4 DEF Passed
  <1> QED
    BY <1>1, <1>5, <1>6, <1>7 DEF IInv

(* rewind_by leaves both cursors where the data, counted from the front,   *)
(* have data_size - amount bytes before them.                              *)
LEMMA RewindByEffect ==
    ASSUME IInv, NEW amount \in 1..data_size, rewind_by(amount)
    PROVE  /\ next_pos' \in 0..CacheSize /\ next_pos' <= MinOf(data_size, CacheSize)
           /\ file' = [data |-> file.data, pos |-> file'.pos]
           /\ file'.pos \in Nat /\ file'.pos <= Len(file.data)
           /\ file'.pos > 0 => next_pos' = CacheSize
           /\ next_pos + file.pos = data_size
           /\ next_pos' + file'.pos = data_size - amount
  <1>1. /\ data_size \in Nat /\ next_pos \in 0..CacheSize /\ file \in [data : Seq(Byte), pos : Nat]
        /\ Len(file.data) \in Nat /\ file.pos \in Nat
        /\ data_size = MinOf(data_size, CacheSize) + Len(file.data)
        /\ amount \in Nat /\ amount <= data_size /\ amount > 0
    BY DEF IInv, TypeOK, Layout
  <1>2. /\ file.pos = Len(file.data) /\ next_pos = MinOf(data_size, CacheSize)
        /\ next_pos + file.pos = data_size
    BY AtEndOfFile DEF IInv, rewind_by, AtEnd
  <1>3. CASE data_size - amount < CacheSize
    <2>1. file' = [data |-> file.data, pos |-> 0] /\ next_pos' = data_size - amount
      BY <1>1, <1>3 DEF rewind_by, Rewind
    <2> QED
      BY <1>1, <1>2, <1>3, <2>1 DEF MinOf
  <1>4. CASE ~(data_size - amount < CacheSize)
    <2>1. /\ file' = [data |-> file.data, pos |-> file.pos - amount]
          /\ next_pos' = next_pos
      BY <1>1, <1>4 DEF rewind_by
    <2> QED
      BY <1>1, <1>2, <1>4, <2>1 DEF MinOf
  <1> QED
    BY <1>3, <1>4

LEMMA RewindByKeeps ==
    ASSUME IInv, NEW amount \in 1..data_size, rewind_by(amount)
    PROVE  IInv'
  <1>1. /\ next_pos' \in 0..CacheSize /\ next_pos' <= MinOf(data_size, CacheSize)
        /\ file' = [data |-> file.data, pos |-> file'.pos]
        /\ file'.pos \in Nat /\ file'.pos <= Len(file.data)
        /\ file'.pos > 0 => next_pos' = CacheSize
    BY RewindByEffect
  <1>2. data_size' = data_size /\ buffer' = buffer /\ given' = <<>> /\ result' = <<>>
    BY DEF rewind_by
  <1>3. /\ data_size \in Nat /\ file.data \in Seq(Byte) /\ Len(file.data) \in Nat
        /\ data_size = MinOf(data_size, CacheSize) + Len(file.data)
    BY DEF IInv, TypeOK, Layout
  <1>4. file'.data = file.data /\ file' \in [data : Seq(Byte), pos : Nat]
    BY <1>1, <1>3
  <1>5. TypeOK'
    BY <1>1, <1>2, <1>3, <1>4 DEF IInv, TypeOK
  <1>6. Layout'
    <2>1. MinOf(data_size, CacheSize) - next_pos' >= 0
      BY <1>1, <1>3 DEF MinOf
    <2>2. /\ data_size' = MinOf(data_size', CacheSize) + Len(file'.data)
          /\ file'.pos > 0 => next_pos' = CacheSize
          /\ MinOf(data_size', CacheSize) - next_pos' >= 0
      BY <1>1, <1>2, <1>3, <1>4, <2>1
    <2> QED
      BY <2>2 DEF Layout, buf_unread_data_size
  <1>7. Passed'
    BY <1>1, <1>2 DEF Passed
  <1> QED
    BY <1>5, <1>6, <1>7 DEF IInv

LEMMA ClearKeeps ==
    ASSUME IInv, clear
    PROVE  IInv'
  BY DEF IInv, TypeOK, Layout, Passed, clear, EmptyFile, MinOf, buf_unread_data_size

LEMMA InitIInv == Init => IInv
  BY DEF Init, IInv, TypeOK, Layout, Passed, EmptyFile, MinOf, buf_unread_data_size, Index

LEMMA StepIInv == IInv /\ [Next]_vars => IInv'
  <1> SUFFICES ASSUME IInv, [Next]_vars PROVE IInv'
    OBVIOUS
  <1>1. ASSUME NEW d \in Blocks(MaxData), store(d) PROVE IInv'
    BY <1>1, BlockIsSeq, StoreKeeps
  <1>2. ASSUME NEW max \in 1..MaxFetch, fetch(max) PROVE IInv'
    BY <1>2, FetchKeeps
  <1>3. ASSUME rewind PROVE IInv'
    BY <1>3, RewindKeeps
  <1>4. ASSUME NEW amount \in 1..data_size, rewind_by(amount) PROVE IInv'
    BY <1>4, RewindByKeeps
  <1>5. ASSUME clear PROVE IInv'
    BY <1>5, ClearKeeps
  <1>6. CASE UNCHANGED vars
    BY <1>6 DEF vars, IInv, TypeOK, Layout, Passed, buf_unread_data_size
  <1> QED
    BY <1>1, <1>2, <1>3, <1>4, <1>5, <1>6 DEF Next

LEMMA Invariance == Spec => []IInv
  BY InitIInv, StepIInv, PTL DEF Spec

(* The memory cursor never leaves the array and the file's offset never    *)
(* passes the file's end, for every HIST_CACHE_SIZE.                       *)
THEOREM TypeCorrect == Spec => []TypeOK
  <1>1. IInv => TypeOK
    BY DEF IInv
  <1> QED
    BY <1>1, Invariance, PTL

(* Memory and file fit together at the border, and the unsigned difference *)
(* of _buf_unread_data_size (buffer.h:72) never wraps.                     *)
THEOREM LayoutCorrect == Spec => []Layout
  <1>1. IInv => Layout
    BY DEF IInv
  <1> QED
    BY <1>1, Invariance, PTL
-----------------------------------------------------------------------------
(* Hybridbuf implements Tape. *)

ContentFacts ==
    /\ Content \in Seq(Byte) /\ Len(Content) = data_size
    /\ \A i \in 1..data_size : Content[i] = IF i <= CacheSize THEN buffer[i - 1]
                                            ELSE file.data[i - CacheSize]

LEMMA ContentIsSeq == IInv => ContentFacts
  <1> SUFFICES ASSUME IInv PROVE ContentFacts
    OBVIOUS
  <1>1. /\ data_size \in Nat /\ file.data \in Seq(Byte) /\ buffer \in [Index -> Byte]
        /\ Len(file.data) \in Nat /\ data_size = MinOf(data_size, CacheSize) + Len(file.data)
    BY DEF IInv, TypeOK, Layout
  <1>2. ASSUME NEW i \in 1..data_size
        PROVE  (IF i <= CacheSize THEN buffer[i - 1] ELSE file.data[i - CacheSize]) \in Byte
    <2>1. CASE i <= CacheSize
      <3>1. i - 1 \in Index
        BY <2>1, <1>1 DEF Index
      <3> QED
        BY <2>1, <3>1, <1>1
    <2>2. CASE i > CacheSize
      <3>0. data_size = CacheSize + Len(file.data)
        <4>1. ~(data_size <= CacheSize)
          BY <2>2, <1>1
        <4>2. MinOf(data_size, CacheSize) = CacheSize
          BY <4>1 DEF MinOf
        <4> QED
          BY <4>2, <1>1
      <3>1. i - CacheSize \in 1..Len(file.data)
        BY <2>2, <3>0, <1>1
      <3>2. file.data[i - CacheSize] \in Byte
        BY <3>1, <1>1
      <3> QED
        BY <2>2, <3>2
    <2> QED
      BY <2>1, <2>2, <1>1
  <1> QED
    BY <1>1, <1>2 DEF ContentFacts, Content

LEMMA ContentIsSeqNext == IInv' => ContentFacts'
  BY ContentIsSeq, PTL

LEMMA StoreExtends ==
    ASSUME IInv, NEW d \in Seq(Byte), store(d)
    PROVE  TheTape!Extend(d)
  <1>1. PICK n \in 0..Len(d) :
             /\ next_pos' = next_pos + n /\ next_pos + n <= CacheSize
             /\ n < Len(d) => next_pos + n = CacheSize
             /\ \A i \in Index : buffer'[i] = IF i >= next_pos /\ i < next_pos + n
                                              THEN d[i - next_pos + 1] ELSE buffer[i]
             /\ LeftOver(d) \in Seq(Byte) /\ Len(LeftOver(d)) = Len(d) - n
             /\ \A i \in 1..(Len(d) - n) : LeftOver(d)[i] = d[n + i]
             /\ file'.data = file.data \o LeftOver(d)
             /\ file'.pos = Len(file.data) + (Len(d) - n)
    BY StoreEffect DEF IInv
  <1> DEFINE k == Len(d)
             m == Len(file.data)
             lo == LeftOver(d)
  <1>2. k \in Nat /\ n \in Nat /\ n <= k
    <2>1. Len(d) \in Nat
      OBVIOUS
    <2> QED
      BY <2>1
  <1>3. /\ next_pos \in 0..CacheSize /\ data_size \in Nat /\ file.data \in Seq(Byte) /\ m \in Nat
        /\ data_size = MinOf(data_size, CacheSize) + m
    BY DEF IInv, TypeOK, Layout
  <1>4. /\ next_pos = MinOf(data_size, CacheSize) /\ file.pos = m
        /\ next_pos + file.pos = data_size /\ data_size' = data_size + k
        /\ given' = d /\ result' = <<>>
    BY AtEndOfFile DEF IInv, store, AtEnd
  <1>5. /\ Content \in Seq(Byte) /\ Len(Content) = data_size
        /\ \A i \in 1..data_size : Content[i] = IF i <= CacheSize THEN buffer[i - 1]
                                                ELSE file.data[i - CacheSize]
    BY ContentIsSeq DEF ContentFacts
  <1>6. /\ Content' \in Seq(Byte) /\ Len(Content') = data_size + k
        /\ \A i \in 1..(data_size + k) : Content'[i] = IF i <= CacheSize THEN buffer'[i - 1]
                                                       ELSE file'.data[i - CacheSize]
    <2>1. IInv'
      BY StoreKeeps
    <2> QED
      BY <2>1, <1>4, ContentIsSeqNext DEF ContentFacts
  <1>7. /\ lo \in Seq(Byte) /\ Len(lo) = k - n
        /\ \A i \in 1..(k - n) : lo[i] = d[n + i]
        /\ file'.data = file.data \o lo
        /\ \A i \in Index : buffer'[i] = IF i >= next_pos /\ i < next_pos + n
                                         THEN d[i - next_pos + 1] ELSE buffer[i]
        /\ next_pos + n <= CacheSize /\ (n < k => next_pos + n = CacheSize)
        /\ next_pos' = next_pos + n /\ file'.pos = m + (k - n)
    <2>1. /\ lo \in Seq(Byte) /\ Len(lo) = k - n
          /\ \A i \in 1..(k - n) : lo[i] = d[n + i]
          /\ file'.data = file.data \o lo
      BY <1>1
    <2>2. \A i \in Index : buffer'[i] = IF i >= next_pos /\ i < next_pos + n
                                        THEN d[i - next_pos + 1] ELSE buffer[i]
      BY <1>1
    <2>3. /\ next_pos + n <= CacheSize /\ (n < k => next_pos + n = CacheSize)
          /\ next_pos' = next_pos + n /\ file'.pos = m + (k - n)
      BY <1>1
    <2> HIDE DEF k, m, lo
    <2> QED
      BY <2>1, <2>2, <2>3
  <1>8. /\ \A i \in 1..m : (file.data \o lo)[i] = file.data[i]
        /\ \A i \in 1..(k - n) : (file.data \o lo)[m + i] = lo[i]
    <2> HIDE DEF lo
    <2>1. lo \in Seq(Byte) /\ file.data \in Seq(Byte) /\ Len(lo) = k - n
      BY <1>3, <1>7
    <2>2. /\ \A i \in 1..Len(file.data) : (file.data \o lo)[i] = file.data[i]
          /\ \A i \in 1..Len(lo) : (file.data \o lo)[Len(file.data) + i] = lo[i]
      BY <2>1, ConcatElements
    <2> QED
      BY <2>1, <2>2
  <1> DEFINE t == Content \o d
  <1>9. /\ t \in Seq(Byte) /\ Len(t) = data_size + k
        /\ \A i \in 1..data_size : t[i] = Content[i]
        /\ \A i \in 1..k : t[data_size + i] = d[i]
    BY <1>5, ConcatElements
  <1> HIDE DEF k, m, lo, t
  <1>10. \/ data_size <= CacheSize /\ next_pos = data_size /\ m = 0
         \/ data_size > CacheSize /\ next_pos = CacheSize /\ m = data_size - CacheSize /\ n = 0
    <2>1. CASE data_size <= CacheSize
      BY <2>1, <1>3, <1>4 DEF MinOf
    <2>2. CASE ~(data_size <= CacheSize)
      BY <2>2, <1>2, <1>3, <1>4, <1>7 DEF MinOf
    <2> QED
      BY <2>1, <2>2
  <1>11. ASSUME NEW i \in 1..(data_size + k)
         PROVE  Content'[i] = IF i <= CacheSize THEN buffer'[i - 1]
                              ELSE (file.data \o lo)[i - CacheSize]
    BY <1>6, <1>7
  <1>12. ASSUME NEW i \in 1..data_size PROVE Content'[i] = t[i]
    <2>0. i \in 1..(data_size + k) /\ i \in Int
      BY <1>2, <1>3
    <2>1. CASE i <= CacheSize
      <3>1. i - 1 \in Index /\ ~(i - 1 >= next_pos)
        BY <2>1, <1>3, <1>10 DEF Index
      <3>2. Content'[i] = buffer'[i - 1] /\ Content[i] = buffer[i - 1] /\ t[i] = Content[i]
        BY <2>0, <2>1, <1>5, <1>11, <1>9
      <3>3. buffer'[i - 1] = buffer[i - 1]
        BY <3>1, <1>7
      <3> QED
        BY <3>2, <3>3
    <2>2. CASE ~(i <= CacheSize)
      <3>1. i - CacheSize \in 1..m
        BY <2>0, <2>2, <1>3, <1>10
      <3>2. /\ Content'[i] = (file.data \o lo)[i - CacheSize] /\ t[i] = Content[i]
            /\ Content[i] = file.data[i - CacheSize]
        BY <2>0, <2>2, <1>5, <1>11, <1>9
      <3> QED
        BY <3>1, <3>2, <1>8
    <2> QED
      BY <2>1, <2>2
  <1>13. ASSUME NEW j \in 1..k PROVE Content'[data_size + j] = t[data_size + j]
    <2>0. data_size + j \in 1..(data_size + k) /\ j \in Int /\ data_size + j \in Int
      BY <1>2, <1>3
    <2>1. t[data_size + j] = d[j]
      BY <1>9
    <2>2. CASE data_size + j <= CacheSize
      <3>1. /\ (data_size + j) - 1 \in Index /\ data_size = next_pos
            /\ (data_size + j) - 1 >= next_pos /\ (data_size + j) - 1 < next_pos + n
            /\ ((data_size + j) - 1) - next_pos + 1 = j
        <4>1. data_size = next_pos /\ j <= n
          BY <2>0, <2>2, <1>2, <1>3, <1>7, <1>10
        <4> QED
          BY <4>1, <2>0, <2>2, <1>2, <1>3 DEF Index
      <3>2. Content'[data_size + j] = buffer'[(data_size + j) - 1]
        <4> DEFINE i == data_size + j
        <4> HIDE DEF i
        <4>1. i \in 1..(data_size + k) /\ i <= CacheSize
          BY <2>0, <2>2 DEF i
        <4>2. Content'[i] = buffer'[i - 1]
          BY <4>1, <1>11
        <4> QED
          BY <4>2 DEF i
      <3>3. buffer'[(data_size + j) - 1] = d[j]
        BY <3>1, <1>7
      <3> QED
        BY <3>2, <3>3, <2>1
    <2>3. CASE ~(data_size + j <= CacheSize)
      <3>1. /\ j - n \in 1..(k - n) /\ (data_size + j) - CacheSize = m + (j - n)
            /\ n + (j - n) = j
        <4>1. data_size = next_pos + m /\ n < k /\ next_pos + n = CacheSize
          BY <2>0, <2>3, <1>2, <1>3, <1>7, <1>10
        <4>2. j > n
          BY <4>1, <2>0, <2>3, <1>2, <1>3, <1>10
        <4> QED
          BY <4>1, <4>2, <2>0, <1>2, <1>3
      <3>2. Content'[data_size + j] = (file.data \o lo)[(data_size + j) - CacheSize]
        <4> DEFINE i == data_size + j
        <4> HIDE DEF i
        <4>1. i \in 1..(data_size + k) /\ ~(i <= CacheSize)
          BY <2>0, <2>3 DEF i
        <4>2. Content'[i] = (file.data \o lo)[i - CacheSize]
          BY <4>1, <1>11
        <4> QED
          BY <4>2 DEF i
      <3>3. (file.data \o lo)[m + (j - n)] = lo[j - n] /\ lo[j - n] = d[n + (j - n)]
        BY <3>1, <1>7, <1>8
      <3> QED
        BY <3>1, <3>2, <3>3, <2>1
    <2> QED
      BY <2>2, <2>3
  <1>14. Content' = t
    <2>1. ASSUME NEW i \in 1..(data_size + k) PROVE Content'[i] = t[i]
      <3>1. CASE i <= data_size
        BY <3>1, <1>3, <1>12
      <3>2. CASE ~(i <= data_size)
        <4>1. i - data_size \in 1..k /\ data_size + (i - data_size) = i
          BY <3>2, <1>2, <1>3
        <4> QED
          BY <4>1, <1>13
      <3> QED
        BY <3>1, <3>2
    <2> QED
      BY <2>1, <1>6, <1>9, SeqExtensional
  <1>15. next_pos' + file'.pos = (next_pos + file.pos) + k
    BY <1>2, <1>3, <1>4, <1>7
  <1> QED
    BY <1>4, <1>5, <1>14, <1>15 DEF TheTape!Extend, t, k

LEMMA FetchFetches ==
    ASSUME IInv, NEW max \in Nat \ {0}, fetch(max)
    PROVE  TheTape!Fetch(max)
  <1>1. PICK n \in 0..max :
             /\ result' \in Seq(Byte) /\ Len(result') = n
             /\ \/ /\ next_pos + n <= MinOf(data_size, CacheSize) /\ n > 0 /\ file.pos = 0
                   /\ next_pos' = next_pos + n /\ file' = file
                   /\ \A i \in 1..n : result'[i] = buffer[next_pos + i - 1]
                \/ /\ next_pos = MinOf(data_size, CacheSize) /\ next_pos' = next_pos
                   /\ file' = [data |-> file.data, pos |-> file.pos + n]
                   /\ file.pos + n <= Len(file.data)
                   /\ n > 0 => next_pos = CacheSize
                   /\ n = 0 => file.pos = Len(file.data)
                   /\ \A i \in 1..n : result'[i] = file.data[file.pos + i]
    BY FetchEffect
  <1> DEFINE c == next_pos + file.pos
             m == Len(file.data)
  <1>2. /\ next_pos \in 0..CacheSize /\ data_size \in Nat /\ m \in Nat /\ file.pos \in Nat
        /\ data_size = MinOf(data_size, CacheSize) + m /\ n \in Nat
    BY DEF IInv, TypeOK, Layout
  <1>3. /\ Content \in Seq(Byte) /\ Len(Content) = data_size
        /\ \A i \in 1..data_size : Content[i] = IF i <= CacheSize THEN buffer[i - 1]
                                                ELSE file.data[i - CacheSize]
    BY ContentIsSeq DEF ContentFacts
  <1>4. given' = <<>> /\ buffer' = buffer /\ data_size' = data_size
    BY DEF fetch
  <1>5. /\ c + n <= data_size /\ (n = 0 => c = data_size)
        /\ next_pos' + file'.pos = c + n
    <2>1. CASE /\ next_pos + n <= MinOf(data_size, CacheSize) /\ n > 0 /\ file.pos = 0
               /\ next_pos' = next_pos + n /\ file' = file
      BY <2>1, <1>2 DEF MinOf
    <2>2. CASE /\ next_pos = MinOf(data_size, CacheSize) /\ next_pos' = next_pos
               /\ file' = [data |-> file.data, pos |-> file.pos + n]
               /\ file.pos + n <= m
               /\ n = 0 => file.pos = m
      <3>1. file'.pos = file.pos + n
        BY <2>2
      <3>2. data_size = next_pos + m
        BY <2>2, <1>2
      <3> HIDE DEF m
      <3> QED
        BY <2>2, <3>1, <3>2, <1>2
    <2> QED
      BY <1>1, <2>1, <2>2
  <1>6. Content' = Content
    <2>1. file'.data = file.data
      BY <1>1
    <2> QED
      BY <2>1, <1>4 DEF Content
  <1>7. ASSUME NEW i \in 1..n PROVE result'[i] = Content[c + i]
    <2>1. CASE /\ next_pos + n <= MinOf(data_size, CacheSize) /\ file.pos = 0
               /\ \A j \in 1..n : result'[j] = buffer[next_pos + j - 1]
      <3>1. c + i \in 1..data_size /\ c + i <= CacheSize /\ (c + i) - 1 = next_pos + i - 1
        BY <2>1, <1>2 DEF MinOf
      <3> HIDE DEF c
      <3> QED
        BY <2>1, <3>1, <1>3
    <2>2. CASE /\ file.pos + n <= Len(file.data)
               /\ n > 0 => next_pos = CacheSize
               /\ \A j \in 1..n : result'[j] = file.data[file.pos + j]
      <3>1. c + i \in 1..data_size /\ ~(c + i <= CacheSize) /\ (c + i) - CacheSize = file.pos + i
        <4>1. i \in Nat /\ i >= 1 /\ i <= n /\ next_pos = CacheSize
          BY <2>2, <1>2
        <4>2. c = CacheSize + file.pos
          BY <4>1
        <4>3. file.pos \in Nat /\ data_size \in Nat /\ c + n <= data_size /\ n \in Nat
          BY <1>2, <1>5
        <4> HIDE DEF c
        <4> QED
          BY <4>1, <4>2, <4>3
      <3> HIDE DEF c
      <3> QED
        BY <2>2, <3>1, <1>3
    <2> QED
      BY <1>1, <2>1, <2>2
  <1>8. c \in Nat
    BY <1>2
  <1> HIDE DEF c, m
  <1>9. result' = SubSeq(Content, c + 1, c + n)
    <2> DEFINE u == SubSeq(Content, c + 1, c + n)
    <2>1. /\ c + 1 \in 1..(data_size + 1) /\ c + n \in 0..data_size /\ c + 1 <= (c + n) + 1
          /\ (c + n) - (c + 1) + 1 = n
          /\ \A i \in 1..n : c + 1 + i - 1 = c + i
      BY <1>2, <1>5, <1>8
    <2>2. /\ u \in Seq(Byte) /\ Len(u) = (c + n) - (c + 1) + 1
          /\ \A i \in 1..((c + n) - (c + 1) + 1) : u[i] = Content[c + 1 + i - 1]
      BY <2>1, <1>3, SubSeqElements
    <2>3. u \in Seq(Byte) /\ Len(u) = n /\ \A i \in 1..n : u[i] = Content[c + i]
      BY <2>1, <2>2
    <2> HIDE DEF u
    <2>4. result' \in Seq(Byte) /\ Len(result') = n
      BY <1>1
    <2>5. result' = u
      BY <2>3, <2>4, <1>7, SeqExtensional
    <2> QED
      BY <2>5 DEF u
  <1> QED
    BY <1>3, <1>4, <1>5, <1>6, <1>9 DEF TheTape!Fetch, c

(* The history buffer implements the plain tape with a cursor: for every   *)
(* HIST_CACHE_SIZE, the border between memory and file loses, doubles and  *)
(* reorders nothing, and a fetch returns 0 only at the end of the data, so *)
(* that copy_data's loop copies all of it.                                 *)
THEOREM Refinement == Spec => ImplementsTape
  <1>1. Init => TheTape!Init
    <2> SUFFICES ASSUME Init PROVE TheTape!Init
      OBVIOUS
    <2>1. Content \in Seq(Byte) /\ Len(Content) = 0
      BY InitIInv, ContentIsSeq DEF ContentFacts, Init
    <2>2. Content = <<>>
      BY <2>1
    <2> QED
      BY <2>2 DEF Init, TheTape!Init, EmptyFile
  <1>2. IInv /\ [Next]_vars => [TheTape!Next]_(TheTape!vars)
    <2> SUFFICES ASSUME IInv, [Next]_vars PROVE [TheTape!Next]_(TheTape!vars)
      OBVIOUS
    <2>1. ASSUME NEW d \in Blocks(MaxData), store(d) PROVE TheTape!Next
      BY <2>1, BlockIsSeq, StoreExtends DEF TheTape!Next, TheTape!Blocks, Blocks
    <2>2. ASSUME NEW max \in 1..MaxFetch, fetch(max) PROVE TheTape!Next
      BY <2>2, FetchFetches DEF TheTape!Next
    <2>3. ASSUME rewind PROVE [TheTape!Next]_(TheTape!vars)
      <3>1. /\ next_pos' = 0 /\ file'.pos = 0 /\ file'.data = file.data
            /\ given' = <<>> /\ result' = <<>>
            /\ Content' = Content
        BY <2>3, RewindKeeps DEF rewind, Content
      <3>2. /\ next_pos \in Nat /\ file.pos \in Nat
            /\ Len(given) + Len(result) <= next_pos + file.pos
            /\ given \in Seq(Byte) /\ result \in Seq(Byte)
        BY DEF IInv, TypeOK, Passed
      <3>3. CASE next_pos + file.pos = 0
        <4>1. given = <<>> /\ result = <<>>
          BY <3>2, <3>3
        <4> QED
          BY <3>1, <3>3, <4>1 DEF TheTape!vars
      <3>4. CASE next_pos + file.pos # 0
        <4>1. next_pos + file.pos \in 1..(next_pos + file.pos)
          BY <3>2, <3>4
        <4>2. TheTape!Back(next_pos + file.pos)
          BY <3>1, <3>2 DEF TheTape!Back
        <4> QED
          BY <4>1, <4>2 DEF TheTape!Next
      <3> QED
        BY <3>3, <3>4
    <2>4. ASSUME NEW amount \in 1..data_size, rewind_by(amount) PROVE TheTape!Next
      <3>1. /\ file' = [data |-> file.data, pos |-> file'.pos]
            /\ next_pos + file.pos = data_size
            /\ next_pos' + file'.pos = data_size - amount
        BY <2>4, RewindByEffect
      <3>2. /\ data_size' = data_size /\ buffer' = buffer /\ given' = <<>> /\ result' = <<>>
        BY <2>4 DEF rewind_by
      <3>3. file'.data = file.data
        BY <3>1
      <3>4. Content' = Content
        BY <3>2, <3>3 DEF Content
      <3>5. amount \in 1..(next_pos + file.pos) /\ amount <= next_pos + file.pos
        BY <3>1 DEF IInv, TypeOK
      <3>6. TheTape!Back(amount)
        BY <3>1, <3>2, <3>4, <3>5 DEF TheTape!Back
      <3> QED
        BY <3>5, <3>6 DEF TheTape!Next
    <2>5. ASSUME clear PROVE TheTape!Next
      <3>1. ContentFacts' /\ data_size' = 0
        BY <2>5, ClearKeeps, ContentIsSeqNext DEF clear
      <3>2. Content' \in Seq(Byte) /\ Len(Content') = 0
        BY <3>1 DEF ContentFacts
      <3>3. Content' = <<>>
        BY <3>2
      <3> QED
        BY <2>5, <3>3 DEF clear, EmptyFile, TheTape!Clear, TheTape!Next
    <2>6. CASE UNCHANGED vars
      BY <2>6 DEF vars, TheTape!vars, Content
    <2> QED
      BY <2>1, <2>2, <2>3, <2>4, <2>5, <2>6 DEF Next
  <1> QED
    BY <1>1, <1>2, Invariance, PTL DEF Spec, ImplementsTape, TheTape!Spec
=============================================================================
