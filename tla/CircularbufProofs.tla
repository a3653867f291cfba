------------------------- MODULE CircularbufProofs -------------------------
(***************************************************************************)
(* Proofs about Circularbuf for every buffer size, byte set and block      *)
(* length: the pointers never leave the array, and the buffer implements   *)
(* the bounded FIFO queue of ByteQueue.                                    *)
(***************************************************************************)
EXTENDS Circularbuf, TLAPS

USE BufSizeAssumption, MaxOfferAssumption

(* A block is a sequence of bytes. *)
LEMMA BlockIsSeq ==
    ASSUME NEW k \in Nat, NEW d \in Blocks(k)
    PROVE  d \in Seq(Byte)
  <1>1. PICK n \in 0..k : d \in [1..n -> Byte]
    BY DEF Blocks
  <1> QED
    BY <1>1

(* The elements of a concatenation. *)
LEMMA ConcatElements ==
    ASSUME NEW s \in Seq(Byte), NEW t \in Seq(Byte)
    PROVE  /\ s \o t \in Seq(Byte)
           /\ Len(s \o t) = Len(s) + Len(t)
           /\ \A i \in 1..Len(s) : (s \o t)[i] = s[i]
           /\ \A i \in 1..Len(t) : (s \o t)[Len(s) + i] = t[i]
  OBVIOUS

(* The elements of a subsequence. *)
LEMMA SubSeqElements ==
    ASSUME NEW s \in Seq(Byte), NEW m \in 1..(Len(s) + 1), NEW n \in 0..Len(s), m <= n + 1
    PROVE  /\ SubSeq(s, m, n) \in Seq(Byte)
           /\ Len(SubSeq(s, m, n)) = n - m + 1
           /\ \A i \in 1..(n - m + 1) : SubSeq(s, m, n)[i] = s[m + i - 1]
  OBVIOUS

(* data_size() is the number of bytes stored; remaining_space() is what is *)
(* left of the SOCK_IO_BUF_SIZE - 1 usable cells, never negative.          *)
LEMMA Sizes ==
    ASSUME start \in Index, end \in Index
    PROVE  /\ data_size \in 0..(BufSize - 1)
           /\ remaining_space \in 0..(BufSize - 1)
  BY DEF Index, data_size, remaining_space

LEMMA MemcpyType ==
    ASSUME NEW b \in [Index -> Byte], NEW at \in Index, NEW d \in Seq(Byte)
    PROVE  Memcpy(b, at, d) \in [Index -> Byte]
  BY DEF Memcpy, Index

LEMMA CopyFromType ==
    ASSUME TypeOK, NEW d \in Seq(Byte), copy_from(d)
    PROVE  TypeOK'
  <1> DEFINE size == MinOf(Len(d), remaining_space)
             right == BufSize - end
             n == MinOf(size, right)
  <1>1. /\ data_size \in 0..(BufSize - 1)
        /\ remaining_space \in 0..(BufSize - 1)
        /\ remaining_space = BufSize - 1 - data_size
    BY Sizes DEF TypeOK, remaining_space
  <1>2. Len(d) \in Nat /\ size \in 0..Len(d) /\ size <= remaining_space
    BY <1>1 DEF MinOf
  <1>3. right \in 1..BufSize /\ n \in 0..size /\ n <= right /\ (n < right => n = size)
    BY <1>2 DEF MinOf, TypeOK, Index
  <1>4. start' \in Index /\ count' \in Nat /\ taken' \in Seq(Byte) /\ given' \in Seq(Byte)
    BY <1>2 DEF copy_from, TypeOK
  <1>5. CASE size = 0
    BY <1>4, <1>5 DEF copy_from, TypeOK
  <1>6. CASE size > 0 /\ end >= start
    <2>1. /\ buffer' = Memcpy(Memcpy(buffer, end, SubSeq(d, 1, n)), 0, SubSeq(d, n + 1, size))
          /\ end' = IF n < right THEN end + n ELSE size - n
      BY <1>2, <1>6 DEF copy_from, TypeOK, Index
    <2>2. SubSeq(d, 1, n) \in Seq(Byte) /\ SubSeq(d, n + 1, size) \in Seq(Byte)
      BY <1>2, <1>3
    <2>3. buffer' \in [Index -> Byte]
      <3>1. Memcpy(buffer, end, SubSeq(d, 1, n)) \in [Index -> Byte]
        BY <2>2, MemcpyType DEF TypeOK
      <3>2. 0 \in Index
        BY DEF Index
      <3> QED
        BY <2>1, <2>2, <3>1, <3>2, MemcpyType
    <2>4. end' \in Index
      BY <2>1, <1>1, <1>2, <1>3, <1>6 DEF TypeOK, Index, data_size
    <2> QED
      BY <1>4, <2>3, <2>4 DEF TypeOK
  <1>7. CASE size > 0 /\ end < start
    <2>1. buffer' = Memcpy(buffer, end, SubSeq(d, 1, size)) /\ end' = end + size
      BY <1>2, <1>7 DEF copy_from, TypeOK, Index
    <2>2. SubSeq(d, 1, size) \in Seq(Byte)
      BY <1>2
    <2>3. buffer' \in [Index -> Byte]
      BY <2>1, <2>2, MemcpyType DEF TypeOK
    <2>4. end' \in Index
      BY <2>1, <1>1, <1>2, <1>7 DEF TypeOK, Index, data_size
    <2> QED
      BY <1>4, <2>3, <2>4 DEF TypeOK
  <1> QED
    BY <1>2, <1>5, <1>6, <1>7 DEF TypeOK, Index

(* Consuming n bytes keeps the pointers inside the array; data_size drops  *)
(* by exactly n, and the bytes handed out are the n oldest ones.           *)
LEMMA ConsumeEffect ==
    ASSUME TypeOK, NEW n \in 0..data_size, Consume(n)
    PROVE  /\ buffer' \in [Index -> Byte] /\ start' \in Index /\ end' \in Index
           /\ taken' \in Seq(Byte)
           /\ data_size' = data_size - n
           /\ taken' = [i \in 1..n |-> Content[i]]
           /\ Content' = [i \in 1..(data_size - n) |-> Content[i + n]]
  <1> DEFINE right == BufSize - start
  <1>1. data_size \in 0..(BufSize - 1) /\ n \in Nat
    BY Sizes DEF TypeOK
  <1>2. buffer' = buffer /\ end' = end
    BY DEF Consume
  <1>3. CASE start > end /\ n < right
    <2>1. start' = start + n /\ taken' = Cells(start, n)
      BY <1>3 DEF Consume, TypeOK, Index
    <2>2. start' \in Index /\ data_size' = data_size - n
      BY <1>1, <1>2, <1>3, <2>1 DEF TypeOK, Index, data_size
    <2>3. taken' \in Seq(Byte) /\ taken' = [i \in 1..n |-> Content[i]]
      BY <1>1, <1>3, <2>1 DEF TypeOK, Index, Cells, Content
    <2>4. Content' = [i \in 1..(data_size - n) |-> Content[i + n]]
      BY <1>1, <1>2, <1>3, <2>1, <2>2 DEF TypeOK, Index, Content
    <2> QED
      BY <1>2, <2>2, <2>3, <2>4 DEF TypeOK
  <1>4. CASE start > end /\ n >= right
    <2>1. start' = n - right /\ taken' = Cells(start, right) \o Cells(0, n - right)
      BY <1>4 DEF Consume, TypeOK, Index
    <2>2. start' \in Index /\ data_size' = data_size - n
      BY <1>1, <1>2, <1>4, <2>1 DEF TypeOK, Index, data_size
    <2>3. /\ Cells(start, right) \in Seq(Byte) /\ Len(Cells(start, right)) = right
          /\ Cells(0, n - right) \in Seq(Byte) /\ Len(Cells(0, n - right)) = n - right
      BY <1>1, <1>4 DEF TypeOK, Index, Cells, data_size
    <2>4. taken' \in Seq(Byte) /\ Len(taken') = n
      <3> HIDE DEF right
      <3>1. right \in Int /\ right + (n - right) = n
        BY <1>1 DEF TypeOK, Index, right
      <3> QED
        BY <2>1, <2>3, <3>1, ConcatElements
    <2>5. ASSUME NEW i \in 1..n PROVE taken'[i] = Content[i]
      <3>1. CASE i <= right
        <4>1. taken'[i] = Cells(start, right)[i]
          BY <2>1, <2>3, <3>1, <1>1
        <4> QED
          BY <4>1, <3>1, <1>1, <1>4 DEF TypeOK, Index, Cells, Content
      <3>2. CASE i > right
        <4>1. i - right \in 1..(n - right)
          BY <3>2, <1>1 DEF TypeOK, Index
        <4>2. taken'[i] = Cells(0, n - right)[i - right]
          <5> DEFINE s == Cells(start, right)
                     t == Cells(0, n - right)
                     j == i - right
          <5>1. taken' = s \o t /\ s \in Seq(Byte) /\ t \in Seq(Byte) /\ j \in 1..Len(t)
            BY <2>1, <2>3, <4>1
          <5>2. right \in Int /\ i \in Int /\ Len(s) = right
            BY <2>3, <1>1 DEF TypeOK, Index
          <5>5. i = Len(s) + j
            <6> HIDE DEF right, s
            <6> QED
              BY <5>2
          <5> HIDE DEF s, t, j
          <5>3. (s \o t)[Len(s) + j] = t[j]
            BY <5>1, ConcatElements
          <5>4. taken'[i] = t[j]
            BY <5>1, <5>5, <5>3
          <5> QED
            BY <5>4 DEF t, j
        <4> QED
          BY <4>1, <4>2, <3>2, <1>1, <1>4 DEF TypeOK, Index, Cells, Content
      <3> QED
        BY <3>1, <3>2, <1>1 DEF TypeOK, Index
    <2>6. taken' = [i \in 1..n |-> Content[i]]
      BY <2>4, <2>5, <1>1
    <2>7. Content' = [i \in 1..(data_size - n) |-> Content[i + n]]
      BY <1>1, <1>2, <1>4, <2>1, <2>2 DEF TypeOK, Index, Content, data_size
    <2> QED
      BY <1>2, <2>2, <2>4, <2>6, <2>7 DEF TypeOK
  <1>5. CASE start <= end
    <2>1. start' = start + n /\ taken' = Cells(start, n)
      BY <1>5 DEF Consume, TypeOK, Index
    <2>2. start' \in Index /\ data_size' = data_size - n
      BY <1>1, <1>2, <1>5, <2>1 DEF TypeOK, Index, data_size
    <2>3. taken' \in Seq(Byte) /\ taken' = [i \in 1..n |-> Content[i]]
      BY <1>1, <1>5, <2>1 DEF TypeOK, Index, Cells, Content, data_size
    <2>4. Content' = [i \in 1..(data_size - n) |-> Content[i + n]]
      BY <1>1, <1>2, <1>5, <2>1, <2>2 DEF TypeOK, Index, Content, data_size
    <2> QED
      BY <1>2, <2>2, <2>3, <2>4 DEF TypeOK
  <1> QED
    BY <1>3, <1>4, <1>5 DEF TypeOK, Index

LEMMA ContentIsSeq ==
    ASSUME TypeOK
    PROVE  Content \in Seq(Byte) /\ Len(Content) = data_size
  <1>1. data_size \in 0..(BufSize - 1)
    BY Sizes DEF TypeOK
  <1>2. ASSUME NEW i \in 1..data_size
        PROVE  (IF start + i - 1 < BufSize THEN buffer[start + i - 1]
                ELSE buffer[start + i - 1 - BufSize]) \in Byte
    BY <1>1, <1>2 DEF TypeOK, Index
  <1> QED
    BY <1>1, <1>2 DEF Content

(* copy_from appends to the content the prefix of d that fits. *)
LEMMA CopyFromEffect ==
    ASSUME TypeOK, NEW d \in Seq(Byte), copy_from(d),
           NEW size, size = MinOf(Len(d), remaining_space)
    PROVE  /\ data_size' = data_size + size
           /\ \A i \in 1..data_size : Content'[i] = Content[i]
           /\ \A i \in 1..size : Content'[data_size + i] = d[i]
  <1> DEFINE right == BufSize - end
             n == MinOf(size, right)
  <1>1. /\ data_size \in 0..(BufSize - 1)
        /\ remaining_space = BufSize - 1 - data_size
        /\ size \in Nat /\ size <= Len(d) /\ size <= BufSize - 1 - data_size
    BY Sizes DEF TypeOK, remaining_space, MinOf
  <1>2. TypeOK' /\ start' = start
    BY CopyFromType DEF copy_from
  <1>3. right \in 1..BufSize /\ n \in 0..size /\ n <= right /\ (n < right => n = size)
    BY <1>1 DEF MinOf, TypeOK, Index
  <1>4. /\ start \in 0..(BufSize - 1) /\ end \in 0..(BufSize - 1)
        /\ start' \in 0..(BufSize - 1) /\ end' \in 0..(BufSize - 1)
        /\ BufSize \in Nat /\ BufSize > 0
        /\ right = BufSize - end
    BY <1>2 DEF TypeOK, Index
  <1>5. CASE size = 0
    <2>1. buffer' = buffer /\ end' = end
      BY <1>5 DEF copy_from
    <2> QED
      BY <1>1, <1>2, <1>5, <2>1 DEF Content, data_size
  <1>6. CASE size > 0 /\ end >= start
    <2>1. /\ buffer' = Memcpy(Memcpy(buffer, end, SubSeq(d, 1, n)), 0, SubSeq(d, n + 1, size))
          /\ end' = IF n < right THEN end + n ELSE size - n
      BY <1>1, <1>4, <1>6 DEF copy_from
    <2>2. /\ Len(SubSeq(d, 1, n)) = n
          /\ \A i \in 1..n : SubSeq(d, 1, n)[i] = d[i]
      <3> HIDE DEF n, right
      <3>1. n \in 0..Len(d) /\ n - 1 + 1 = n /\ \A i \in 1..n : 1 + i - 1 = i
        BY <1>1, <1>3
      <3> QED
        BY <3>1, SubSeqElements
    <2>3. /\ Len(SubSeq(d, n + 1, size)) = size - n
          /\ \A i \in 1..(size - n) : SubSeq(d, n + 1, size)[i] = d[n + i]
      <3> HIDE DEF n, right
      <3>1. /\ n + 1 \in 1..(size + 1) /\ size \in 0..Len(d)
            /\ size - (n + 1) + 1 = size - n
            /\ \A i \in 1..(size - n) : (n + 1) + i - 1 = n + i
        BY <1>1, <1>3
      <3> QED
        BY <3>1, SubSeqElements
    <2> HIDE DEF n, right
    <2>4. /\ data_size = end - start
          /\ data_size' = data_size + size
      <3>1. data_size = end - start
        BY <1>4, <1>6 DEF data_size
      <3>2. CASE n < right
        <4>1. end' = end + size /\ start' <= end'
          BY <3>2, <2>1, <1>1, <1>2, <1>3, <1>4, <1>6
        <4> QED
          BY <4>1, <3>1, <1>1, <1>2, <1>4 DEF data_size
      <3>3. CASE ~(n < right)
        <4>1. n = BufSize - end
          BY <3>3, <1>3, <1>4
        <4>2. end' = size - (BufSize - end)
          BY <3>3, <2>1, <4>1
        <4>3. end' < start'
          BY <4>2, <3>1, <1>1, <1>2, <1>4
        <4> QED
          BY <4>2, <4>3, <3>1, <1>1, <1>2, <1>4 DEF data_size
      <3> QED
        BY <3>1, <3>2, <3>3
    <2>5. ASSUME NEW j \in 0..(BufSize - 1)
          PROVE  buffer'[j] = IF j < size - n THEN d[n + j + 1]
                              ELSE IF j >= end /\ j < end + n THEN d[j - end + 1]
                              ELSE buffer[j]
      <3> DEFINE b == Memcpy(buffer, end, SubSeq(d, 1, n))
      <3>1. b[j] = IF j >= end /\ j < end + n THEN SubSeq(d, 1, n)[j - end + 1] ELSE buffer[j]
        BY <2>2 DEF Memcpy, Index
      <3>2. b[j] = IF j >= end /\ j < end + n THEN d[j - end + 1] ELSE buffer[j]
        <4> HIDE DEF b
        <4>1. ASSUME j >= end, j < end + n PROVE j - end + 1 \in 1..n
          BY <4>1, <1>1, <1>3, <1>4
        <4> QED
          BY <3>1, <2>2, <4>1
      <3> HIDE DEF b
      <3>3. buffer'[j] = IF j >= 0 /\ j < 0 + (size - n) THEN SubSeq(d, n + 1, size)[j - 0 + 1] ELSE b[j]
        BY <2>1, <2>3 DEF Memcpy, Index, b
      <3>4. CASE j < size - n
        <4>1. j + 1 \in 1..(size - n) /\ j - 0 + 1 = j + 1 /\ n + (j + 1) = n + j + 1
          BY <3>4, <1>1, <1>3, <1>4
        <4> QED
          BY <3>3, <3>4, <2>3, <4>1, <1>1, <1>3
      <3>5. CASE ~(j < size - n)
        BY <3>2, <3>3, <3>5, <1>1, <1>3, <1>4
      <3> QED
        BY <3>4, <3>5
    <2>6. ASSUME NEW i \in 1..data_size
          PROVE  Content'[i] = Content[i]
      <3>1. /\ start + i - 1 \in 0..(BufSize - 1)
            /\ start + i - 1 < end
            /\ start + i - 1 >= size - n
            /\ i \in 1..data_size'
        BY <2>4, <1>1, <1>3, <1>4, <1>6
      <3>2. buffer'[start + i - 1] = buffer[start + i - 1]
        BY <2>5, <3>1, <1>1, <1>3, <1>4
      <3> QED
        BY <3>1, <3>2, <1>2, <1>4 DEF Content
    <2>7. ASSUME NEW i \in 1..size
          PROVE  Content'[data_size + i] = d[i]
      <3>1. data_size + i \in 1..data_size' /\ start + (data_size + i) - 1 = end + i - 1
        BY <2>4, <1>1, <1>4
      <3>2. Content'[data_size + i] = IF end + i - 1 < BufSize THEN buffer'[end + i - 1]
                                      ELSE buffer'[end + i - 1 - BufSize]
        <4> DEFINE k == data_size + i
        <4>1. k \in 1..data_size' /\ start' + k - 1 = end + i - 1
          BY <3>1, <1>2
        <4> HIDE DEF k
        <4>2. Content'[k] = IF start' + k - 1 < BufSize THEN buffer'[start' + k - 1]
                            ELSE buffer'[start' + k - 1 - BufSize]
          BY <4>1 DEF Content
        <4>3. Content'[k] = IF end + i - 1 < BufSize THEN buffer'[end + i - 1]
                            ELSE buffer'[end + i - 1 - BufSize]
          BY <4>1, <4>2, <1>1, <1>2, <1>4
        <4> QED
          BY <4>3 DEF k
      <3>3. CASE end + i - 1 < BufSize
        <4>1. end + i - 1 \in 0..(BufSize - 1) /\ i <= n /\ ~(end + i - 1 < size - n)
              /\ (end + i - 1) - end + 1 = i
          BY <3>3, <2>4, <1>1, <1>3, <1>4, <1>6
        <4> QED
          BY <4>1, <3>2, <3>3, <2>5, <1>1, <1>3, <1>4
      <3>4. CASE ~(end + i - 1 < BufSize)
        <4>1. n = right
          BY <3>4, <1>1, <1>3, <1>4
        <4>2. end + i - 1 - BufSize \in 0..(BufSize - 1) /\ end + i - 1 - BufSize < size - n
              /\ n + (end + i - 1 - BufSize) + 1 = i
          BY <4>1, <3>4, <2>4, <1>1, <1>3, <1>4, <1>6
        <4> QED
          BY <4>2, <3>2, <3>4, <2>5, <1>1, <1>3, <1>4
      <3> QED
        BY <3>3, <3>4
    <2> QED
      BY <2>4, <2>6, <2>7
  <1>7. CASE size > 0 /\ end < start
    <2>1. buffer' = Memcpy(buffer, end, SubSeq(d, 1, size)) /\ end' = end + size
      BY <1>1, <1>4, <1>7 DEF copy_from
    <2>2. /\ Len(SubSeq(d, 1, size)) = size
          /\ \A i \in 1..size : SubSeq(d, 1, size)[i] = d[i]
      BY <1>1
    <2>3. /\ data_size = BufSize - (start - end)
          /\ data_size' = data_size + size
      BY <2>1, <1>1, <1>2, <1>4, <1>7 DEF data_size
    <2>4. ASSUME NEW j \in 0..(BufSize - 1)
          PROVE  buffer'[j] = IF j >= end /\ j < end + size THEN d[j - end + 1]
                              ELSE buffer[j]
      <3>1. buffer'[j] = IF j >= end /\ j < end + size THEN SubSeq(d, 1, size)[j - end + 1]
                         ELSE buffer[j]
        BY <2>1, <2>2 DEF Memcpy, Index
      <3> QED
        BY <3>1, <2>2, <1>1, <1>4
    <2>5. ASSUME NEW i \in 1..data_size
          PROVE  Content'[i] = Content[i]
      <3>1. i \in 1..data_size'
        BY <2>3, <1>1, <1>4
      <3>2. CASE start + i - 1 < BufSize
        BY <3>1, <3>2, <2>3, <2>4, <1>1, <1>2, <1>4, <1>7 DEF Content
      <3>3. CASE ~(start + i - 1 < BufSize)
        <4>1. start + i - 1 - BufSize \in 0..(BufSize - 1) /\ start + i - 1 - BufSize < end
          BY <3>3, <2>3, <1>1, <1>4, <1>7
        <4> QED
          BY <3>1, <3>3, <4>1, <2>4, <1>1, <1>2, <1>4 DEF Content
      <3> QED
        BY <3>2, <3>3
    <2>6. ASSUME NEW i \in 1..size
          PROVE  Content'[data_size + i] = d[i]
      <3>1. /\ data_size + i \in 1..data_size'
            /\ ~(start + (data_size + i) - 1 < BufSize)
            /\ start + (data_size + i) - 1 - BufSize = end + i - 1
            /\ end + i - 1 \in 0..(BufSize - 1)
            /\ (end + i - 1) - end + 1 = i
        BY <2>3, <1>1, <1>4, <1>7
      <3>2. Content'[data_size + i] = buffer'[end + i - 1]
        BY <3>1, <1>2 DEF Content
      <3> QED
        BY <3>1, <3>2, <2>4, <1>1, <1>4
    <2> QED
      BY <2>3, <2>5, <2>6
  <1> QED
    BY <1>1, <1>4, <1>5, <1>6, <1>7

(* Every step keeps the type invariant. *)
LEMMA TypeStep == TypeOK /\ [Next]_vars => TypeOK'
  <1> SUFFICES ASSUME TypeOK, [Next]_vars PROVE TypeOK'
    OBVIOUS
  <1>1. ASSUME NEW d \in Blocks(MaxOffer), copy_from(d) PROVE TypeOK'
    BY <1>1, BlockIsSeq, CopyFromType
  <1>2. ASSUME NEW d \in Blocks(MaxOffer), read_all_from(d) PROVE TypeOK'
    BY <1>2, <1>1 DEF read_all_from
  <1>3. data_size \in Nat
    BY Sizes DEF TypeOK
  <1>4. ASSUME NEW n \in 0..data_size, write_all_to(n) PROVE TypeOK'
    <2>1. Consume(n)
      BY <1>4 DEF write_all_to
    <2>2. given' \in Seq(Byte)
      BY <2>1 DEF Consume
    <2>3. data_size' = data_size - n
      BY <2>1, ConsumeEffect
    <2>4. count' \in Nat
      BY <1>3, <1>4, <2>3 DEF write_all_to
    <2> QED
      BY <2>1, <2>2, <2>4, ConsumeEffect DEF TypeOK
  <1>5. ASSUME dump_to PROVE TypeOK'
    <2>1. Consume(data_size) /\ count' \in Nat
      BY <1>3, <1>5 DEF dump_to
    <2>2. given' \in Seq(Byte)
      BY <2>1 DEF Consume
    <2> QED
      BY <1>3, <2>1, <2>2, ConsumeEffect DEF TypeOK
  <1>6. CASE UNCHANGED vars
    BY <1>6 DEF vars, TypeOK, Index
  <1> QED
    BY <1>1, <1>2, <1>4, <1>5, <1>6 DEF Next

(* The start and end pointers of a fast-mode queue never leave the array.  *)
THEOREM TypeCorrect == Spec => []TypeOK
  <1>1. Init => TypeOK
    BY DEF Init, TypeOK, Index
  <1> QED
    BY <1>1, TypeStep, PTL DEF Spec

(* Two sequences with the same elements are equal. *)
LEMMA SeqExtensional ==
    ASSUME NEW s \in Seq(Byte), NEW t \in Seq(Byte), Len(s) = Len(t),
           \A i \in 1..Len(s) : s[i] = t[i]
    PROVE  s = t
  OBVIOUS

(* A copy_from step is a Put step of the abstract queue. *)
LEMMA CopyFromPuts ==
    ASSUME TypeOK, NEW d \in Seq(Byte), copy_from(d)
    PROVE  Queue!Put(d)
  <1> DEFINE size == MinOf(Len(d), remaining_space)
  <1>1. /\ data_size \in 0..(BufSize - 1)
        /\ remaining_space = BufSize - 1 - data_size
        /\ size \in 0..Len(d)
    BY Sizes DEF TypeOK, remaining_space, MinOf
  <1>2. Content \in Seq(Byte) /\ Len(Content) = data_size
    BY ContentIsSeq
  <1>3. Content' \in Seq(Byte) /\ Len(Content') = data_size'
    <2>1. TypeOK'
      BY CopyFromType
    <2>2. /\ start' \in 0..(BufSize - 1) /\ end' \in 0..(BufSize - 1)
          /\ buffer' \in [0..(BufSize - 1) -> Byte]
      BY <2>1 DEF TypeOK, Index
    <2>3. data_size' \in 0..(BufSize - 1)
      BY <2>2 DEF data_size
    <2>4. ASSUME NEW i \in 1..data_size'
          PROVE  (IF start' + i - 1 < BufSize THEN buffer'[start' + i - 1]
                  ELSE buffer'[start' + i - 1 - BufSize]) \in Byte
      BY <2>2, <2>3, <2>4
    <2> QED
      BY <2>3, <2>4 DEF Content
  <1>4. /\ data_size' = data_size + size
        /\ \A i \in 1..data_size : Content'[i] = Content[i]
        /\ \A i \in 1..size : Content'[data_size + i] = d[i]
    BY CopyFromEffect
  <1>5. size = IF Len(d) <= (BufSize - 1) - Len(Content) THEN Len(d)
               ELSE (BufSize - 1) - Len(Content)
    BY <1>1, <1>2 DEF MinOf
  <1>6. given' = d /\ count' = size /\ taken' = <<>>
    BY DEF copy_from
  <1> HIDE DEF size
  <1>7. /\ SubSeq(d, 1, size) \in Seq(Byte) /\ Len(SubSeq(d, 1, size)) = size
        /\ \A i \in 1..size : SubSeq(d, 1, size)[i] = d[i]
    BY <1>1, SubSeqElements
  <1>8. Content' = Content \o SubSeq(d, 1, size)
    <2> DEFINE u == SubSeq(d, 1, size)
               t == Content \o u
    <2>0. u \in Seq(Byte) /\ Len(u) = size
      BY <1>7
    <2> HIDE DEF u
    <2>1. /\ t \in Seq(Byte) /\ Len(t) = data_size + size
          /\ \A i \in 1..data_size : t[i] = Content[i]
          /\ \A i \in 1..size : t[data_size + i] = u[i]
      BY <1>2, <2>0, ConcatElements
    <2> HIDE DEF t
    <2>2. ASSUME NEW i \in 1..(data_size + size) PROVE Content'[i] = t[i]
      <3>1. CASE i <= data_size
        BY <3>1, <2>1, <1>4, <1>1
      <3>2. CASE i > data_size
        <4>1. i - data_size \in 1..size /\ data_size + (i - data_size) = i
          BY <3>2, <1>1
        <4> QED
          BY <4>1, <2>1, <1>4, <1>7 DEF u
      <3> QED
        BY <3>1, <3>2, <1>1
    <2>3. Content' = t
      BY <2>1, <2>2, <1>3, <1>4, SeqExtensional
    <2> QED
      BY <2>3 DEF t, u
  <1> QED
    BY <1>5, <1>6, <1>8 DEF Queue!Put

(* Consuming n bytes is a Take step of the abstract queue. *)
LEMMA ConsumeTakes ==
    ASSUME TypeOK, NEW n \in 0..data_size, Consume(n), count' = n
    PROVE  Queue!Take(n) /\ n \in 0..Len(Content)
  <1>1. data_size \in 0..(BufSize - 1) /\ n \in Nat
    BY Sizes DEF TypeOK
  <1>2. Content \in Seq(Byte) /\ Len(Content) = data_size
    BY ContentIsSeq
  <1>3. /\ taken' = [i \in 1..n |-> Content[i]]
        /\ Content' = [i \in 1..(data_size - n) |-> Content[i + n]]
    BY ConsumeEffect
  <1>4. taken' = SubSeq(Content, 1, n)
    BY <1>1, <1>2, <1>3
  <1>5. Content' = SubSeq(Content, n + 1, Len(Content))
    <2> DEFINE s == SubSeq(Content, n + 1, Len(Content))
    <2>1. /\ s \in Seq(Byte) /\ Len(s) = data_size - n
          /\ \A i \in 1..(data_size - n) : s[i] = Content[n + 1 + i - 1]
      BY <1>1, <1>2, SubSeqElements
    <2> HIDE DEF s
    <2>2. \A i \in 1..(data_size - n) : s[i] = Content[i + n]
      <3> TAKE i \in 1..(data_size - n)
      <3>1. n + 1 + i - 1 = i + n
        BY <1>1
      <3> QED
        BY <2>1, <3>1
    <2>3. s = [i \in 1..(data_size - n) |-> Content[i + n]]
      BY <2>1, <2>2, <1>1
    <2> QED
      BY <2>3, <1>3 DEF s
  <1>6. given' = <<>>
    BY DEF Consume
  <1> QED
    BY <1>2, <1>4, <1>5, <1>6 DEF Queue!Take

(* The circular buffer implements the bounded FIFO queue: for every buffer *)
(* size, no call of copy_from, read_all_from, write_all_to or dump_to      *)
(* loses, duplicates or reorders a byte, and a block is cut only where the *)
(* capacity of SOCK_IO_BUF_SIZE - 1 bytes is reached.                      *)
THEOREM Refinement == Spec => ImplementsByteQueue
  <1>1. Init => Queue!Init
    <2> SUFFICES ASSUME Init PROVE Content = <<>> /\ given = <<>> /\ count = 0 /\ taken = <<>>
      BY DEF Queue!Init
    <2>1. data_size = 0 /\ given = <<>> /\ count = 0 /\ taken = <<>>
      BY DEF Init, data_size
    <2>2. TypeOK
      BY DEF Init, TypeOK, Index
    <2>3. Content \in Seq(Byte) /\ Len(Content) = 0
      BY <2>1, <2>2, ContentIsSeq
    <2> QED
      BY <2>1, <2>3
  <1>2. TypeOK /\ [Next]_vars => [Queue!Next]_(Queue!vars)
    <2> SUFFICES ASSUME TypeOK, [Next]_vars PROVE [Queue!Next]_(Queue!vars)
      OBVIOUS
    <2>1. Len(Content) = data_size /\ data_size \in Nat
      BY ContentIsSeq, Sizes DEF TypeOK
    <2>2. ASSUME NEW d \in Blocks(MaxOffer), copy_from(d) PROVE Queue!Next
      BY <2>2, BlockIsSeq, CopyFromPuts DEF Queue!Next, Queue!Blocks, Blocks
    <2>3. ASSUME NEW d \in Blocks(MaxOffer), read_all_from(d) PROVE Queue!Next
      BY <2>2, <2>3 DEF read_all_from
    <2>4. ASSUME NEW n \in 0..data_size, write_all_to(n) PROVE Queue!Next
      <3>1. Consume(n) /\ count' = data_size - data_size'
        BY <2>4 DEF write_all_to
      <3>2. count' = n
        BY <3>1, <2>1, ConsumeEffect
      <3> QED
        BY <3>1, <3>2, <2>1, ConsumeTakes DEF Queue!Next
    <2>5. ASSUME dump_to PROVE Queue!Next
      BY <2>5, <2>1, ConsumeTakes DEF Queue!Next, dump_to
    <2>6. CASE UNCHANGED vars
      BY <2>6 DEF vars, Queue!vars, Content, data_size
    <2> QED
      BY <2>2, <2>3, <2>4, <2>5, <2>6 DEF Next
  <1> QED
    BY <1>1, <1>2, TypeCorrect, PTL DEF Spec, ImplementsByteQueue, Queue!Spec
=============================================================================
