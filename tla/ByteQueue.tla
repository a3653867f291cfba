----------------------------- MODULE ByteQueue -----------------------------
(***************************************************************************)
(* What the fast-mode queues promise: a bounded first-in first-out queue   *)
(* of bytes.  Callers may offer a block of any length; the queue keeps the *)
(* longest prefix that fits and says how long it is.  Takers receive the   *)
(* oldest bytes, as many as the sink accepts.  Circularbuf is shown to     *)
(* implement this specification.                                           *)
(***************************************************************************)
EXTENDS Integers, Sequences

CONSTANTS
    Byte,       \* the values a queue holds
    Capacity,   \* the most bytes a queue holds
    MaxOffer    \* bound: the longest block offered in one call

VARIABLES
    q,          \* the queued bytes, oldest first
    given,      \* the block the last call offered
    count,      \* what the last call returned: bytes kept, or bytes handed out
    taken       \* the bytes the last call handed to its sink

vars == <<q, given, count, taken>>

(* Every block of at most k bytes. *)
Blocks(k) == UNION {[1..n -> Byte] : n \in 0..k}

Init == q = <<>> /\ given = <<>> /\ count = 0 /\ taken = <<>>

(* Keep as much of the block d as fits. *)
Put(d) ==
    LET n == IF Len(d) <= Capacity - Len(q) THEN Len(d) ELSE Capacity - Len(q)
    IN  /\ q' = q \o SubSeq(d, 1, n)
        /\ given' = d
        /\ count' = n
        /\ taken' = <<>>

(* Hand the n oldest bytes to a sink. *)
Take(n) ==
    /\ q' = SubSeq(q, n + 1, Len(q))
    /\ given' = <<>>
    /\ count' = n
    /\ taken' = SubSeq(q, 1, n)

Next ==
    \/ \E d \in Blocks(MaxOffer) : Put(d)
    \/ \E n \in 0..Len(q) : Take(n)

Spec == Init /\ [][Next]_vars
=============================================================================
