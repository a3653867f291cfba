-------------------------------- MODULE Tape --------------------------------
(***************************************************************************)
(* What the users of a buffer with a cursor rely on: stores append, fetch  *)
(* returns what follows the cursor, some of it at a time, and nothing only *)
(* when the cursor has reached the end.  copy_data depends on this when it *)
(* fetches until 0.  Hybridbuf is shown to implement this specification.   *)
(***************************************************************************)
EXTENDS Integers, Sequences

CONSTANTS
    Byte,       \* the values stored
    MaxData,    \* bound: the most bytes stored
    MaxFetch    \* bound: the most bytes asked for in one fetch

VARIABLES
    content,    \* what has been stored since the last Clear
    cursor,     \* how much of it precedes the cursor
    given,      \* the block the last step stored
    result      \* what the last fetch returned

vars == <<content, cursor, given, result>>

Blocks(k) == UNION {[1..n -> Byte] : n \in 0..k}

Init == content = <<>> /\ cursor = 0 /\ given = <<>> /\ result = <<>>

(* Append a block, which the cursor passes too. *)
Extend(d) ==
    /\ cursor = Len(content)
    /\ content' = content \o d
    /\ cursor' = cursor + Len(d)
    /\ given' = d /\ result' = <<>>

(* Return between 1 and max of the bytes that follow the cursor, if any. *)
Fetch(max) ==
    \E n \in 0..max :
        /\ cursor + n <= Len(content)
        /\ n = 0 => cursor = Len(content)
        /\ result' = SubSeq(content, cursor + 1, cursor + n)
        /\ cursor' = cursor + n
        /\ given' = <<>> /\ UNCHANGED content

(* Move the cursor back over bytes already fetched. *)
Back(n) ==
    /\ n <= cursor
    /\ cursor' = cursor - n
    /\ given' = <<>> /\ result' = <<>> /\ UNCHANGED content

Clear == content' = <<>> /\ cursor' = 0 /\ given' = <<>> /\ result' = <<>>

Next ==
    \/ \E d \in Blocks(MaxData) : Extend(d)
    \/ \E max \in 1..MaxFetch : Fetch(max)
    \/ \E n \in 1..cursor : Back(n)
    \/ Clear

Spec == Init /\ [][Next]_vars
=============================================================================
