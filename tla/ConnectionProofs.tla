-------------------------- MODULE ConnectionProofs --------------------------
(***************************************************************************)
(* Proofs about Connection, for every buffer size, request length and      *)
(* bound on the peers.                                                     *)
(*                                                                         *)
(*   Control                 Inv: types, wiring, watching, flow control,   *)
(*                           the paused client; action by action           *)
(*   The response, kept      DataInv: nothing that was read from the       *)
(*                           server is lost but in the recorded gaps,      *)
(*                           stored data have a write event, the 503 page  *)
(*                           comes last; by the kind of step (DataStep)    *)
(*   The response, in order  OrderInv, by the kind of step (StreamStep)    *)
(*   The request             ReqInv: a server receives exactly the         *)
(*                           client's stream in fast mode and exactly one  *)
(*                           request in slow mode; action by action        *)
(***************************************************************************)
EXTENDS Connection, TLAPS

USE NullAssumption
USE SizeAssumption

-----------------------------------------------------------------------------
(* Sequences and files. *)

LEMMA FirstType ==
    ASSUME NEW s \in Seq(Int), NEW n \in 0..Len(s)
    PROVE  First(s, n) \in Seq(Int) /\ Len(First(s, n)) = n
  BY DEF First

LEMMA RestType ==
    ASSUME NEW s \in Seq(Int), NEW n \in 0..Len(s)
    PROVE  Rest(s, n) \in Seq(Int) /\ Len(Rest(s, n)) = Len(s) - n
  BY DEF Rest

LEMMA ReadAllType ==
    ASSUME NEW s \in Seq(Int), NEW max \in Nat
    PROVE  ReadAll(s, max) \in Seq(Int) /\ Len(ReadAll(s, max)) \in 0..Len(s)
  <1>1. MinOf(Len(s), max) \in 0..Len(s)
    BY DEF MinOf
  <1> QED
    BY <1>1, FirstType DEF ReadAll

LEMMA RangeType ==
    ASSUME NEW s \in Seq(Int)
    PROVE  Range(s) \in SUBSET Int
  BY DEF Range

LEMMA NotNull ==
    ASSUME NEW s \in Seq(Int)
    PROVE  s # NULL
  OBVIOUS

LEMMA FileOf ==
    ASSUME NEW d \in Seq(Int), NEW n \in 0..Len(d)
    PROVE  [data |-> d, pos |-> n] \in Files
  BY DEF Files

LEMMA EmptyFileType == EmptyFile \in Files
  BY DEF Files, EmptyFile

LEMMA StoreType ==
    ASSUME NEW f \in Files, NEW d \in Seq(Int)
    PROVE  Store(f, d) \in Files
  <1> DEFINE a == SubSeq(f.data, 1, f.pos)
             b == SubSeq(f.data, f.pos + Len(d) + 1, Len(f.data))
  <1>1. f.data \in Seq(Int) /\ f.pos \in 0..Len(f.data)
    BY DEF Files
  <1>2. a \in Seq(Int) /\ Len(a) = f.pos
    BY <1>1
  <1>3. b \in Seq(Int)
    BY <1>1
  <1> HIDE DEF a, b
  <1>4. a \o d \o b \in Seq(Int) /\ Len(a \o d \o b) >= f.pos + Len(d)
    BY <1>1, <1>2, <1>3
  <1>5. f.pos + Len(d) \in 0..Len(a \o d \o b)
    BY <1>1, <1>4
  <1>6. [data |-> a \o d \o b, pos |-> f.pos + Len(d)] \in Files
    BY <1>4, <1>5, FileOf
  <1> QED
    BY <1>6 DEF Store, a, b

LEMMA StoreLastType ==
    ASSUME NEW f \in Files, NEW d \in Seq(Int)
    PROVE  StoreLast(f, d) \in Files /\ (d # <<>> => StoreLast(f, d).data # <<>>)
  <1>1. f.data \in Seq(Int) /\ f.pos \in 0..Len(f.data)
    BY DEF Files
  <1>2. f.data \o d \in Seq(Int) /\ Len(f.data \o d) = Len(f.data) + Len(d)
    BY <1>1
  <1>3. StoreLast(f, d) \in Files
    <2>1. f.pos \in 0..Len(f.data \o d)
      BY <1>1, <1>2
    <2>2. [data |-> f.data \o d, pos |-> f.pos] \in Files
      BY <1>2, <2>1, FileOf
    <2> QED
      BY <2>2 DEF StoreLast
  <1>4. d # <<>> => f.data \o d # <<>>
    BY <1>1, <1>2
  <1> QED
    BY <1>3, <1>4 DEF StoreLast

LEMMA RewindType ==
    ASSUME NEW f \in Files
    PROVE  Rewind(f) \in Files
  BY DEF Files, Rewind

LEMMA SubSeqType ==
    ASSUME NEW s \in Seq(Int), NEW a \in 0..Len(s), NEW b \in a..Len(s)
    PROVE  SubSeq(s, a + 1, b) \in Seq(Int) /\ Len(SubSeq(s, a + 1, b)) = b - a
  OBVIOUS

LEMMA FetchedType ==
    ASSUME NEW f \in Files, NEW max \in Nat
    PROVE  /\ Fetched(f, max) \in Seq(Int)
           /\ Len(Fetched(f, max)) \in 0..(Len(f.data) - f.pos)
  <1> DEFINE last == IF f.pos + max < Len(f.data) THEN f.pos + max ELSE Len(f.data)
  <1>1. f.data \in Seq(Int) /\ f.pos \in 0..Len(f.data)
    BY DEF Files
  <1>2. last \in f.pos..Len(f.data)
    BY <1>1
  <1> HIDE DEF last
  <1>3. Fetched(f, max) = SubSeq(f.data, f.pos + 1, last)
    BY DEF Fetched, last
  <1>4. Fetched(f, max) \in Seq(Int) /\ Len(Fetched(f, max)) = last - f.pos
    BY <1>1, <1>2, <1>3, SubSeqType
  <1>5. last - f.pos \in 0..(Len(f.data) - f.pos)
    BY <1>1, <1>2
  <1> QED
    BY <1>4, <1>5

LEMMA AdvanceType ==
    ASSUME NEW f \in Files, NEW c \in Nat, NEW n \in 0..(Len(f.data) - f.pos)
    PROVE  Advance(f, c, n) \in Files
  <1>1. f.data \in Seq(Int) /\ f.pos \in 0..Len(f.data)
    BY DEF Files
  <1>2. (f.pos + c) - (c - n) = f.pos + n /\ f.pos + n \in 0..Len(f.data)
    BY <1>1
  <1> QED
    BY <1>1, <1>2, FileOf DEF Advance
-----------------------------------------------------------------------------
(* The parts that several actions share. *)

LEMMA ModType ==
    ASSUME NEW n \in Nat
    PROVE  n % MsgLen \in 0..(MsgLen - 1)
  OBVIOUS

LEMMA StartOfMsg == 0 \in 0..(MsgLen - 1)
  OBVIOUS

LEMMA ModBound ==
    ASSUME NEW n \in Nat, n >= MsgLen
    PROVE  n % MsgLen <= n - MsgLen
  <1> DEFINE q == n \div MsgLen
             r == n % MsgLen
  <1>1. n = MsgLen * q + r
    OBVIOUS
  <1>2. q \in Int /\ r \in 0..(MsgLen - 1)
    OBVIOUS
  <1> HIDE DEF q, r
  <1>3. q >= 1
    BY <1>1, <1>2
  <1>4. MsgLen * q >= MsgLen
    BY <1>2, <1>3
  <1> QED
    BY <1>1, <1>2, <1>4 DEF r

LEMMA EofOrOpen ==
    ASSUME NEW s, NEW fin \in {"open", "fin", "rst"}, NEW max
    PROVE  FinAfter(s, fin, max) \in {"open", "fin", "rst"}
  BY DEF FinAfter

LEMMA ClientReadType ==
    ASSUME ClientType, NEW max \in Nat, c_read_all(max)
    PROVE  ClientType'
  BY ReadAllType, RestType, EofOrOpen DEF ClientType, c_read_all

LEMMA ServerReadType ==
    ASSUME ServerType, NEW max \in Nat, s_read_all(max)
    PROVE  ServerType'
  BY ReadAllType, RestType, EofOrOpen DEF ServerType, s_read_all

LEMMA QueueIsSeq ==
    ASSUME NEW s \in Queues, s # NULL
    PROVE  s \in Seq(Int) /\ Len(s) \in 0..(BufSize - 1) /\ remaining_space(s) \in Nat
  BY DEF Queues, remaining_space

(* A queue filled up to its capacity and written from is a queue. *)
LEMMA QueueRest ==
    ASSUME NEW s \in Queues, s # NULL, NEW sock \in Seq(Int),
           NEW w \in 0..Len(s \o ReadAll(sock, remaining_space(s)))
    PROVE  /\ s \o ReadAll(sock, remaining_space(s)) \in Seq(Int)
           /\ Rest(s \o ReadAll(sock, remaining_space(s)), w) \in Queues
           /\ Rest(s \o ReadAll(sock, remaining_space(s)), w) # NULL
           /\ First(s \o ReadAll(sock, remaining_space(s)), w) \in Seq(Int)
  <1> DEFINE max == remaining_space(s)
             d == ReadAll(sock, max)
             t == s \o d
  <1>1. s \in Seq(Int) /\ Len(s) \in 0..(BufSize - 1) /\ max \in Nat
    BY QueueIsSeq
  <1>2. MinOf(Len(sock), max) \in 0..Len(sock) /\ MinOf(Len(sock), max) <= max
    BY <1>1 DEF MinOf
  <1>3. d \in Seq(Int) /\ Len(d) <= max
    BY <1>2, FirstType DEF ReadAll
  <1>4. t \in Seq(Int) /\ Len(t) = Len(s) + Len(d)
    BY <1>1, <1>3
  <1>5. Len(t) <= BufSize - 1
    BY <1>1, <1>3, <1>4 DEF remaining_space
  <1>0. w \in 0..Len(t)
    OBVIOUS
  <1> HIDE DEF t
  <1>6. /\ Rest(t, w) \in Seq(Int) /\ Len(Rest(t, w)) <= BufSize - 1
        /\ First(t, w) \in Seq(Int)
    <2>1. Rest(t, w) \in Seq(Int) /\ Len(Rest(t, w)) = Len(t) - w
      BY <1>4, <1>0, RestType
    <2> QED
      BY <2>1, <1>4, <1>5, <1>0, FirstType
  <1>7. Rest(t, w) # NULL
    BY <1>6, NotNull
  <1> QED
    BY <1>4, <1>6, <1>7 DEF Queues, t

LEMMA QueueShrinks ==
    ASSUME NEW s \in Queues, s # NULL, NEW w \in 0..Len(s)
    PROVE  /\ Rest(s, w) \in Queues /\ Rest(s, w) # NULL
           /\ First(s, w) \in Seq(Int)
           /\ w < Len(s) => Rest(s, w) # <<>>
  <1>1. s \in Seq(Int) /\ Len(s) \in 0..(BufSize - 1)
    BY QueueIsSeq
  <1>2. Rest(s, w) \in Seq(Int) /\ Len(Rest(s, w)) = Len(s) - w
    BY <1>1, RestType
  <1>3. Rest(s, w) # NULL /\ First(s, w) \in Seq(Int)
    BY <1>1, <1>2, NotNull, FirstType
  <1>4. w < Len(s) => Rest(s, w) # <<>>
    BY <1>1, <1>2
  <1> QED
    BY <1>1, <1>2, <1>3, <1>4 DEF Queues

LEMMA EmptyQueue == <<>> \in Queues /\ <<>> # NULL /\ NULL \in Queues
  <1>1. <<>> \in Seq(Int) /\ Len(<<>>) = 0
    OBVIOUS
  <1>2. <<>> # NULL
    BY <1>1, NotNull
  <1> QED
    BY <1>1, <1>2 DEF Queues

(* Deleting the connection. *)
LEMMA DeleteKeeps ==
    ASSUME TypeOK, delete_conn, GhostType'
    PROVE  TypeOK' /\ Wiring'
  <1>1. ControlType' /\ ~(status' = "open")
    <2>1. ppos' \in 0..(MsgLen - 1)
      BY StartOfMsg DEF delete_conn
    <2>2. server' \in BOOLEAN /\ pending' \in SUBSET Events
      BY DEF delete_conn
    <2> QED
      BY <2>1, <2>2 DEF TypeOK, ControlType, delete_conn
  <1>2. QueueType'
    BY EmptyQueue DEF delete_conn, QueueType
  <1>3. FileType'
    BY EmptyFileType DEF delete_conn, FileType
  <1>4. ClientType' /\ ServerType'
    BY DEF TypeOK, ClientType, ServerType, delete_conn
  <1> QED
    BY <1>1, <1>2, <1>3, <1>4 DEF TypeOK, Wiring, Wired, Watched, Backpressure,
       ServerOnlyWhenClientPaused
-----------------------------------------------------------------------------
(* Fast mode. *)

LEMMA UnreachableKeeps ==
    ASSUME TypeOK, Wiring, Client_on_readable_unreachable
    PROVE  TypeOK' /\ Wiring'
  <1>1. delete_conn
    BY DEF Client_on_readable_unreachable
  <1>2. c_out' \in Seq(Int)
    BY DEF Client_on_readable_unreachable, TypeOK, GhostType, Page503, reply_with_503_unavailable
  <1>3. GhostType'
    BY <1>2 DEF Client_on_readable_unreachable, TypeOK, GhostType
  <1> QED
    BY <1>1, <1>3, DeleteKeeps

LEMMA HistoryType ==
    ASSUME NEW pos \in 0..(MsgLen - 1), NEW h \in Seq(Int), NEW d \in Seq(Int)
    PROVE  keep_track_request_history(pos, h, d) \in Seq(Int)
  <1>1. CASE CompletesMsg(pos, d)
    <2>1. (pos + Len(d)) % MsgLen <= pos + Len(d) - MsgLen
      BY <1>1, ModBound DEF CompletesMsg
    <2>2. (pos + Len(d)) % MsgLen \in Nat
      BY ModType
    <2>3. LastEnd(pos, d) \in 0..Len(d)
      BY <2>1, <2>2 DEF LastEnd
    <2> QED
      BY <1>1, <2>3, RestType DEF keep_track_request_history
  <1>2. CASE ~CompletesMsg(pos, d)
    BY <1>2 DEF keep_track_request_history
  <1> QED
    BY <1>1, <1>2

(* free_server and reply_only, from a fast connection: only the write      *)
(* event and a non-empty queue remain.                                     *)
LEMMA ReplyOnlyFast ==
    ASSUME TypeOK, Wiring, status = "open", mode = "fast",
           free_server, reply_only, UNCHANGED <<status, mode, history, files>>,
           c_queue' \in Queues, c_queue' # NULL, c_queue' # <<>>,
           ClientType', GhostType'
    PROVE  TypeOK' /\ Wiring'
  <1>1. history \in Seq(Int) /\ history # NULL
    BY DEF TypeOK, QueueType, Wiring, Wired, WiredFast
  <1>2. ControlType'
    <2>1. ppos' \in 0..(MsgLen - 1)
      BY StartOfMsg DEF reply_only
    <2>2. server' \in BOOLEAN /\ pending' \in SUBSET Events
      BY DEF free_server, reply_only, Events
    <2> QED
      BY <2>1, <2>2 DEF TypeOK, ControlType, reply_only
  <1>3. QueueType'
    BY <1>1, EmptyQueue DEF QueueType, free_server
  <1>4. FileType' /\ ServerType'
    BY DEF TypeOK, FileType, ServerType, free_server, files
  <1>5. Wiring'
    BY <1>1 DEF Wiring, Wired, WiredFast, Watched, Backpressure,
       ServerOnlyWhenClientPaused, free_server, reply_only
  <1> QED
    BY <1>2, <1>3, <1>4, <1>5 DEF TypeOK

(* fast_forward(client, server) on a connection whose client is being read. *)
LEMMA FastForwardKeeps ==
    ASSUME TypeOK, Wiring, status = "open", mode = "fast",
           NEW pos \in 0..(MsgLen - 1), NEW cq \in Queues, NEW sq \in Queues,
           cq # NULL, sq # NULL,
           NEW evts \in SUBSET Events, "c_read" \in evts, "s_write" \notin evts,
           "s_read" \in evts <=> "c_write" \notin evts,
           fast_forward_client(pos, cq, sq, evts)
    PROVE  TypeOK' /\ Wiring'
  <1> DEFINE max == remaining_space(sq)
             d == ReadAll(c_sock, max)
             out == sq \o d
  <1>1. max \in Nat /\ c_sock \in Seq(Int) /\ d \in Seq(Int)
    BY QueueIsSeq, ReadAllType DEF TypeOK, ClientType
  <1>2. history \in Seq(Int) /\ history # NULL
    BY DEF TypeOK, QueueType, Wiring, Wired, WiredFast
  <1>3. CASE ~ParsesAsRequest(pos, d) /\ cq # <<>>
    <2>1. /\ free_server /\ reply_only /\ c_read_all(max) /\ c_queue' = cq
          /\ UNCHANGED <<status, mode, history, files, ghosts>>
      BY <1>3 DEF fast_forward_client
    <2>2. GhostType'
      BY <2>1 DEF TypeOK, GhostType, ghosts
    <2>3. ClientType'
      BY <2>1, <1>1, ClientReadType DEF TypeOK
    <2> QED
      BY <2>1, <2>2, <2>3, <1>3, ReplyOnlyFast
  <1>4. CASE ~ParsesAsRequest(pos, d) /\ cq = <<>>
    <2>1. delete_conn /\ GhostType'
      BY <1>4 DEF fast_forward_client, TypeOK, GhostType, ghosts
    <2> QED
      BY <2>1, DeleteKeeps
  <1>5. CASE ParsesAsRequest(pos, d)
    <2>1. PICK w \in 0..Len(out) :
            /\ sent' = sent \o First(out, w)
            /\ UNCHANGED <<c_out, got, mishaps>>
            /\ IF HasEof(c_sock, c_fin, max)
               THEN delete_conn
               ELSE /\ parser' = "request" /\ server' = TRUE
                    /\ ppos' = (pos + Len(d)) % MsgLen
                    /\ c_queue' = cq /\ s_queue' = Rest(out, w)
                    /\ history' = keep_track_request_history(pos, history, d)
                    /\ pending' = IF w = 0 THEN (evts \ {"c_read"}) \union {"s_write"}
                                  ELSE evts
                    /\ c_read_all(max)
                    /\ UNCHANGED <<status, mode, files, s_env>>
      BY <1>5 DEF fast_forward_client
    <2>2. Rest(out, w) \in Queues /\ Rest(out, w) # NULL /\ First(out, w) \in Seq(Int)
      BY <1>1, QueueRest
    <2>3. GhostType'
      <3>1. sent' \in Seq(Int)
        BY <2>1, <2>2 DEF TypeOK, GhostType
      <3> QED
        BY <2>1, <3>1 DEF TypeOK, GhostType
    <2>4. CASE HasEof(c_sock, c_fin, max)
      BY <2>1, <2>3, <2>4, DeleteKeeps
    <2>5. CASE ~HasEof(c_sock, c_fin, max)
      <3> HIDE DEF d, max, out
      <3>1. ppos' \in 0..(MsgLen - 1)
        <4>1. pos + Len(d) \in Nat
          BY <1>1
        <4> QED
          BY <2>1, <2>5, <4>1, ModType
      <3>2. ControlType'
        BY <2>1, <2>5, <3>1 DEF TypeOK, ControlType, Events
      <3>3. history' \in Seq(Int) /\ history' # NULL
        BY <2>1, <2>5, <1>1, <1>2, HistoryType, NotNull
      <3>4. QueueType'
        BY <2>1, <2>2, <2>5, <3>3 DEF QueueType
      <3>5. FileType' /\ ServerType'
        BY <2>1, <2>5 DEF TypeOK, FileType, ServerType, files, s_env
      <3>6. ClientType'
        BY <2>1, <2>5, <1>1, ClientReadType DEF TypeOK
      <3>7. Wiring'
        <4>1. /\ status' = "open" /\ mode' = "fast" /\ parser' = "request" /\ server' = TRUE
              /\ c_queue' # NULL /\ s_queue' # NULL
              /\ pending' \in {(evts \ {"c_read"}) \union {"s_write"}, evts}
          BY <2>1, <2>2, <2>5
        <4> QED
          BY <4>1, <3>3 DEF Wiring, Wired, WiredFast, Watched, Backpressure,
             ServerOnlyWhenClientPaused
      <3> QED
        BY <2>3, <3>2, <3>4, <3>5, <3>6, <3>7 DEF TypeOK
    <2> QED
      BY <2>4, <2>5
  <1> QED
    BY <1>3, <1>4, <1>5

LEMMA ClientReadableFastKeeps ==
    ASSUME TypeOK, Wiring, Client_on_readable_fast
    PROVE  TypeOK' /\ Wiring'
  <1>1. status = "open" /\ mode = "fast" /\ "c_read" \in pending /\ WiredFast
    BY DEF Client_on_readable_fast, Handles, Wiring, Wired
  <1>2. CASE parser = "none"
    <2>1. pending = {"c_read"}
      BY <1>1, <1>2 DEF WiredFast
    <2>2. fast_forward_client(0, <<>>, <<>>, pending \union {"s_read"})
      BY <1>2 DEF Client_on_readable_fast
    <2>3. 0 \in 0..(MsgLen - 1) /\ pending \union {"s_read"} \in SUBSET Events
      BY <2>1 DEF Events
    <2> QED
      BY <1>1, <2>1, <2>2, <2>3, EmptyQueue, FastForwardKeeps
  <1>3. CASE parser # "none"
    <2>1. /\ c_queue # NULL /\ s_queue # NULL
          /\ "s_write" \notin pending /\ ("s_read" \in pending <=> "c_write" \notin pending)
      BY <1>1, <1>3 DEF WiredFast, Wiring, Backpressure
    <2>2. fast_forward_client(ppos, c_queue, s_queue, pending)
      BY <1>3 DEF Client_on_readable_fast
    <2>3. ppos \in 0..(MsgLen - 1) /\ c_queue \in Queues /\ s_queue \in Queues
          /\ pending \in SUBSET Events
      BY DEF TypeOK, ControlType, QueueType
    <2> QED
      BY <1>1, <2>1, <2>2, <2>3, FastForwardKeeps
  <1> QED
    BY <1>2, <1>3

LEMMA ServerReadableFastKeeps ==
    ASSUME TypeOK, Wiring, Server_on_readable_fast
    PROVE  TypeOK' /\ Wiring'
  <1> DEFINE max == remaining_space(c_queue)
             d == ReadAll(s_sock, max)
             out == c_queue \o d
  <1>1. /\ status = "open" /\ mode = "fast" /\ "s_read" \in pending
        /\ server /\ c_queue # NULL /\ s_queue # NULL /\ history # NULL
        /\ parser = "request"
    BY DEF Server_on_readable_fast, Handles, Wiring, Wired, WiredFast
  <1>2. /\ c_queue \in Queues /\ s_queue \in Queues /\ max \in Nat
        /\ s_sock \in Seq(Int) /\ d \in Seq(Int)
    BY <1>1, QueueIsSeq, ReadAllType DEF TypeOK, QueueType, ServerType
  <1>3. PICK w \in 0..Len(out) :
          /\ c_out' = c_out \o First(out, w)
          /\ got' = got \union Range(d)
          /\ UNCHANGED <<sent, mishaps>>
          /\ \/ /\ HasEof(s_sock, s_fin, max) /\ w < Len(out)
                /\ free_server /\ reply_only
                /\ c_queue' = Rest(out, w)
                /\ UNCHANGED <<status, mode, history, files, c_env>>
             \/ HasEof(s_sock, s_fin, max) /\ w = Len(out) /\ delete_conn
             \/ /\ ~HasEof(s_sock, s_fin, max)
                /\ s_read_all(max)
                /\ c_queue' = Rest(out, w)
                /\ pending' = IF w = 0 THEN (pending \ {"s_read"}) \union {"c_write"}
                              ELSE pending
                /\ UNCHANGED <<status, mode, parser, ppos, server, s_queue, history,
                               files, c_env>>
    BY DEF Server_on_readable_fast
  <1>4. /\ out \in Seq(Int) /\ Rest(out, w) \in Queues /\ Rest(out, w) # NULL
        /\ First(out, w) \in Seq(Int)
    BY <1>1, <1>2, QueueRest
  <1>5. w < Len(out) => Rest(out, w) # <<>>
    <2> HIDE DEF out
    <2>1. Len(Rest(out, w)) = Len(out) - w
      BY <1>4, RestType
    <2>2. w < Len(out) => Len(Rest(out, w)) # 0
      BY <2>1, <1>4
    <2> QED
      BY <2>2, <1>4
  <1>6. Range(d) \in SUBSET Int
    BY <1>2, RangeType
  <1> HIDE DEF out, d, max
  <1>7. GhostType'
    <2>1. c_out' \in Seq(Int)
      BY <1>3, <1>4 DEF TypeOK, GhostType
    <2> QED
      BY <2>1, <1>3, <1>6 DEF TypeOK, GhostType
  <1>8. CASE /\ w < Len(out) /\ free_server /\ reply_only /\ c_queue' = Rest(out, w)
             /\ UNCHANGED <<status, mode, history, files, c_env>>
    <2>1. ClientType'
      BY <1>8 DEF TypeOK, ClientType, c_env
    <2> QED
      BY <2>1, <1>1, <1>4, <1>5, <1>7, <1>8, ReplyOnlyFast
  <1>9. CASE delete_conn
    BY <1>7, <1>9, DeleteKeeps
  <1>10. CASE /\ s_read_all(max) /\ c_queue' = Rest(out, w)
              /\ pending' = IF w = 0 THEN (pending \ {"s_read"}) \union {"c_write"}
                            ELSE pending
              /\ UNCHANGED <<status, mode, parser, ppos, server, s_queue, history, files, c_env>>
    <2>1. ControlType'
      BY <1>10 DEF TypeOK, ControlType, Events
    <2>2. QueueType'
      BY <1>4, <1>10 DEF TypeOK, QueueType
    <2>3. FileType' /\ ClientType'
      BY <1>10 DEF TypeOK, FileType, ClientType, files, c_env
    <2>4. ServerType'
      BY <1>2, <1>10, ServerReadType DEF TypeOK
    <2>5. Wiring'
      <3>1. pending' \in {(pending \ {"s_read"}) \union {"c_write"}, pending}
        BY <1>10
      <3> QED
        BY <3>1, <1>1, <1>4, <1>10 DEF Wiring, Wired, WiredFast, Watched, Backpressure,
           ServerOnlyWhenClientPaused
    <2> QED
      BY <2>1, <2>2, <2>3, <2>4, <2>5, <1>7 DEF TypeOK
  <1> QED
    BY <1>3, <1>8, <1>9, <1>10

LEMMA ReplyOnlyWritableKeeps ==
    ASSUME TypeOK, Wiring, Client_on_writable_reply_only
    PROVE  TypeOK' /\ Wiring'
  <1>1. /\ status = "open" /\ mode = "fast" /\ ~server /\ parser = "none"
        /\ c_queue # NULL /\ pending = {"c_write"} /\ history # NULL
    BY DEF Client_on_writable_reply_only, Handles, Wiring, Wired, WiredFast, TypeOK, ControlType
  <1>2. PICK w \in 0..Len(c_queue) :
          /\ c_out' = c_out \o First(c_queue, w)
          /\ UNCHANGED <<sent, got, mishaps>>
          /\ \/ delete_conn
             \/ /\ w < Len(c_queue)
                /\ c_queue' = Rest(c_queue, w)
                /\ UNCHANGED <<control, s_queue, history, files, c_env, s_env>>
    BY DEF Client_on_writable_reply_only
  <1>3. /\ First(c_queue, w) \in Seq(Int)
        /\ Rest(c_queue, w) \in Queues /\ Rest(c_queue, w) # NULL
        /\ w < Len(c_queue) => Rest(c_queue, w) # <<>>
    BY <1>1, QueueShrinks DEF TypeOK, QueueType
  <1>4. GhostType'
    <2>1. c_out' \in Seq(Int)
      BY <1>2, <1>3 DEF TypeOK, GhostType
    <2> QED
      BY <2>1, <1>2 DEF TypeOK, GhostType
  <1>5. CASE delete_conn
    BY <1>4, <1>5, DeleteKeeps
  <1>6. CASE /\ w < Len(c_queue) /\ c_queue' = Rest(c_queue, w)
             /\ UNCHANGED <<control, s_queue, history, files, c_env, s_env>>
    <2>1. ControlType'
      BY <1>6 DEF TypeOK, ControlType, control
    <2>2. QueueType'
      BY <1>3, <1>6 DEF TypeOK, QueueType
    <2>3. FileType' /\ ClientType' /\ ServerType'
      BY <1>6 DEF TypeOK, FileType, ClientType, ServerType, files, c_env, s_env
    <2>4. Wiring'
      BY <1>1, <1>3, <1>6 DEF Wiring, Wired, WiredFast, Watched, Backpressure,
         ServerOnlyWhenClientPaused, control
    <2> QED
      BY <2>1, <2>2, <2>3, <2>4, <1>4 DEF TypeOK
  <1> QED
    BY <1>2, <1>5, <1>6

LEMMA ClientWritableFastKeeps ==
    ASSUME TypeOK, Wiring, Client_on_writable_fast
    PROVE  TypeOK' /\ Wiring'
  <1>1. /\ status = "open" /\ mode = "fast" /\ server /\ "c_write" \in pending
        /\ c_queue # NULL /\ s_queue # NULL /\ history # NULL /\ parser = "request"
    BY DEF Client_on_writable_fast, Handles, Wiring, Wired, WiredFast
  <1>2. PICK w \in 0..Len(c_queue) :
          c_out' = c_out \o First(c_queue, w) /\ c_queue' = Rest(c_queue, w)
    BY DEF Client_on_writable_fast
  <1>3. /\ First(c_queue, w) \in Seq(Int)
        /\ Rest(c_queue, w) \in Queues /\ Rest(c_queue, w) # NULL
    BY <1>1, QueueShrinks DEF TypeOK, QueueType
  <1>4. /\ pending' = (pending \union {"s_read"}) \ {"c_write"}
        /\ UNCHANGED <<status, mode, parser, ppos, server, s_queue, history, files,
                       c_env, s_env, sent, got, mishaps>>
    BY DEF Client_on_writable_fast
  <1>5. GhostType'
    <2>1. c_out' \in Seq(Int)
      BY <1>2, <1>3 DEF TypeOK, GhostType
    <2> QED
      BY <2>1, <1>4 DEF TypeOK, GhostType
  <1>6. ControlType'
    BY <1>4 DEF TypeOK, ControlType, Events
  <1>7. QueueType' /\ c_queue' # NULL
    BY <1>2, <1>3, <1>4 DEF TypeOK, QueueType
  <1>8. FileType' /\ ClientType' /\ ServerType'
    BY <1>4 DEF TypeOK, FileType, ClientType, ServerType, files, c_env, s_env
  <1>9. Wiring'
    BY <1>1, <1>4, <1>7 DEF Wiring, Wired, WiredFast, Watched, Backpressure,
       ServerOnlyWhenClientPaused
  <1> QED
    BY <1>5, <1>6, <1>7, <1>8, <1>9 DEF TypeOK

LEMMA ServerWritableFastKeeps ==
    ASSUME TypeOK, Wiring, Server_on_writable_fast
    PROVE  TypeOK' /\ Wiring'
  <1>1. /\ status = "open" /\ mode = "fast" /\ server /\ "s_write" \in pending
        /\ c_queue # NULL /\ s_queue # NULL /\ history # NULL /\ parser = "request"
    BY DEF Server_on_writable_fast, Handles, Wiring, Wired, WiredFast
  <1>2. PICK w \in 0..Len(s_queue) :
          sent' = sent \o First(s_queue, w) /\ s_queue' = Rest(s_queue, w)
    BY DEF Server_on_writable_fast
  <1>3. /\ First(s_queue, w) \in Seq(Int)
        /\ Rest(s_queue, w) \in Queues /\ Rest(s_queue, w) # NULL
    BY <1>1, QueueShrinks DEF TypeOK, QueueType
  <1>4. /\ pending' = (pending \union {"c_read"}) \ {"s_write"}
        /\ UNCHANGED <<status, mode, parser, ppos, server, c_queue, history, files,
                       c_env, s_env, c_out, got, mishaps>>
    BY DEF Server_on_writable_fast
  <1>5. GhostType'
    <2>1. sent' \in Seq(Int)
      BY <1>2, <1>3 DEF TypeOK, GhostType
    <2> QED
      BY <2>1, <1>4 DEF TypeOK, GhostType
  <1>6. ControlType'
    BY <1>4 DEF TypeOK, ControlType, Events
  <1>7. QueueType' /\ s_queue' # NULL
    BY <1>2, <1>3, <1>4 DEF TypeOK, QueueType
  <1>8. FileType' /\ ClientType' /\ ServerType'
    BY <1>4 DEF TypeOK, FileType, ClientType, ServerType, files, c_env, s_env
  <1>9. Wiring'
    BY <1>1, <1>4, <1>7 DEF Wiring, Wired, WiredFast, Watched, Backpressure,
       ServerOnlyWhenClientPaused
  <1> QED
    BY <1>5, <1>6, <1>7, <1>8, <1>9 DEF TypeOK
-----------------------------------------------------------------------------
(* Leaving fast mode. *)

LEMMA SlowIdleKeeps ==
    ASSUME TypeOK, Wiring, set_slow_mode_idle
    PROVE  TypeOK' /\ Wiring'
  <1>1. /\ status = "open" /\ mode = "fast" /\ parser = "none" /\ WiredFast
    BY DEF set_slow_mode_idle, Listed, Wiring, Wired
  <1>2. /\ mode' = "slow" /\ parser' = "request" /\ ppos' = 0
        /\ pending' = pending \union {"c_read"} /\ history' = NULL
        /\ UNCHANGED <<status, server, c_queue, s_queue, files, c_env, s_env, c_out, sent, got>>
        /\ mishaps' \in {mishaps, mishaps \union {"revived"}}
    BY DEF set_slow_mode_idle
  <1>3. ControlType'
    <2>1. ppos' \in 0..(MsgLen - 1)
      BY <1>2, StartOfMsg
    <2> QED
      BY <1>2, <2>1 DEF TypeOK, ControlType, Events
  <1>4. QueueType'
    BY <1>2 DEF TypeOK, QueueType
  <1>5. FileType' /\ ClientType' /\ ServerType' /\ GhostType'
    BY <1>2 DEF TypeOK, FileType, ClientType, ServerType, GhostType, files, c_env, s_env
  <1>6. s_queue = NULL /\ ~server
    BY <1>1 DEF WiredFast, TypeOK, ControlType
  <1>7. Wiring'
    BY <1>1, <1>2, <1>6 DEF Wiring, Wired, WiredSlow, Watched, Backpressure,
       ServerOnlyWhenClientPaused, WiredFast
  <1> QED
    BY <1>3, <1>4, <1>5, <1>7 DEF TypeOK

LEMMA SlowBusyKeeps ==
    ASSUME TypeOK, Wiring, set_slow_mode_busy
    PROVE  TypeOK' /\ Wiring'
  <1>1. /\ status = "open" /\ mode = "fast" /\ parser = "request" /\ server
        /\ c_queue # NULL /\ s_queue # NULL /\ history # NULL
    BY DEF set_slow_mode_busy, Listed, Wiring, Wired, WiredFast
  <1>2. c_queue \in Seq(Int) /\ s_queue \in Queues /\ history \in Seq(Int)
    BY <1>1, QueueIsSeq DEF TypeOK, QueueType
  <1>3. /\ mode' = "transition"
        /\ pending' = EventsInTransition
        /\ s_queue' = IF s_queue # <<>> THEN s_queue ELSE NULL
        /\ request_buf' = copy_data(history) /\ history' = NULL
        /\ response_buf' = DumpedQueue /\ c_queue' = NULL
        /\ mishaps' \in {mishaps, mishaps \union {"stranded"}}
        /\ UNCHANGED <<status, parser, ppos, server, request_tmp_buf, c_env, s_env,
                       c_out, sent, got>>
    BY DEF set_slow_mode_busy
  <1>4. ControlType'
    BY <1>3 DEF TypeOK, ControlType, Events, EventsInTransition
  <1>5. QueueType'
    BY <1>2, <1>3, EmptyQueue DEF QueueType
  <1>6. FileType'
    BY <1>2, <1>3, EmptyFileType, StoreType, StoreLastType
       DEF TypeOK, FileType, DumpedQueue, copy_data
  <1>7. ClientType' /\ ServerType' /\ GhostType'
    BY <1>3 DEF TypeOK, ClientType, ServerType, GhostType, c_env, s_env
  <1>8. Wiring'
    BY <1>1, <1>3 DEF Wiring, Wired, WiredTransition, Watched, Backpressure,
       ServerOnlyWhenClientPaused, EventsInTransition
  <1> QED
    BY <1>4, <1>5, <1>6, <1>7, <1>8 DEF TypeOK

LEMMA TransitionReadKeeps ==
    ASSUME TypeOK, Wiring, Server_on_readable_transition
    PROVE  TypeOK' /\ Wiring'
  <1>1. status = "open" /\ mode = "transition" /\ WiredTransition
    BY DEF Server_on_readable_transition, Handles, Wiring, Wired
  <1>2. /\ response_buf' = StoreLast(response_buf, ReadAll(s_sock, BufSize))
        /\ got' = got \union Range(ReadAll(s_sock, BufSize))
        /\ s_read_all(BufSize)
        /\ pending' = pending \union {"c_write"}
        /\ UNCHANGED <<status, mode, parser, ppos, server, queues, request_buf,
                       request_tmp_buf, c_env, c_out, sent, mishaps>>
    BY DEF Server_on_readable_transition
  <1>3. BufSize \in Nat /\ ReadAll(s_sock, BufSize) \in Seq(Int)
    BY ReadAllType DEF TypeOK, ServerType
  <1>4. ControlType'
    BY <1>2 DEF TypeOK, ControlType, Events
  <1>5. QueueType' /\ ClientType'
    BY <1>2 DEF TypeOK, QueueType, ClientType, queues, c_env
  <1>6. FileType'
    BY <1>2, <1>3, StoreLastType DEF TypeOK, FileType
  <1>7. ServerType'
    BY <1>2, <1>3, ServerReadType DEF TypeOK
  <1>8. GhostType'
    BY <1>2, <1>3, RangeType DEF TypeOK, GhostType
  <1>9. Wiring'
    BY <1>1, <1>2 DEF Wiring, Wired, WiredTransition, Watched, Backpressure,
       ServerOnlyWhenClientPaused, queues
  <1> QED
    BY <1>4, <1>5, <1>6, <1>7, <1>8, <1>9 DEF TypeOK

(* The end of the transition, by the server's FIN or by the timeout. *)
LEMMA FinishTransitionKeeps ==
    ASSUME TypeOK, Wiring, status = "open", mode = "transition", finish_transition,
           UNCHANGED <<status, parser, ppos, c_queue, history, files, c_env>>, GhostType'
    PROVE  TypeOK' /\ Wiring'
  <1>1. WiredTransition
    BY DEF Wiring, Wired
  <1>2. ControlType'
    BY DEF TypeOK, ControlType, finish_transition, free_server, Events
  <1>3. QueueType'
    BY EmptyQueue DEF TypeOK, QueueType, finish_transition, free_server
  <1>4. FileType' /\ ClientType' /\ ServerType'
    BY DEF TypeOK, FileType, ClientType, ServerType, finish_transition, free_server,
       files, c_env
  <1>5. Wiring'
    BY <1>1 DEF Wiring, Wired, WiredTransition, WiredSlow, Watched, Backpressure,
       ServerOnlyWhenClientPaused, finish_transition, free_server
  <1> QED
    BY <1>2, <1>3, <1>4, <1>5 DEF TypeOK

LEMMA TransitionEndsKeeps ==
    ASSUME TypeOK, Wiring, Server_closed_in_transition \/ Transition_timeout
    PROVE  TypeOK' /\ Wiring'
  <1>1. ReadAll(s_sock, BufSize) \in Seq(Int)
    BY ReadAllType DEF TypeOK, ServerType
  <1>2. CASE Server_closed_in_transition
    <2>1. GhostType'
      BY <1>1, <1>2, RangeType DEF Server_closed_in_transition, TypeOK, GhostType
    <2> QED
      BY <1>2, <2>1, FinishTransitionKeeps DEF Server_closed_in_transition, Handles
  <1>3. CASE Transition_timeout
    <2>1. GhostType'
      BY <1>3 DEF Transition_timeout, TypeOK, GhostType, ghosts
    <2> QED
      BY <1>3, <2>1, FinishTransitionKeeps DEF Transition_timeout, Handles
  <1> QED
    BY <1>2, <1>3

LEMMA TransitionWriteKeeps ==
    ASSUME TypeOK, Wiring, Server_on_writable_transition
    PROVE  TypeOK' /\ Wiring'
  <1>1. status = "open" /\ mode = "transition" /\ WiredTransition /\ "s_write" \in pending
    BY DEF Server_on_writable_transition, Handles, Wiring, Wired
  <1>2. UNCHANGED <<mode, parser, ppos, server, c_queue, history, files, c_env, s_env,
                    c_out, got, mishaps>>
    BY DEF Server_on_writable_transition
  <1>3. FileType' /\ ClientType' /\ ServerType'
    BY <1>2 DEF TypeOK, FileType, ClientType, ServerType, files, c_env, s_env
  <1>4. CASE s_queue = NULL
    <2>1. status' = "crashed" /\ UNCHANGED <<pending, s_queue, sent>>
      BY <1>4 DEF Server_on_writable_transition
    <2>2. ControlType' /\ QueueType' /\ GhostType'
      BY <1>2, <2>1 DEF TypeOK, ControlType, QueueType, GhostType
    <2> QED
      BY <1>3, <2>1, <2>2 DEF TypeOK, Wiring, Wired, Watched, Backpressure,
         ServerOnlyWhenClientPaused
  <1>5. CASE s_queue # NULL
    <2>1. PICK w \in 0..Len(s_queue) :
            /\ sent' = sent \o First(s_queue, w)
            /\ IF w = Len(s_queue)
               THEN /\ pending' = pending \ {"s_write"}
                    /\ s_queue' = NULL
                    /\ status' = IF LOG_LEVEL_2 THEN "crashed" ELSE status
               ELSE /\ s_queue' = Rest(s_queue, w)
                    /\ UNCHANGED <<pending, status>>
      BY <1>5 DEF Server_on_writable_transition
    <2>2. /\ First(s_queue, w) \in Seq(Int)
          /\ Rest(s_queue, w) \in Queues /\ Rest(s_queue, w) # NULL
          /\ w < Len(s_queue) => Rest(s_queue, w) # <<>>
          /\ Len(s_queue) \in Nat
      BY <1>5, QueueShrinks, QueueIsSeq DEF TypeOK, QueueType
    <2>3. GhostType'
      <3>1. sent' \in Seq(Int)
        BY <2>1, <2>2 DEF TypeOK, GhostType
      <3> QED
        BY <3>1, <1>2 DEF TypeOK, GhostType
    <2>4. CASE w = Len(s_queue)
      <3>1. /\ pending' = pending \ {"s_write"} /\ s_queue' = NULL
            /\ status' \in {"crashed", status}
        BY <2>1, <2>4
      <3>2. ControlType' /\ QueueType'
        BY <3>1, <1>2, EmptyQueue DEF TypeOK, ControlType, QueueType
      <3>3. Wiring'
        BY <3>1, <1>1, <1>2 DEF Wiring, Wired, WiredTransition, Watched, Backpressure,
           ServerOnlyWhenClientPaused
      <3> QED
        BY <3>2, <3>3, <2>3, <1>3 DEF TypeOK
    <2>5. CASE w # Len(s_queue)
      <3>1. s_queue' = Rest(s_queue, w) /\ UNCHANGED <<pending, status>>
        BY <2>1, <2>5
      <3>2. s_queue' # <<>>
        BY <3>1, <2>2, <2>5
      <3>3. ControlType' /\ QueueType'
        BY <3>1, <2>2, <1>2 DEF TypeOK, ControlType, QueueType
      <3>4. Wiring'
        BY <3>1, <3>2, <1>1, <1>2 DEF Wiring, Wired, WiredTransition, Watched, Backpressure,
           ServerOnlyWhenClientPaused
      <3> QED
        BY <3>3, <3>4, <2>3, <1>3 DEF TypeOK
    <2> QED
      BY <2>4, <2>5
  <1> QED
    BY <1>4, <1>5
-----------------------------------------------------------------------------
(* Slow mode. *)

LEMMA ClientClosedSlowKeeps ==
    ASSUME TypeOK, Wiring, Client_closed_slow \/ Monitor_drop
    PROVE  TypeOK' /\ Wiring'
  <1>1. delete_conn /\ GhostType'
    BY DEF Client_closed_slow, Monitor_drop, TypeOK, GhostType, ghosts
  <1> QED
    BY <1>1, DeleteKeeps

LEMMA ClientReadableSlowKeeps ==
    ASSUME TypeOK, Wiring, Client_on_readable_slow
    PROVE  TypeOK' /\ Wiring'
  <1> DEFINE d == ReadAll(c_sock, BufSize)
  <1>1. /\ status = "open" /\ mode = "slow" /\ "c_read" \in pending
        /\ WiredSlow /\ ~server
    BY DEF Client_on_readable_slow, Handles, Wiring, Wired, ServerOnlyWhenClientPaused,
       TypeOK, ControlType
  <1>2. parser = "request"
    BY <1>1 DEF WiredSlow, TypeOK, ControlType
  <1>3. BufSize \in Nat /\ d \in Seq(Int) /\ Len(d) \in Nat
    BY ReadAllType DEF TypeOK, ClientType
  <1>4. CASE delete_conn /\ UNCHANGED ghosts
    <2>1. GhostType'
      BY <1>4 DEF TypeOK, GhostType, ghosts
    <2> QED
      BY <1>4, <2>1, DeleteKeeps
  <1>5. CASE /\ reply_only /\ c_read_all(BufSize)
             /\ UNCHANGED <<status, mode, server, queues, files, s_env, ghosts>>
    <2>1. ControlType'
      <3>1. ppos' \in 0..(MsgLen - 1)
        BY <1>5, StartOfMsg DEF reply_only
      <3> QED
        BY <1>5, <3>1 DEF TypeOK, ControlType, reply_only, Events
    <2>2. QueueType' /\ FileType' /\ ServerType' /\ GhostType'
      BY <1>5 DEF TypeOK, QueueType, FileType, ServerType, GhostType, queues, files,
         s_env, ghosts
    <2>3. ClientType'
      BY <1>3, <1>5, ClientReadType DEF TypeOK
    <2>4. Wiring'
      BY <1>1, <1>5 DEF Wiring, Wired, WiredSlow, Watched, Backpressure,
         ServerOnlyWhenClientPaused, reply_only, queues
    <2> QED
      BY <2>1, <2>2, <2>3, <2>4 DEF TypeOK
  <1>6. CASE /\ ~CompletesMsg(ppos, d)
             /\ request_buf' = Store(request_buf, d)
             /\ ppos' = ppos + Len(d)
             /\ c_read_all(BufSize)
             /\ UNCHANGED <<status, mode, parser, server, pending, queues,
                            request_tmp_buf, response_buf, s_env, ghosts>>
    <2>1. ppos' \in 0..(MsgLen - 1)
      BY <1>3, <1>6 DEF CompletesMsg, TypeOK, ControlType
    <2>2. ControlType'
      BY <1>6, <2>1 DEF TypeOK, ControlType
    <2>3. QueueType' /\ ServerType' /\ GhostType'
      BY <1>6 DEF TypeOK, QueueType, ServerType, GhostType, queues, s_env, ghosts
    <2>4. FileType'
      BY <1>3, <1>6, StoreType DEF TypeOK, FileType
    <2>5. ClientType'
      BY <1>3, <1>6, ClientReadType DEF TypeOK
    <2>6. Wiring'
      BY <1>1, <1>6 DEF Wiring, Wired, WiredSlow, Watched, Backpressure,
         ServerOnlyWhenClientPaused, queues
    <2> QED
      BY <2>2, <2>3, <2>4, <2>5, <2>6 DEF TypeOK
  <1>7. CASE /\ delete_conn /\ reply_with_503_unavailable
             /\ mishaps' = IF Unread(response_buf) # <<>>
                           THEN mishaps \union {"interjected"} ELSE mishaps
             /\ UNCHANGED <<sent, got>>
    <2>1. c_out' \in Seq(Int)
      BY <1>7 DEF TypeOK, GhostType, Page503, reply_with_503_unavailable
    <2>2. GhostType'
      BY <1>7, <2>1 DEF TypeOK, GhostType
    <2> QED
      BY <1>7, <2>2, DeleteKeeps
  <1>8. CASE /\ CompletesMsg(ppos, d)
             /\ LET e == FirstEnd(ppos)
                IN  /\ request_buf' = Rewind(Store(request_buf, First(d, e)))
                    /\ request_tmp_buf' = Store(request_tmp_buf, Rest(d, e))
                    /\ mishaps' = IF e < Len(d) THEN mishaps \union {"overflow"} ELSE mishaps
             /\ parser' = "response" /\ ppos' = 0
             /\ server' = TRUE /\ sent' = <<>>
             /\ pending' = (pending \ {"c_read"}) \union {"s_read", "s_write"}
             /\ c_read_all(BufSize)
             /\ UNCHANGED <<status, mode, queues, response_buf, s_env, c_out, got>>
    <2> DEFINE e == FirstEnd(ppos)
    <2>1. e \in 0..Len(d)
      BY <1>3, <1>8 DEF CompletesMsg, FirstEnd, TypeOK, ControlType
    <2>2. First(d, e) \in Seq(Int) /\ Rest(d, e) \in Seq(Int)
      BY <1>3, <2>1, FirstType, RestType
    <2>3. FileType'
      <3>1. request_buf' \in Files /\ request_tmp_buf' \in Files
        BY <1>8, <2>2, StoreType, RewindType DEF TypeOK, FileType
      <3> QED
        BY <1>8, <3>1 DEF TypeOK, FileType
    <2>4. ControlType'
      <3>1. ppos' \in 0..(MsgLen - 1)
        BY <1>8, StartOfMsg
      <3>2. server' \in BOOLEAN
        BY <1>8
      <3>3. pending' \in SUBSET Events
        BY <1>8 DEF TypeOK, ControlType, Events
      <3> QED
        BY <1>8, <3>1, <3>2, <3>3 DEF TypeOK, ControlType
    <2>5. QueueType' /\ ServerType'
      BY <1>8 DEF TypeOK, QueueType, ServerType, queues, s_env
    <2>6. ClientType'
      BY <1>3, <1>8, ClientReadType DEF TypeOK
    <2>7. GhostType'
      BY <1>8 DEF TypeOK, GhostType
    <2>8. Wiring'
      BY <1>1, <1>8 DEF Wiring, Wired, WiredSlow, Watched, Backpressure,
         ServerOnlyWhenClientPaused, queues
    <2> QED
      BY <2>3, <2>4, <2>5, <2>6, <2>7, <2>8 DEF TypeOK
  <1> QED
    BY <1>4, <1>5, <1>6, <1>7, <1>8 DEF Client_on_readable_slow

LEMMA SendResponseKeeps ==
    ASSUME TypeOK, Wiring, send_response_slowly
    PROVE  TypeOK' /\ Wiring'
  <1> DEFINE d == Fetched(response_buf, BufSize)
  <1>1. status = "open" /\ mode \in {"transition", "slow"} /\ "c_write" \in pending
    BY DEF send_response_slowly, TypeOK, ControlType
  <1>2. d \in Seq(Int) /\ Len(d) \in 0..(Len(response_buf.data) - response_buf.pos)
    BY FetchedType DEF TypeOK, FileType
  <1>3. CASE /\ \E w \in 0..Len(d) :
                  /\ response_buf' = Advance(response_buf, Len(d), w)
                  /\ c_out' = c_out \o First(d, w)
             /\ UNCHANGED <<control, queues, request_buf, request_tmp_buf,
                            c_env, s_env, sent, got, mishaps>>
    <2>1. PICK w \in 0..Len(d) : /\ response_buf' = Advance(response_buf, Len(d), w)
                                 /\ c_out' = c_out \o First(d, w)
      BY <1>3
    <2> HIDE DEF d
    <2>2. FileType'
      <3>1. w \in 0..(Len(response_buf.data) - response_buf.pos)
        BY <1>2 DEF TypeOK, FileType, Files
      <3>2. response_buf' \in Files
        BY <2>1, <3>1, AdvanceType DEF TypeOK, FileType
      <3> QED
        BY <1>3, <3>2 DEF TypeOK, FileType
    <2>3. GhostType'
      <3>1. c_out' \in Seq(Int)
        BY <2>1, <1>2, FirstType DEF TypeOK, GhostType
      <3> QED
        BY <1>3, <3>1 DEF TypeOK, GhostType
    <2>4. ControlType' /\ QueueType' /\ ClientType' /\ ServerType'
      BY <1>3 DEF TypeOK, ControlType, QueueType, ClientType, ServerType, control, queues,
         c_env, s_env
    <2>5. Wiring'
      BY <1>1, <1>3 DEF Wiring, Wired, WiredTransition, WiredSlow, Watched, Backpressure,
         ServerOnlyWhenClientPaused, control, queues
    <2> QED
      BY <2>2, <2>3, <2>4, <2>5 DEF TypeOK
  <1>4. CASE /\ parser # "none"
             /\ pending' = pending \ {"c_write"}
             /\ UNCHANGED <<status, mode, parser, ppos, server, queues, files,
                            c_env, s_env, ghosts>>
    <2>1. ControlType'
      BY <1>4 DEF TypeOK, ControlType
    <2>2. QueueType' /\ FileType' /\ ClientType' /\ ServerType' /\ GhostType'
      BY <1>4 DEF TypeOK, QueueType, FileType, ClientType, ServerType, GhostType,
         queues, files, c_env, s_env, ghosts
    <2>3. Wiring'
      <3>1. "c_read" \in pending \/ "s_read" \in pending
        BY <1>1, <1>4 DEF Wiring, Wired, WiredTransition, WiredSlow,
           ServerOnlyWhenClientPaused, TypeOK, ControlType
      <3> QED
        BY <1>1, <1>4, <3>1 DEF Wiring, Wired, WiredTransition, WiredSlow, Watched,
           Backpressure, ServerOnlyWhenClientPaused, queues
    <2> QED
      BY <2>1, <2>2, <2>3 DEF TypeOK
  <1>5. CASE delete_conn /\ UNCHANGED ghosts
    <2>1. GhostType'
      BY <1>5 DEF TypeOK, GhostType, ghosts
    <2> QED
      BY <1>5, <2>1, DeleteKeeps
  <1> QED
    BY <1>3, <1>4, <1>5 DEF send_response_slowly

LEMMA ServerReadableSlowKeeps ==
    ASSUME TypeOK, Wiring, Server_on_readable_slow
    PROVE  TypeOK' /\ Wiring'
  <1> DEFINE d == ReadAll(s_sock, BufSize)
             buf == StoreLast(response_buf, d)
  <1>1. /\ status = "open" /\ mode = "slow" /\ "s_read" \in pending /\ server
        /\ WiredSlow /\ "c_read" \notin pending
    BY DEF Server_on_readable_slow, Handles, Wiring, Wired, Watched,
       ServerOnlyWhenClientPaused
  <1>2. BufSize \in Nat /\ d \in Seq(Int) /\ Range(d) \in SUBSET Int
    BY ReadAllType, RangeType DEF TypeOK, ServerType
  <1>3. buf \in Files
    BY <1>2, StoreLastType DEF TypeOK, FileType
  <1>4. got' = got \union Range(d) /\ UNCHANGED <<c_out, sent>>
    BY DEF Server_on_readable_slow
  <1> HIDE DEF d, buf
  <1>5. CASE /\ free_server /\ reply_only /\ response_buf' = buf /\ NoteOutrun
             /\ UNCHANGED <<status, mode, c_queue, history, request_buf,
                            request_tmp_buf, c_env>>
    <2>1. ControlType'
      <3>1. ppos' \in 0..(MsgLen - 1)
        BY <1>5, StartOfMsg DEF reply_only
      <3>2. server' \in BOOLEAN /\ pending' \in SUBSET Events
        BY <1>5 DEF free_server, reply_only, Events
      <3> QED
        BY <1>5, <3>1, <3>2 DEF TypeOK, ControlType, reply_only
    <2>2. QueueType' /\ FileType' /\ ClientType' /\ ServerType' /\ GhostType'
      <3>1. QueueType'
        BY <1>5, EmptyQueue DEF TypeOK, QueueType, free_server
      <3>2. FileType'
        BY <1>3, <1>5 DEF TypeOK, FileType
      <3>3. ClientType' /\ ServerType'
        BY <1>5 DEF TypeOK, ClientType, ServerType, free_server, c_env
      <3>4. mishaps' \in {mishaps, mishaps \union {"outrun"}}
        BY <1>5 DEF NoteOutrun
      <3>5. GhostType'
        BY <1>2, <1>4, <3>4 DEF TypeOK, GhostType
      <3> QED
        BY <3>1, <3>2, <3>3, <3>5
    <2>3. Wiring'
      BY <1>1, <1>5 DEF Wiring, Wired, WiredSlow, Watched, Backpressure,
         ServerOnlyWhenClientPaused, free_server, reply_only
    <2> QED
      BY <2>1, <2>2, <2>3 DEF TypeOK
  <1>6. CASE /\ free_server /\ parser' = "request" /\ ppos' = 0 /\ response_buf' = buf
             /\ pending' = (pending \ {"s_read", "s_write"}) \union {"c_read", "c_write"}
             /\ NoteOutrun
             /\ UNCHANGED <<status, mode, c_queue, history, request_buf,
                            request_tmp_buf, c_env>>
    <2>1. ControlType'
      <3>1. ppos' \in 0..(MsgLen - 1)
        BY <1>6, StartOfMsg
      <3>2. server' \in BOOLEAN
        BY <1>6 DEF free_server
      <3>3. pending' \in SUBSET Events
        BY <1>6 DEF TypeOK, ControlType, Events
      <3> QED
        BY <1>6, <3>1, <3>2, <3>3 DEF TypeOK, ControlType
    <2>2. QueueType' /\ FileType' /\ ClientType' /\ ServerType' /\ GhostType'
      <3>1. QueueType'
        BY <1>6, EmptyQueue DEF TypeOK, QueueType, free_server
      <3>2. FileType'
        BY <1>3, <1>6 DEF TypeOK, FileType
      <3>3. ClientType' /\ ServerType'
        BY <1>6 DEF TypeOK, ClientType, ServerType, free_server, c_env
      <3>4. mishaps' \in {mishaps, mishaps \union {"outrun"}}
        BY <1>6 DEF NoteOutrun
      <3>5. GhostType'
        BY <1>2, <1>4, <3>4 DEF TypeOK, GhostType
      <3> QED
        BY <3>1, <3>2, <3>3, <3>5
    <2>3. Wiring'
      BY <1>1, <1>6 DEF Wiring, Wired, WiredSlow, Watched, Backpressure,
         ServerOnlyWhenClientPaused, free_server
    <2> QED
      BY <2>1, <2>2, <2>3 DEF TypeOK
  <1>7. CASE /\ s_read_all(BufSize) /\ response_buf' = buf
             /\ pending' = pending \union {"c_write"}
             /\ UNCHANGED <<status, mode, parser, ppos, server, queues, request_buf,
                            request_tmp_buf, c_env, mishaps>>
    <2>1. ControlType'
      BY <1>7 DEF TypeOK, ControlType, Events
    <2>2. QueueType' /\ FileType' /\ ClientType' /\ GhostType'
      BY <1>2, <1>3, <1>4, <1>7 DEF TypeOK, QueueType, FileType, ClientType, GhostType,
         queues, c_env
    <2>3. ServerType'
      BY <1>2, <1>7, ServerReadType DEF TypeOK
    <2>4. Wiring'
      BY <1>1, <1>7 DEF Wiring, Wired, WiredSlow, Watched, Backpressure,
         ServerOnlyWhenClientPaused, queues
    <2> QED
      BY <2>1, <2>2, <2>3, <2>4 DEF TypeOK
  <1> QED
    BY <1>5, <1>6, <1>7 DEF Server_on_readable_slow, d, buf

LEMMA SendRequestKeeps ==
    ASSUME TypeOK, Wiring, send_request_slowly
    PROVE  TypeOK' /\ Wiring'
  <1> DEFINE d == Fetched(request_buf, BufSize)
  <1>1. status = "open" /\ mode = "slow" /\ "s_write" \in pending /\ server /\ WiredSlow
    BY DEF send_request_slowly, Handles, Wiring, Wired, Watched
  <1>2. UNCHANGED <<status, mode, parser, ppos, server, queues, response_buf,
                    c_env, s_env, c_out, got, mishaps>>
    BY DEF send_request_slowly
  <1>3. d \in Seq(Int) /\ Len(d) \in 0..(Len(request_buf.data) - request_buf.pos)
    BY FetchedType DEF TypeOK, FileType
  <1>4. QueueType' /\ ClientType' /\ ServerType'
    BY <1>2 DEF TypeOK, QueueType, ClientType, ServerType, queues, c_env, s_env
  <1>5. CASE /\ \E w \in 0..Len(d) :
                  /\ request_buf' = Advance(request_buf, Len(d), w)
                  /\ sent' = sent \o First(d, w)
             /\ UNCHANGED <<pending, request_tmp_buf>>
    <2>1. PICK w \in 0..Len(d) : /\ request_buf' = Advance(request_buf, Len(d), w)
                                 /\ sent' = sent \o First(d, w)
      BY <1>5
    <2> HIDE DEF d
    <2>2. FileType'
      <3>1. w \in 0..(Len(request_buf.data) - request_buf.pos)
        BY <1>3 DEF TypeOK, FileType, Files
      <3>2. request_buf' \in Files
        BY <2>1, <3>1, AdvanceType DEF TypeOK, FileType
      <3> QED
        BY <1>2, <1>5, <3>2 DEF TypeOK, FileType
    <2>3. GhostType'
      <3>1. sent' \in Seq(Int)
        BY <2>1, <1>3, FirstType DEF TypeOK, GhostType
      <3> QED
        BY <1>2, <3>1 DEF TypeOK, GhostType
    <2>4. ControlType'
      BY <1>2, <1>5 DEF TypeOK, ControlType
    <2>5. Wiring'
      BY <1>1, <1>2, <1>5 DEF Wiring, Wired, WiredSlow, Watched, Backpressure,
         ServerOnlyWhenClientPaused, queues
    <2> QED
      BY <1>4, <2>2, <2>3, <2>4, <2>5 DEF TypeOK
  <1>6. CASE /\ pending' = pending \ {"s_write"}
             /\ request_buf' = request_tmp_buf
             /\ request_tmp_buf' = EmptyFile
             /\ UNCHANGED sent
    <2>1. ControlType' /\ FileType' /\ GhostType'
      BY <1>2, <1>6, EmptyFileType DEF TypeOK, ControlType, FileType, GhostType
    <2>2. Wiring'
      BY <1>1, <1>2, <1>6 DEF Wiring, Wired, WiredSlow, Watched, Backpressure,
         ServerOnlyWhenClientPaused, queues
    <2> QED
      BY <1>4, <2>1, <2>2 DEF TypeOK
  <1> QED
    BY <1>5, <1>6 DEF send_request_slowly

-----------------------------------------------------------------------------
(* The peers and stuttering leave the control state alone. *)

LEMMA WiringUnchanged ==
    ASSUME Wiring, UNCHANGED <<control, queues>>
    PROVE  Wiring'
  BY DEF Wiring, Wired, WiredFast, WiredTransition, WiredSlow, Watched, Backpressure,
     ServerOnlyWhenClientPaused, control, queues

LEMMA PeersKeep ==
    ASSUME TypeOK, Wiring, PeerNext
    PROVE  TypeOK' /\ Wiring'
  <1>1. UNCHANGED <<control, queues, files, ghosts>>
    BY DEF PeerNext, Client_sends, Client_closes, Server_sends, Server_closes
  <1>2. ControlType' /\ QueueType' /\ FileType' /\ GhostType'
    BY <1>1 DEF TypeOK, ControlType, QueueType, FileType, GhostType, control, queues,
       files, ghosts
  <1>3. ClientType' /\ ServerType'
    <2>1. CASE Client_sends
      <3>1. PICK t \in {c_next + 1, Malformed} : c_sock' = c_sock \o <<t>>
        BY <2>1 DEF Client_sends
      <3>2. t \in Int
        BY DEF Malformed, TypeOK, ClientType
      <3>3. c_sock' \in Seq(Int)
        BY <3>1, <3>2 DEF TypeOK, ClientType
      <3> QED
        BY <2>1, <3>3 DEF Client_sends, TypeOK, ClientType, ServerType, s_env
    <2>2. CASE Client_closes
      BY <2>2 DEF Client_closes, TypeOK, ClientType, ServerType, s_env
    <2>3. CASE Server_sends
      <3>1. s_sock' \in Seq(Int)
        BY <2>3 DEF Server_sends, TypeOK, ServerType
      <3> QED
        BY <2>3, <3>1 DEF Server_sends, TypeOK, ClientType, ServerType, c_env
    <2>4. CASE Server_closes
      BY <2>4 DEF Server_closes, TypeOK, ClientType, ServerType, c_env
    <2> QED
      BY <2>1, <2>2, <2>3, <2>4 DEF PeerNext
  <1>4. Wiring'
    BY <1>1, WiringUnchanged
  <1> QED
    BY <1>2, <1>3, <1>4 DEF TypeOK

-----------------------------------------------------------------------------
(* The inductive invariant: the type invariant needs the wiring (a handler *)
(* computes with a queue only because it is not NULL), the wiring needs    *)
(* the types.                                                              *)
Inv == TypeOK /\ Wiring

LEMMA InitInv == Init => Inv
  <1> SUFFICES ASSUME Init PROVE Inv
    OBVIOUS
  <1>1. ControlType
    BY StartOfMsg DEF Init, ControlType, Events
  <1>2. QueueType
    BY EmptyQueue DEF Init, QueueType
  <1>3. FileType
    BY EmptyFileType DEF Init, FileType
  <1>4. ClientType /\ ServerType /\ GhostType
    BY DEF Init, ClientType, ServerType, GhostType
  <1>5. Wiring
    <2>1. history # NULL
      BY EmptyQueue DEF Init
    <2> QED
      BY <2>1 DEF Init, Wiring, Wired, WiredFast, Watched, Backpressure,
         ServerOnlyWhenClientPaused
  <1> QED
    BY <1>1, <1>2, <1>3, <1>4, <1>5 DEF Inv, TypeOK

LEMMA StepInv == Inv /\ [Next]_vars => Inv'
  <1> SUFFICES ASSUME TypeOK, Wiring, [Next]_vars PROVE TypeOK' /\ Wiring'
    BY DEF Inv
  <1>1. CASE FastNext
    BY <1>1, UnreachableKeeps, ClientReadableFastKeeps, ServerReadableFastKeeps,
       ReplyOnlyWritableKeeps, ClientWritableFastKeeps, ServerWritableFastKeeps
       DEF FastNext
  <1>2. CASE TransitionNext
    BY <1>2, SlowIdleKeeps, SlowBusyKeeps, TransitionReadKeeps, TransitionEndsKeeps,
       TransitionWriteKeeps DEF TransitionNext
  <1>3. CASE SlowNext \/ Monitor_drop
    BY <1>3, ClientClosedSlowKeeps, ClientReadableSlowKeeps, SendResponseKeeps,
       ServerReadableSlowKeeps, SendRequestKeeps DEF SlowNext
  <1>4. CASE PeerNext
    BY <1>4, PeersKeep
  <1>5. CASE UNCHANGED vars
    <2>1. UNCHANGED <<control, queues, files, c_env, s_env, ghosts>>
      BY <1>5 DEF vars
    <2>2. Wiring'
      BY <2>1, WiringUnchanged
    <2>3. TypeOK'
      BY <2>1 DEF TypeOK, ControlType, QueueType, FileType, ClientType, ServerType,
         GhostType, control, queues, files, c_env, s_env, ghosts
    <2> QED
      BY <2>2, <2>3
  <1> QED
    BY <1>1, <1>2, <1>3, <1>4, <1>5 DEF Next

(* Queues never exceed the circular buffer's capacity and file offsets     *)
(* never pass a file's end, in every reachable state.                      *)
THEOREM TypeCorrect == Spec => []TypeOK
  <1>1. Inv => TypeOK
    BY DEF Inv
  <1> QED
    BY <1>1, InitInv, StepInv, PTL DEF Spec

(* Whatever the interleaving of callbacks, mode switches and peers, every  *)
(* object a callback uses exists and mode, parser, server, queues and      *)
(* events fit together.                                                    *)
THEOREM WiredCorrect == Spec => []Wired
  <1>1. Inv => Wired
    BY DEF Inv, Wiring
  <1> QED
    BY <1>1, InitInv, StepInv, PTL DEF Spec

(* An open connection is never orphaned: it always has an added event, and *)
(* no event of a freed server stays added.                                 *)
THEOREM WatchedCorrect == Spec => []Watched
  <1>1. Inv => Watched
    BY DEF Inv, Wiring
  <1> QED
    BY <1>1, InitInv, StepInv, PTL DEF Spec

(* Fast mode's flow control never stops reading from a source without      *)
(* waiting for the sink, and never does both.                              *)
THEOREM BackpressureCorrect == Spec => []Backpressure
  <1>1. Inv => Backpressure
    BY DEF Inv, Wiring
  <1> QED
    BY <1>1, InitInv, StepInv, PTL DEF Spec

(* The assertion of Client::recv_to_buffer_slowly holds: out of fast mode  *)
(* a server exists only while the client is paused.                        *)
THEOREM PausedCorrect == Spec => []ServerOnlyWhenClientPaused
  <1>1. Inv => ServerOnlyWhenClientPaused
    BY DEF Inv, Wiring
  <1> QED
    BY <1>1, InitInv, StepInv, PTL DEF Spec

-----------------------------------------------------------------------------
(* From here on the assumptions are cited where they are needed. *)
HIDE NullAssumption
HIDE SizeAssumption

-----------------------------------------------------------------------------
(* Sequences and files: elements, ranges, and the unread part of a file. *)

LEMMA RangeEmpty == Range(<<>>) = {}
  BY DEF Range

LEMMA RangeConcat ==
    ASSUME NEW s \in Seq(Int), NEW t \in Seq(Int)
    PROVE  Range(s \o t) = Range(s) \union Range(t)
  <1> DEFINE u == s \o t
  <1>1. /\ Len(s) \in Nat /\ Len(t) \in Nat /\ Len(u) = Len(s) + Len(t)
        /\ \A i \in 1..Len(s) : u[i] = s[i]
        /\ \A i \in 1..Len(t) : u[Len(s) + i] = t[i]
    OBVIOUS
  <1> HIDE DEF u
  <1>2. ASSUME NEW i \in 1..Len(u) PROVE u[i] \in Range(s) \union Range(t)
    <2>1. CASE i <= Len(s)
      <3>1. i \in 1..Len(s)
        BY <2>1, <1>1
      <3>2. u[i] = s[i]
        BY <3>1, <1>1
      <3> QED
        BY <3>1, <3>2 DEF Range
    <2>2. CASE ~(i <= Len(s))
      <3>1. i - Len(s) \in 1..Len(t) /\ Len(s) + (i - Len(s)) = i
        BY <2>2, <1>1
      <3>2. u[i] = t[i - Len(s)]
        BY <3>1, <1>1
      <3> QED
        BY <3>1, <3>2 DEF Range
    <2> QED
      BY <2>1, <2>2
  <1>3. ASSUME NEW i \in 1..Len(s) PROVE s[i] \in Range(u)
    <2>1. i \in 1..Len(u)
      BY <1>1
    <2> QED
      BY <2>1, <1>1 DEF Range
  <1>4. ASSUME NEW i \in 1..Len(t) PROVE t[i] \in Range(u)
    <2>1. Len(s) + i \in 1..Len(u)
      BY <1>1
    <2> QED
      BY <2>1, <1>1 DEF Range
  <1>5. Range(u) = Range(s) \union Range(t)
    <2>1. Range(u) \subseteq Range(s) \union Range(t)
      BY <1>2 DEF Range
    <2>2. Range(s) \subseteq Range(u) /\ Range(t) \subseteq Range(u)
      BY <1>3, <1>4 DEF Range
    <2> QED
      BY <2>1, <2>2
  <1> QED
    BY <1>5 DEF u

LEMMA SeqEqual ==
    ASSUME NEW s \in Seq(Int), NEW t \in Seq(Int), Len(s) = Len(t),
           \A i \in 1..Len(s) : s[i] = t[i]
    PROVE  s = t
  BY SMTT(20)

LEMMA ConcatElements ==
    ASSUME NEW s \in Seq(Int), NEW t \in Seq(Int)
    PROVE  /\ s \o t \in Seq(Int) /\ Len(s \o t) = Len(s) + Len(t)
           /\ \A i \in 1..Len(s) : (s \o t)[i] = s[i]
           /\ \A i \in 1..Len(t) : (s \o t)[Len(s) + i] = t[i]
  OBVIOUS

LEMMA ConcatAssoc ==
    ASSUME NEW s \in Seq(Int), NEW t \in Seq(Int), NEW u \in Seq(Int)
    PROVE  (s \o t) \o u = s \o (t \o u)
  <1> DEFINE a == s \o t
             b == t \o u
             x == a \o u
             y == s \o b
  <1>1. /\ a \in Seq(Int) /\ Len(a) = Len(s) + Len(t)
        /\ \A i \in 1..Len(s) : a[i] = s[i]
        /\ \A i \in 1..Len(t) : a[Len(s) + i] = t[i]
    BY ConcatElements
  <1>2. /\ b \in Seq(Int) /\ Len(b) = Len(t) + Len(u)
        /\ \A i \in 1..Len(t) : b[i] = t[i]
        /\ \A i \in 1..Len(u) : b[Len(t) + i] = u[i]
    BY ConcatElements
  <1> HIDE DEF a, b
  <1>3. /\ x \in Seq(Int) /\ Len(x) = Len(a) + Len(u)
        /\ \A i \in 1..Len(a) : x[i] = a[i]
        /\ \A i \in 1..Len(u) : x[Len(a) + i] = u[i]
    BY <1>1, ConcatElements
  <1>4. /\ y \in Seq(Int) /\ Len(y) = Len(s) + Len(b)
        /\ \A i \in 1..Len(s) : y[i] = s[i]
        /\ \A i \in 1..Len(b) : y[Len(s) + i] = b[i]
    BY <1>2, ConcatElements
  <1> HIDE DEF x, y
  <1>5. Len(s) \in Nat /\ Len(t) \in Nat /\ Len(u) \in Nat
    OBVIOUS
  <1>6. Len(x) = Len(y) /\ Len(x) = Len(s) + Len(t) + Len(u)
    BY <1>1, <1>2, <1>3, <1>4, <1>5
  <1>7. ASSUME NEW i \in 1..Len(x) PROVE x[i] = y[i]
    <2>0. i \in Nat /\ i >= 1 /\ i <= Len(s) + Len(t) + Len(u)
      BY <1>5, <1>6
    <2>1. CASE i <= Len(s)
      <3>1. i \in 1..Len(s) /\ i \in 1..Len(a)
        BY <2>0, <2>1, <1>1, <1>5
      <3> QED
        BY <3>1, <1>1, <1>3, <1>4
    <2>2. CASE i > Len(s) /\ i <= Len(s) + Len(t)
      <3> DEFINE j == i - Len(s)
      <3>1. j \in 1..Len(t) /\ j \in 1..Len(b) /\ i = Len(s) + j /\ i \in 1..Len(a)
        BY <2>0, <2>2, <1>1, <1>2, <1>5
      <3> HIDE DEF j
      <3>2. x[i] = a[Len(s) + j] /\ a[Len(s) + j] = t[j]
        BY <3>1, <1>1, <1>3
      <3>3. y[i] = b[j] /\ b[j] = t[j]
        BY <3>1, <1>2, <1>4
      <3> QED
        BY <3>2, <3>3
    <2>3. CASE i > Len(s) + Len(t)
      <3> DEFINE j == i - (Len(s) + Len(t))
      <3>1. /\ j \in 1..Len(u) /\ i = Len(a) + j /\ Len(t) + j \in 1..Len(b)
            /\ i = Len(s) + (Len(t) + j)
        BY <2>0, <2>3, <1>1, <1>2, <1>5
      <3> HIDE DEF j
      <3>2. x[i] = u[j]
        BY <3>1, <1>3
      <3>3. y[i] = b[Len(t) + j] /\ b[Len(t) + j] = u[j]
        BY <3>1, <1>2, <1>4
      <3> QED
        BY <3>2, <3>3
    <2> QED
      BY <2>0, <2>1, <2>2, <2>3, <1>5
  <1>8. x = y
    BY <1>3, <1>4, <1>6, <1>7, SeqEqual
  <1> QED
    BY <1>8 DEF x, y, a, b

LEMMA SubSeqElements ==
    ASSUME NEW s \in Seq(Int), NEW a \in 0..Len(s), NEW b \in a..Len(s), NEW i \in 1..(b - a)
    PROVE  SubSeq(s, a + 1, b)[i] = s[a + i]
  <1>1. /\ a + 1 \in Int /\ b \in Int /\ i \in Int /\ (a + 1) + i - 1 = a + i
        /\ i \in 1..(b - (a + 1) + 1) /\ a + 1 <= b
    OBVIOUS
  <1> QED
    BY <1>1

LEMMA FirstElements ==
    ASSUME NEW s \in Seq(Int), NEW n \in 0..Len(s)
    PROVE  \A i \in 1..n : First(s, n)[i] = s[i]
  BY DEF First

LEMMA RestElements ==
    ASSUME NEW s \in Seq(Int), NEW n \in 0..Len(s)
    PROVE  \A i \in 1..(Len(s) - n) : Rest(s, n)[i] = s[n + i]
  BY DEF Rest

LEMMA Split ==
    ASSUME NEW s \in Seq(Int), NEW n \in 0..Len(s)
    PROVE  First(s, n) \o Rest(s, n) = s
  <1> DEFINE a == First(s, n)
             b == Rest(s, n)
             t == a \o b
  <1>1. /\ a \in Seq(Int) /\ Len(a) = n /\ b \in Seq(Int) /\ Len(b) = Len(s) - n
        /\ \A i \in 1..n : a[i] = s[i]
        /\ \A i \in 1..(Len(s) - n) : b[i] = s[n + i]
    BY FirstType, RestType, FirstElements, RestElements
  <1>2. Len(s) \in Nat /\ n \in Nat /\ n <= Len(s)
    OBVIOUS
  <1> HIDE DEF a, b
  <1>3. /\ t \in Seq(Int) /\ Len(t) = Len(a) + Len(b)
        /\ \A i \in 1..Len(a) : t[i] = a[i]
        /\ \A i \in 1..Len(b) : t[Len(a) + i] = b[i]
    BY <1>1, ConcatElements
  <1> HIDE DEF t
  <1>4. Len(t) = Len(s)
    BY <1>1, <1>2, <1>3
  <1>5. ASSUME NEW i \in 1..Len(s) PROVE t[i] = s[i]
    <2>1. CASE i <= n
      <3>1. i \in 1..n
        BY <2>1, <1>2
      <3> QED
        BY <3>1, <1>1, <1>3
    <2>2. CASE ~(i <= n)
      <3>1. i - n \in 1..(Len(s) - n) /\ n + (i - n) = i
        BY <2>2, <1>2
      <3>2. t[n + (i - n)] = b[i - n] /\ b[i - n] = s[n + (i - n)]
        BY <3>1, <1>1, <1>3
      <3> QED
        BY <3>1, <3>2
    <2> QED
      BY <2>1, <2>2
  <1>6. t = s
    BY <1>3, <1>4, <1>5, SeqEqual
  <1> QED
    BY <1>6 DEF t, a, b

LEMMA RangeSplit ==
    ASSUME NEW s \in Seq(Int), NEW n \in 0..Len(s)
    PROVE  Range(First(s, n)) \union Range(Rest(s, n)) = Range(s)
  BY FirstType, RestType, Split, RangeConcat

LEMMA RangeReadAll ==
    ASSUME NEW s \in Seq(Int), NEW max \in Nat
    PROVE  /\ Range(ReadAll(s, max)) \subseteq Range(s)
           /\ Range(Rest(s, Len(ReadAll(s, max)))) \subseteq Range(s)
  <1>1. MinOf(Len(s), max) \in 0..Len(s)
    BY DEF MinOf
  <1>2. Len(ReadAll(s, max)) = MinOf(Len(s), max)
    BY <1>1, FirstType DEF ReadAll
  <1> QED
    BY <1>1, <1>2, RangeSplit DEF ReadAll

LEMMA UnreadType ==
    ASSUME NEW f \in Files
    PROVE  /\ Unread(f) = Rest(f.data, f.pos) /\ Unread(f) \in Seq(Int)
           /\ Len(Unread(f)) = Len(f.data) - f.pos
           /\ Range(Unread(f)) \subseteq Range(f.data)
  <1>1. f.data \in Seq(Int) /\ f.pos \in 0..Len(f.data)
    BY DEF Files
  <1>2. Unread(f) = Rest(f.data, f.pos)
    BY DEF Unread, Rest
  <1> QED
    BY <1>1, <1>2, RestType, RangeSplit

LEMMA UnreadEmpty == Unread(EmptyFile) = <<>> /\ EmptyFile.data = <<>>
  <1>1. EmptyFile.data = <<>> /\ EmptyFile.pos = 0
    BY DEF EmptyFile
  <1> QED
    BY <1>1 DEF Unread

LEMMA UnreadStoreLast ==
    ASSUME NEW f \in Files, NEW d \in Seq(Int)
    PROVE  /\ Unread(StoreLast(f, d)) = Unread(f) \o d
           /\ Range(StoreLast(f, d).data) = Range(f.data) \union Range(d)
  <1>1. f.data \in Seq(Int) /\ f.pos \in Nat /\ f.pos <= Len(f.data)
    BY DEF Files
  <1>2. StoreLast(f, d).data = f.data \o d /\ StoreLast(f, d).pos = f.pos
    BY DEF StoreLast
  <1>3. ASSUME NEW s \in Seq(Int), NEW p \in Nat, p <= Len(s)
        PROVE  Rest(s \o d, p) = Rest(s, p) \o d
    <2> DEFINE t == s \o d
               u == Rest(t, p)
               v == Rest(s, p)
               x == v \o d
    <2>1. /\ t \in Seq(Int) /\ Len(t) = Len(s) + Len(d)
          /\ \A i \in 1..Len(s) : t[i] = s[i]
          /\ \A i \in 1..Len(d) : t[Len(s) + i] = d[i]
      BY ConcatElements
    <2>2. p \in 0..Len(s) /\ Len(s) \in Nat /\ Len(d) \in Nat
      BY <1>3
    <2> HIDE DEF t
    <2>3. p \in 0..Len(t)
      BY <2>1, <2>2
    <2>4. /\ u \in Seq(Int) /\ Len(u) = Len(t) - p
          /\ \A i \in 1..(Len(t) - p) : u[i] = t[p + i]
      BY <2>1, <2>3, RestType, RestElements
    <2>5. /\ v \in Seq(Int) /\ Len(v) = Len(s) - p
          /\ \A i \in 1..(Len(s) - p) : v[i] = s[p + i]
      BY <2>2, RestType, RestElements
    <2> HIDE DEF u, v
    <2>6. /\ x \in Seq(Int) /\ Len(x) = Len(v) + Len(d)
          /\ \A i \in 1..Len(v) : x[i] = v[i]
          /\ \A i \in 1..Len(d) : x[Len(v) + i] = d[i]
      BY <2>5, ConcatElements
    <2> HIDE DEF x
    <2>7. Len(u) = Len(x)
      BY <2>1, <2>2, <2>4, <2>5, <2>6
    <2>8. ASSUME NEW i \in 1..Len(u) PROVE u[i] = x[i]
      <3>0. i \in 1..(Len(t) - p) /\ i \in Int
        BY <2>4, <2>1, <2>2
      <3>1. CASE i <= Len(s) - p
        <4>1. i \in 1..(Len(s) - p) /\ p + i \in 1..Len(s)
          BY <3>0, <3>1, <2>2
        <4> QED
          BY <3>0, <4>1, <2>1, <2>4, <2>5, <2>6
      <3>2. CASE ~(i <= Len(s) - p)
        <4> DEFINE j == i - (Len(s) - p)
        <4>1. j \in 1..Len(d) /\ p + i = Len(s) + j /\ i = (Len(s) - p) + j
          BY <3>0, <3>2, <2>1, <2>2
        <4> HIDE DEF j
        <4>2. u[i] = t[Len(s) + j] /\ t[Len(s) + j] = d[j]
          BY <3>0, <4>1, <2>1, <2>4
        <4>3. x[Len(v) + j] = d[j] /\ Len(v) + j = i
          BY <4>1, <2>5, <2>6
        <4> QED
          BY <4>2, <4>3
      <3> QED
        BY <3>1, <3>2
    <2>9. u = x
      BY <2>4, <2>6, <2>7, <2>8, SeqEqual
    <2> QED
      BY <2>9 DEF u, v, x, t
  <1>4. Unread(StoreLast(f, d)) = Unread(f) \o d
    <2>1. StoreLast(f, d) \in Files
      BY StoreLastType
    <2>2. Unread(StoreLast(f, d)) = Rest(f.data \o d, f.pos) /\ Unread(f) = Rest(f.data, f.pos)
      BY <2>1, <1>2, UnreadType
    <2>3. Rest(f.data \o d, f.pos) = Rest(f.data, f.pos) \o d
      BY <1>1, <1>3
    <2> QED
      BY <2>2, <2>3
  <1> QED
    BY <1>1, <1>2, <1>4, RangeConcat

(* A fetch returns a beginning of what is unread, and nothing only when    *)
(* there is nothing.                                                       *)
LEMMA FetchedIsFirst ==
    ASSUME NEW f \in Files, NEW max \in Nat
    PROVE  /\ Fetched(f, max) = First(Unread(f), MinOf(Len(Unread(f)), max))
           /\ Len(Fetched(f, max)) = MinOf(Len(Unread(f)), max)
           /\ MinOf(Len(Unread(f)), max) \in 0..Len(Unread(f))
           /\ Range(Fetched(f, max)) \subseteq Range(Unread(f))
  <1> DEFINE s == f.data
             p == f.pos
             u == Unread(f)
             n == MinOf(Len(u), max)
             r == Fetched(f, max)
             l == IF p + max < Len(s) THEN p + max ELSE Len(s)
  <1>1. s \in Seq(Int) /\ p \in Nat /\ Len(s) \in Nat /\ p <= Len(s)
    BY DEF Files
  <1>2. u = Rest(s, p) /\ u \in Seq(Int) /\ Len(u) = Len(s) - p
    BY UnreadType
  <1>3. r = SubSeq(s, p + 1, l)
    BY DEF Fetched
  <1> HIDE DEF s, p, u, r
  <1>4. n \in 0..Len(u) /\ l = p + n /\ l \in p..Len(s)
    BY <1>1, <1>2 DEF MinOf
  <1> HIDE DEF l, n
  <1>5. r \in Seq(Int) /\ Len(r) = n
    BY <1>1, <1>3, <1>4, SubSeqType
  <1>6. \A i \in 1..n : r[i] = s[p + i]
    <2>1. p + 1 \in 1..(Len(s) + 1) /\ l \in 0..Len(s) /\ n \in Nat /\ n = l - p
      BY <1>1, <1>2, <1>4
    <2>2. p \in 0..Len(s)
      BY <1>1
    <2>3. ASSUME NEW i \in 1..n PROVE SubSeq(s, p + 1, l)[i] = s[p + i]
      <3>1. i \in 1..(l - p)
        BY <2>1
      <3> QED
        BY <3>1, <1>1, <1>4, <2>2, SubSeqElements
    <2> QED
      BY <1>3, <2>3
  <1>7. /\ First(u, n) \in Seq(Int) /\ Len(First(u, n)) = n
        /\ \A i \in 1..n : First(u, n)[i] = u[i]
    BY <1>2, <1>4, FirstType, FirstElements
  <1>8. \A i \in 1..n : u[i] = s[p + i]
    <2>1. p \in 0..Len(s)
      BY <1>1
    <2>2. \A i \in 1..(Len(s) - p) : u[i] = s[p + i]
      BY <1>1, <1>2, <2>1, RestElements
    <2>3. 1..n \subseteq 1..(Len(s) - p)
      BY <1>1, <1>2, <1>4
    <2> QED
      BY <2>2, <2>3
  <1>9. r = First(u, n)
    BY <1>5, <1>6, <1>7, <1>8, SeqEqual
  <1>10. Range(r) \subseteq Range(u)
    BY <1>2, <1>4, <1>9, RangeSplit
  <1> QED
    BY <1>4, <1>5, <1>9, <1>10 DEF n, u, r

LEMMA FetchedNothing ==
    ASSUME NEW f \in Files, Fetched(f, BufSize) = <<>>
    PROVE  Unread(f) = <<>>
  <1>1. BufSize \in Nat /\ BufSize > 0
    BY SizeAssumption
  <1>2. MinOf(Len(Unread(f)), BufSize) = 0
    BY <1>1, FetchedIsFirst
  <1>3. Unread(f) \in Seq(Int) /\ Len(Unread(f)) \in Nat
    BY UnreadType
  <1>4. Len(Unread(f)) = 0
    BY <1>1, <1>2, <1>3 DEF MinOf
  <1> QED
    BY <1>3, <1>4

(* Passing on w of the fetched elements moves them from what is unread to  *)
(* the sink.                                                               *)
LEMMA UnreadAdvance ==
    ASSUME NEW f \in Files, NEW w \in 0..Len(Fetched(f, BufSize))
    PROVE  LET d == Fetched(f, BufSize)
           IN  /\ First(d, w) = First(Unread(f), w) /\ w \in 0..Len(Unread(f))
               /\ Unread(Advance(f, Len(d), w)) = Rest(Unread(f), w)
               /\ Range(First(d, w)) \union Range(Unread(Advance(f, Len(d), w))) = Range(Unread(f))
  <1> DEFINE d == Fetched(f, BufSize)
             u == Unread(f)
             g == Advance(f, Len(d), w)
             n == MinOf(Len(u), BufSize)
  <1>1. BufSize \in Nat /\ BufSize > 0
    BY SizeAssumption
  <1>2. /\ d = First(u, n) /\ Len(d) = n /\ n \in 0..Len(u)
        /\ u \in Seq(Int) /\ Len(u) = Len(f.data) - f.pos
    BY <1>1, FetchedIsFirst, UnreadType
  <1>3. f.data \in Seq(Int) /\ f.pos \in Nat /\ f.pos <= Len(f.data) /\ Len(f.data) \in Nat
    BY DEF Files
  <1>4. w \in 0..Len(d)
    OBVIOUS
  <1> HIDE DEF d, u, n
  <1>5. w \in 0..n /\ w \in 0..Len(u) /\ w \in 0..(Len(f.data) - f.pos) /\ Len(d) \in Nat
        /\ w \in Nat
    BY <1>2, <1>3, <1>4
  <1>6. g \in Files
    BY <1>5, AdvanceType
  <1>7. g.data = f.data /\ g.pos = f.pos + w
    <2>1. (f.pos + Len(d)) - (Len(d) - w) = f.pos + w
      BY <1>3, <1>5
    <2> QED
      BY <2>1 DEF Advance
  <1> HIDE DEF g
  <1>8. First(d, w) = First(u, w)
    <2>1. /\ d \in Seq(Int) /\ \A i \in 1..n : d[i] = u[i]
      BY <1>2, FirstType, FirstElements
    <2>2. /\ First(d, w) \in Seq(Int) /\ Len(First(d, w)) = w
          /\ \A i \in 1..w : First(d, w)[i] = d[i]
      BY <2>1, <1>4, FirstType, FirstElements
    <2>3. /\ First(u, w) \in Seq(Int) /\ Len(First(u, w)) = w
          /\ \A i \in 1..w : First(u, w)[i] = u[i]
      BY <1>2, <1>5, FirstType, FirstElements
    <2>4. 1..w \subseteq 1..n
      BY <1>2, <1>5
    <2> QED
      BY <2>1, <2>2, <2>3, <2>4, SeqEqual
  <1>9. Unread(g) = Rest(u, w)
    <2>1. /\ Unread(g) = Rest(f.data, f.pos + w) /\ Unread(g) \in Seq(Int)
          /\ Len(Unread(g)) = Len(f.data) - (f.pos + w)
      BY <1>6, <1>7, UnreadType
    <2>2. f.pos + w \in 0..Len(f.data) /\ f.pos \in 0..Len(f.data)
      BY <1>3, <1>5
    <2>3. \A i \in 1..(Len(f.data) - (f.pos + w)) : Unread(g)[i] = f.data[(f.pos + w) + i]
      BY <1>3, <2>1, <2>2, RestElements
    <2>4. /\ Rest(u, w) \in Seq(Int) /\ Len(Rest(u, w)) = Len(u) - w
          /\ \A i \in 1..(Len(u) - w) : Rest(u, w)[i] = u[w + i]
      BY <1>2, <1>5, RestType, RestElements
    <2>5. u = Rest(f.data, f.pos)
      BY UnreadType DEF u
    <2>6. \A i \in 1..(Len(f.data) - f.pos) : u[i] = f.data[f.pos + i]
      BY <1>3, <2>2, <2>5, RestElements
    <2>7. Len(u) - w = Len(f.data) - (f.pos + w)
      BY <1>2, <1>3, <1>5
    <2>8. ASSUME NEW i \in 1..(Len(u) - w) PROVE Unread(g)[i] = Rest(u, w)[i]
      <3>1. w + i \in 1..(Len(f.data) - f.pos) /\ f.pos + (w + i) = (f.pos + w) + i
        <4>1. i \in Nat /\ i >= 1 /\ i <= Len(u) - w
          BY <1>2, <1>3, <1>5
        <4>2. Len(u) = Len(f.data) - f.pos
          BY <1>2
        <4>3. w + i \in Nat /\ w + i <= Len(f.data) - f.pos
          BY <4>1, <4>2, <1>3, <1>5
        <4> QED
          BY <4>1, <4>3, <1>3, <1>5
      <3>2. u[w + i] = f.data[f.pos + (w + i)]
        BY <3>1, <2>6
      <3>3. Unread(g)[i] = f.data[(f.pos + w) + i]
        BY <2>3, <2>7
      <3> QED
        BY <3>1, <3>2, <3>3, <2>4
    <2> QED
      BY <2>1, <2>4, <2>7, <2>8, SeqEqual
  <1>10. Range(First(d, w)) \union Range(Unread(g)) = Range(u)
    BY <1>2, <1>5, <1>8, <1>9, RangeSplit
  <1> QED
    BY <1>5, <1>8, <1>9, <1>10 DEF d, g, u
-----------------------------------------------------------------------------
(* The kinds of steps an open connection takes, by what happens to the     *)
(* response.                                                               *)

(* The connection ends; the last write may have passed on what was held or *)
(* just read.                                                              *)
Ended ==
    /\ status' # "open"
    /\ Range(c_out') \subseteq Range(c_out) \union Range(Held) \union Range(s_sock)

(* The connection ends with the 503 page. *)
Refused ==
    /\ status' = "closed"
    /\ c_out' = c_out \o <<Page503>> /\ got' = got
    /\ mishaps \subseteq mishaps'
    /\ Held = <<>> \/ "interjected" \in mishaps'

(* The response is not touched, unless what is read is cut off. *)
Quiet ==
    /\ status' = "open" /\ (mode' = "fast" <=> mode = "fast")
    /\ c_out' = c_out /\ response_buf' = response_buf
    /\ c_queue' = c_queue \/ (c_queue = NULL /\ c_queue' = <<>>)
    /\ got' = got \/ "cut" \in mishaps'
    /\ mishaps \subseteq mishaps'
    /\ mode = "fast" \/ Unread(response_buf) = <<>> \/ "c_write" \notin pending
       \/ "c_write" \in pending'

(* Fast mode: d is read, and some of what is queued is written. *)
Forwarded(d) ==
    /\ status' = "open" /\ mode = "fast" /\ mode' = "fast"
    /\ c_queue # NULL /\ response_buf' = response_buf /\ mishaps' = mishaps
    /\ Range(d) \subseteq Range(s_sock) /\ got' = got \union Range(d)
    /\ \E w \in 0..Len(c_queue \o d) :
         c_out' = c_out \o First(c_queue \o d, w) /\ c_queue' = Rest(c_queue \o d, w)

(* The two branches of set_slow_mode. *)
SwitchedIdle ==
    /\ status' = "open" /\ mode = "fast" /\ mode' = "slow"
    /\ c_out' = c_out /\ got' = got /\ c_queue' = c_queue /\ response_buf' = response_buf
    /\ mishaps \subseteq mishaps' /\ (c_queue = NULL \/ "revived" \in mishaps')

SwitchedBusy ==
    /\ status' = "open" /\ mode = "fast" /\ mode' = "transition"
    /\ c_out' = c_out /\ got' = got
    /\ c_queue # NULL /\ c_queue' = NULL /\ response_buf' = StoreLast(EmptyFile, c_queue)
    /\ mishaps \subseteq mishaps'
    /\ c_queue = <<>> \/ "c_write" \in pending' \/ "stranded" \in mishaps'

(* Out of fast mode: d is read and stored. *)
Stored(d) ==
    /\ status' = "open" /\ mode # "fast" /\ mode' # "fast"
    /\ c_out' = c_out /\ c_queue' = c_queue /\ response_buf' = StoreLast(response_buf, d)
    /\ Range(d) \subseteq Range(s_sock) /\ got' = got \union Range(d)
    /\ mishaps \subseteq mishaps' /\ "c_write" \in pending'

(* Out of fast mode: w stored tokens are written. *)
Written(w) ==
    /\ status' = "open" /\ mode # "fast" /\ mode' = mode
    /\ response_buf' = Advance(response_buf, Len(Fetched(response_buf, BufSize)), w)
    /\ c_out' = c_out \o First(Fetched(response_buf, BufSize), w)
    /\ got' = got /\ c_queue' = c_queue /\ mishaps' = mishaps /\ "c_write" \in pending'

DataStep ==
    \/ Ended
    \/ Refused
    \/ Quiet
    \/ \E d \in Seq(Int) : Forwarded(d)
    \/ SwitchedIdle
    \/ SwitchedBusy
    \/ \E d \in Seq(Int) : Stored(d)
    \/ \E w \in 0..Len(Fetched(response_buf, BufSize)) : Written(w)

(* The server's socket only ever receives positive tokens. *)
SockStep == Range(s_sock') \subseteq Range(s_sock) \union Nat

-----------------------------------------------------------------------------
(* The invariant.  Fast mode keeps nothing in response_buf, and no token   *)
(* the proxy holds is the page.                                            *)
PageFree(s) == Page503 \notin Range(s)
FastEmpty == status = "open" /\ mode = "fast" => response_buf = EmptyFile
NoPageHeld ==
    status = "open" =>
        /\ PageFree(s_sock) /\ PageFree(c_out) /\ PageFree(response_buf.data)
        /\ c_queue # NULL => PageFree(c_queue)

DataInv ==
    /\ FastEmpty /\ NoPageHeld
    /\ KeptUnlessCut /\ UnsentIsScheduledOnceStored /\ PageComesLast

(* What TypeOK says of the response data. *)
ResponseTypes ==
    /\ s_sock \in Seq(Int) /\ c_out \in Seq(Int) /\ response_buf \in Files
    /\ c_queue # NULL => c_queue \in Seq(Int)
    /\ Held \in Seq(Int)

LEMMA ResponseTyped == ASSUME TypeOK PROVE ResponseTypes
  <1>1. /\ s_sock \in Seq(Int) /\ c_out \in Seq(Int) /\ response_buf \in Files
        /\ c_queue # NULL => c_queue \in Seq(Int)
    BY QueueIsSeq DEF TypeOK, ServerType, GhostType, FileType, QueueType
  <1>2. <<>> \in Seq(Int) /\ Unread(response_buf) \in Seq(Int)
    BY <1>1, UnreadType
  <1> QED
    BY <1>1, <1>2 DEF ResponseTypes, Held

(* Where no page is in c_out, PageComesLast holds. *)
LEMMA NoPageYet == ASSUME PageFree(c_out) PROVE PageComesLast
  BY DEF PageFree, PageComesLast, Range

LEMMA NoPageYetNext == ASSUME PageFree(c_out') PROVE PageComesLast'
  BY DEF PageFree, PageComesLast, Range

(* With the connection gone, only PageComesLast says anything. *)
LEMMA GoneKeeps ==
    ASSUME status' # "open", PageComesLast'
    PROVE  DataInv'
  BY DEF DataInv, FastEmpty, NoPageHeld, KeptUnlessCut, NothingReadIsLost,
     UnsentIsScheduledOnceStored, UnsentIsScheduled

LEMMA HeldIsPageFree ==
    ASSUME ResponseTypes, DataInv, status = "open"
    PROVE  PageFree(Held) /\ PageFree(Unread(response_buf))
  <1>1. PageFree(<<>>)
    BY RangeEmpty DEF PageFree
  <1>2. PageFree(Unread(response_buf))
    BY UnreadType DEF ResponseTypes, DataInv, NoPageHeld, PageFree
  <1>3. c_queue # NULL => PageFree(c_queue)
    BY DEF DataInv, NoPageHeld
  <1> QED
    BY <1>1, <1>2, <1>3 DEF Held

LEMMA EndedKeeps ==
    ASSUME ResponseTypes, DataInv, status = "open", Ended
    PROVE  DataInv'
  <1>1. PageFree(c_out) /\ PageFree(s_sock) /\ PageFree(Held)
    BY HeldIsPageFree DEF DataInv, NoPageHeld
  <1>2. PageFree(c_out')
    BY <1>1 DEF Ended, PageFree
  <1> QED
    BY <1>2, NoPageYetNext, GoneKeeps DEF Ended

LEMMA RefusedKeeps ==
    ASSUME ResponseTypes, DataInv, status = "open", Refused
    PROVE  DataInv'
  <1>1. c_out \in Seq(Int) /\ <<Page503>> \in Seq(Int) /\ Len(<<Page503>>) = 1
    BY DEF ResponseTypes, Page503
  <1>2. /\ Len(c_out') = Len(c_out) + 1 /\ Len(c_out) \in Nat
        /\ \A i \in 1..Len(c_out) : c_out'[i] = c_out[i]
    BY <1>1, ConcatElements DEF Refused
  <1>3. ASSUME NEW i \in 1..Len(c_out'), c_out'[i] = Page503 PROVE i = Len(c_out')
    <2>1. ASSUME i <= Len(c_out) PROVE FALSE
      <3>1. i \in 1..Len(c_out)
        BY <2>1, <1>2
      <3>2. c_out[i] = Page503
        BY <3>1, <1>2, <1>3
      <3> QED
        BY <3>1, <3>2 DEF DataInv, NoPageHeld, PageFree, Range
    <2> QED
      BY <2>1, <1>2
  <1>4. ASSUME mishaps' \intersect {"cut", "revived", "interjected"} = {}
        PROVE  got' \subseteq Range(c_out')
    <2>1. Held = <<>> /\ mishaps \intersect {"cut", "revived"} = {}
      BY <1>4 DEF Refused
    <2>2. got = Range(c_out) \union Range(Held)
      BY <2>1 DEF DataInv, KeptUnlessCut, NothingReadIsLost
    <2>3. Range(c_out') = Range(c_out) \union Range(<<Page503>>)
      BY <1>1, RangeConcat DEF Refused
    <2> QED
      BY <2>1, <2>2, <2>3, RangeEmpty DEF Refused
  <1>5. PageComesLast'
    BY <1>3, <1>4 DEF PageComesLast, Refused
  <1> QED
    BY <1>5, GoneKeeps DEF Refused

(* NoPageHeld and PageComesLast after a step that leaves the connection    *)
(* open.                                                                   *)
LEMMA PageFreeKeeps ==
    ASSUME SockStep, DataInv, status = "open", PageFree(c_out'), PageFree(response_buf'.data),
           c_queue' # NULL => PageFree(c_queue')
    PROVE  NoPageHeld' /\ PageComesLast'
  <1>1. PageFree(s_sock')
    <2>1. Page503 \notin Nat
      BY DEF Page503
    <2> QED
      BY <2>1 DEF SockStep, DataInv, NoPageHeld, PageFree
  <1> QED
    BY <1>1, NoPageYetNext DEF NoPageHeld

LEMMA QuietKeeps ==
    ASSUME SockStep, ResponseTypes, DataInv, status = "open", Quiet
    PROVE  DataInv'
  <1>1. Held' = Held
    BY DEF Quiet, Held
  <1>2. KeptUnlessCut'
    BY <1>1 DEF Quiet, DataInv, KeptUnlessCut, NothingReadIsLost
  <1>3. UnsentIsScheduledOnceStored'
    BY DEF Quiet, DataInv, UnsentIsScheduledOnceStored, UnsentIsScheduled
  <1>4. FastEmpty'
    BY DEF Quiet, DataInv, FastEmpty
  <1>5. NoPageHeld' /\ PageComesLast'
    <2>1. PageFree(c_out') /\ PageFree(response_buf'.data)
      BY DEF Quiet, DataInv, NoPageHeld
    <2>2. c_queue' # NULL => PageFree(c_queue')
      BY RangeEmpty DEF Quiet, DataInv, NoPageHeld, PageFree
    <2> QED
      BY <2>1, <2>2, PageFreeKeeps
  <1> QED
    BY <1>2, <1>3, <1>4, <1>5 DEF DataInv

LEMMA ForwardedKeeps ==
    ASSUME SockStep, ResponseTypes, DataInv, status = "open", NEW d \in Seq(Int), Forwarded(d)
    PROVE  DataInv'
  <1> DEFINE q == c_queue \o d
  <1>1. c_queue \in Seq(Int) /\ c_out \in Seq(Int)
    BY DEF Forwarded, ResponseTypes
  <1>2. q \in Seq(Int) /\ Range(q) = Range(c_queue) \union Range(d)
    BY <1>1, RangeConcat
  <1>3. PICK w \in 0..Len(q) : c_out' = c_out \o First(q, w) /\ c_queue' = Rest(q, w)
    BY DEF Forwarded
  <1> HIDE DEF q
  <1>4. /\ First(q, w) \in Seq(Int) /\ Rest(q, w) \in Seq(Int) /\ Rest(q, w) # NULL
        /\ Range(First(q, w)) \union Range(Rest(q, w)) = Range(q)
    BY <1>2, FirstType, RestType, NotNull, RangeSplit
  <1>5. Range(c_out') = Range(c_out) \union Range(First(q, w))
    BY <1>1, <1>3, <1>4, RangeConcat
  <1>6. Held = c_queue /\ Held' = Rest(q, w)
    BY <1>3, <1>4 DEF Held, Forwarded
  <1>7. KeptUnlessCut'
    <2>1. SUFFICES ASSUME mishaps' \intersect {"cut", "revived"} = {}
                   PROVE  got' = Range(c_out') \union Range(Held')
      BY DEF KeptUnlessCut, NothingReadIsLost
    <2>2. got = Range(c_out) \union Range(c_queue)
      BY <2>1, <1>6 DEF Forwarded, DataInv, KeptUnlessCut, NothingReadIsLost
    <2>3. got' = got \union Range(d)
      BY DEF Forwarded
    <2> QED
      BY <2>2, <2>3, <1>2, <1>4, <1>5, <1>6
  <1>8. FastEmpty' /\ UnsentIsScheduledOnceStored'
    BY DEF Forwarded, DataInv, FastEmpty, UnsentIsScheduledOnceStored, UnsentIsScheduled
  <1>9. NoPageHeld' /\ PageComesLast'
    <2>1. PageFree(q)
      BY <1>2 DEF Forwarded, DataInv, NoPageHeld, PageFree
    <2>2. PageFree(c_out') /\ PageFree(c_queue')
      BY <2>1, <1>3, <1>4, <1>5 DEF DataInv, NoPageHeld, PageFree
    <2>3. PageFree(response_buf'.data)
      BY DEF Forwarded, DataInv, NoPageHeld
    <2> QED
      BY <2>2, <2>3, PageFreeKeeps
  <1> QED
    BY <1>7, <1>8, <1>9 DEF DataInv

LEMMA SwitchedIdleKeeps ==
    ASSUME SockStep, ResponseTypes, DataInv, status = "open", SwitchedIdle
    PROVE  DataInv'
  <1>1. response_buf' = EmptyFile /\ Unread(response_buf') = <<>>
    BY UnreadEmpty DEF SwitchedIdle, DataInv, FastEmpty
  <1>2. KeptUnlessCut'
    <2>1. SUFFICES ASSUME mishaps' \intersect {"cut", "revived"} = {}
                   PROVE  got' = Range(c_out') \union Range(Held')
      BY DEF KeptUnlessCut, NothingReadIsLost
    <2>2. Held = <<>> /\ Held' = <<>>
      BY <2>1, <1>1 DEF Held, SwitchedIdle
    <2>3. got = Range(c_out) \union Range(Held)
      BY <2>1 DEF SwitchedIdle, DataInv, KeptUnlessCut, NothingReadIsLost
    <2> QED
      BY <2>2, <2>3 DEF SwitchedIdle
  <1>3. FastEmpty' /\ UnsentIsScheduledOnceStored'
    BY <1>1 DEF SwitchedIdle, FastEmpty, UnsentIsScheduledOnceStored, UnsentIsScheduled
  <1>4. NoPageHeld' /\ PageComesLast'
    <2>1. PageFree(c_out') /\ PageFree(response_buf'.data) /\ (c_queue' # NULL => PageFree(c_queue'))
      BY DEF SwitchedIdle, DataInv, NoPageHeld
    <2> QED
      BY <2>1, PageFreeKeeps
  <1> QED
    BY <1>2, <1>3, <1>4 DEF DataInv

LEMMA EmptyConcat ==
    ASSUME NEW s \in Seq(Int)
    PROVE  <<>> \o s = s /\ s \o <<>> = s
  OBVIOUS

LEMMA SwitchedBusyKeeps ==
    ASSUME SockStep, ResponseTypes, DataInv, status = "open", SwitchedBusy
    PROVE  DataInv'
  <1>1. c_queue \in Seq(Int) /\ c_queue # NULL /\ Held = c_queue
    BY DEF SwitchedBusy, ResponseTypes, Held
  <1>2. Unread(response_buf') = c_queue /\ Range(response_buf'.data) = Range(c_queue)
    <2>1. /\ Unread(StoreLast(EmptyFile, c_queue)) = <<>> \o c_queue
          /\ Range(StoreLast(EmptyFile, c_queue).data) = {} \union Range(c_queue)
      BY <1>1, EmptyFileType, UnreadStoreLast, UnreadEmpty, RangeEmpty
    <2> QED
      BY <1>1, <2>1, EmptyConcat DEF SwitchedBusy
  <1>3. Held' = c_queue
    BY <1>2 DEF Held, SwitchedBusy
  <1>4. KeptUnlessCut'
    <2>1. SUFFICES ASSUME mishaps' \intersect {"cut", "revived"} = {}
                   PROVE  got' = Range(c_out') \union Range(Held')
      BY DEF KeptUnlessCut, NothingReadIsLost
    <2>2. got = Range(c_out) \union Range(Held)
      BY <2>1 DEF SwitchedBusy, DataInv, KeptUnlessCut, NothingReadIsLost
    <2> QED
      BY <1>1, <1>3, <2>2 DEF SwitchedBusy
  <1>5. FastEmpty' /\ UnsentIsScheduledOnceStored'
    BY <1>2 DEF SwitchedBusy, FastEmpty, UnsentIsScheduledOnceStored, UnsentIsScheduled
  <1>6. NoPageHeld' /\ PageComesLast'
    <2>1. PageFree(c_out') /\ PageFree(response_buf'.data) /\ c_queue' = NULL
      BY <1>1, <1>2 DEF SwitchedBusy, DataInv, NoPageHeld, PageFree
    <2> QED
      BY <2>1, PageFreeKeeps
  <1> QED
    BY <1>4, <1>5, <1>6 DEF DataInv

LEMMA StoredKeeps ==
    ASSUME SockStep, ResponseTypes, DataInv, status = "open", NEW d \in Seq(Int), Stored(d)
    PROVE  DataInv'
  <1>1. /\ response_buf \in Files /\ Unread(response_buf) \in Seq(Int)
        /\ Held = Unread(response_buf)
    BY UnreadType DEF Stored, ResponseTypes, Held
  <1>2. /\ Unread(response_buf') = Unread(response_buf) \o d
        /\ Range(response_buf'.data) = Range(response_buf.data) \union Range(d)
    BY <1>1, UnreadStoreLast DEF Stored
  <1>3. Held' = Unread(response_buf')
    BY DEF Held, Stored
  <1>4. Range(Held') = Range(Held) \union Range(d)
    BY <1>1, <1>2, <1>3, RangeConcat
  <1>5. KeptUnlessCut'
    <2>1. SUFFICES ASSUME mishaps' \intersect {"cut", "revived"} = {}
                   PROVE  got' = Range(c_out') \union Range(Held')
      BY DEF KeptUnlessCut, NothingReadIsLost
    <2>2. got = Range(c_out) \union Range(Held)
      BY <2>1 DEF Stored, DataInv, KeptUnlessCut, NothingReadIsLost
    <2> QED
      BY <1>4, <2>2 DEF Stored
  <1>6. FastEmpty' /\ UnsentIsScheduledOnceStored'
    BY DEF Stored, FastEmpty, UnsentIsScheduledOnceStored, UnsentIsScheduled
  <1>7. NoPageHeld' /\ PageComesLast'
    <2>1. PageFree(c_out') /\ PageFree(response_buf'.data) /\ (c_queue' # NULL => PageFree(c_queue'))
      BY <1>2 DEF Stored, DataInv, NoPageHeld, PageFree
    <2> QED
      BY <2>1, PageFreeKeeps
  <1> QED
    BY <1>5, <1>6, <1>7 DEF DataInv

LEMMA WrittenKeeps ==
    ASSUME SockStep, ResponseTypes, DataInv, status = "open",
           NEW w \in 0..Len(Fetched(response_buf, BufSize)), Written(w)
    PROVE  DataInv'
  <1> DEFINE d == Fetched(response_buf, BufSize)
  <1>1. response_buf \in Files /\ c_out \in Seq(Int) /\ BufSize \in Nat
    BY SizeAssumption DEF ResponseTypes
  <1>2. d \in Seq(Int) /\ First(d, w) \in Seq(Int)
    BY <1>1, FetchedType, FirstType
  <1>3. Range(First(d, w)) \union Range(Unread(response_buf')) = Range(Unread(response_buf))
    BY <1>1, UnreadAdvance DEF Written
  <1>4. response_buf'.data = response_buf.data
    BY DEF Written, Advance
  <1>5. Range(c_out') = Range(c_out) \union Range(First(d, w))
    BY <1>1, <1>2, RangeConcat DEF Written
  <1>6. Held = Unread(response_buf) /\ Held' = Unread(response_buf')
    BY DEF Held, Written
  <1> HIDE DEF d
  <1>7. KeptUnlessCut'
    <2>1. SUFFICES ASSUME mishaps' \intersect {"cut", "revived"} = {}
                   PROVE  got' = Range(c_out') \union Range(Held')
      BY DEF KeptUnlessCut, NothingReadIsLost
    <2>2. got = Range(c_out) \union Range(Held)
      BY <2>1 DEF Written, DataInv, KeptUnlessCut, NothingReadIsLost
    <2>3. got' = got
      BY DEF Written
    <2> QED
      BY <1>3, <1>5, <1>6, <2>2, <2>3
  <1>8. FastEmpty' /\ UnsentIsScheduledOnceStored'
    BY DEF Written, FastEmpty, UnsentIsScheduledOnceStored, UnsentIsScheduled
  <1>9. NoPageHeld' /\ PageComesLast'
    <2>1. PageFree(Unread(response_buf)) /\ PageFree(c_out)
      BY HeldIsPageFree DEF DataInv, NoPageHeld
    <2>2. PageFree(c_out')
      BY <1>3, <1>5, <2>1 DEF PageFree
    <2>3. PageFree(response_buf'.data) /\ (c_queue' # NULL => PageFree(c_queue'))
      BY <1>4 DEF Written, DataInv, NoPageHeld
    <2> QED
      BY <2>2, <2>3, PageFreeKeeps
  <1> QED
    BY <1>7, <1>8, <1>9 DEF DataInv
-----------------------------------------------------------------------------
(* Every action is of one of these kinds.  First the parts several share.  *)

(* A fast-mode server brings a queue for the client. *)
LEMMA FastQueue ==
    ASSUME TypeOK, Wiring, status = "open", mode = "fast", server
    PROVE  /\ c_queue # NULL /\ c_queue \in Seq(Int) /\ Held = c_queue
           /\ remaining_space(c_queue) \in Nat
  <1>1. c_queue # NULL
    BY DEF Wiring, Wired, WiredFast
  <1>2. c_queue \in Seq(Int) /\ Len(c_queue) <= BufSize - 1
    BY <1>1 DEF TypeOK, QueueType, Queues
  <1>3. remaining_space(c_queue) \in Nat
    BY <1>2, SizeAssumption DEF remaining_space
  <1> QED
    BY <1>1, <1>2, <1>3 DEF Held

(* The connection is deleted and nothing is written. *)
LEMMA DeletedEnds ==
    ASSUME delete_conn, c_out' = c_out
    PROVE  Ended
  BY DEF delete_conn, Ended

LEMMA UnreachableKind ==
    ASSUME TypeOK, Wiring, Client_on_readable_unreachable
    PROVE  DataStep
  <1>1. c_queue = NULL /\ mode = "fast"
    BY DEF Client_on_readable_unreachable, Handles, Wiring, Wired, WiredFast
  <1>2. Held = <<>>
    BY <1>1 DEF Held
  <1>3. Refused
    BY <1>2 DEF Client_on_readable_unreachable, delete_conn, reply_with_503_unavailable, Refused
  <1> QED
    BY <1>3 DEF DataStep

LEMMA FastForwardClientKind ==
    ASSUME status = "open", mode = "fast", NEW pos, NEW cq, NEW sq, NEW evts,
           cq = c_queue \/ (c_queue = NULL /\ cq = <<>>),
           fast_forward_client(pos, cq, sq, evts)
    PROVE  DataStep
  <1> DEFINE max == remaining_space(sq)
             d   == ReadAll(c_sock, max)
  <1>1. CASE ~ParsesAsRequest(pos, d) /\ cq # <<>>
    <2>1. Quiet
      BY <1>1 DEF fast_forward_client, Quiet, files, ghosts
    <2> QED
      BY <2>1 DEF DataStep
  <1>2. CASE ~ParsesAsRequest(pos, d) /\ cq = <<>>
    <2>1. delete_conn /\ c_out' = c_out
      BY <1>2 DEF fast_forward_client, ghosts
    <2> QED
      BY <2>1, DeletedEnds DEF DataStep
  <1>3. CASE ParsesAsRequest(pos, d) /\ HasEof(c_sock, c_fin, max)
    <2>1. delete_conn /\ c_out' = c_out
      BY <1>3 DEF fast_forward_client
    <2> QED
      BY <2>1, DeletedEnds DEF DataStep
  <1>4. CASE ParsesAsRequest(pos, d) /\ ~HasEof(c_sock, c_fin, max)
    <2>1. Quiet
      BY <1>4 DEF fast_forward_client, Quiet, files
    <2> QED
      BY <2>1 DEF DataStep
  <1> QED
    BY <1>1, <1>2, <1>3, <1>4

LEMMA ClientReadableFastKind ==
    ASSUME TypeOK, Wiring, Client_on_readable_fast
    PROVE  DataStep
  <1>1. status = "open" /\ mode = "fast" /\ "c_read" \in pending
    BY DEF Client_on_readable_fast, Handles
  <1>2. CASE parser = "none"
    <2>1. c_queue = NULL
      BY <1>1, <1>2 DEF Wiring, Wired, WiredFast
    <2>2. fast_forward_client(0, <<>>, <<>>, pending \union {"s_read"})
      BY <1>2 DEF Client_on_readable_fast
    <2> QED
      BY <1>1, <2>1, <2>2, FastForwardClientKind
  <1>3. CASE parser # "none"
    <2>1. fast_forward_client(ppos, c_queue, s_queue, pending)
      BY <1>3 DEF Client_on_readable_fast
    <2> QED
      BY <1>1, <2>1, FastForwardClientKind
  <1> QED
    BY <1>2, <1>3

LEMMA ServerReadableFastKind ==
    ASSUME TypeOK, Wiring, Server_on_readable_fast
    PROVE  DataStep
  <1> DEFINE max == remaining_space(c_queue)
             d   == ReadAll(s_sock, max)
             out == c_queue \o d
  <1>1. status = "open" /\ mode = "fast" /\ server /\ s_sock \in Seq(Int) /\ c_out \in Seq(Int)
    BY DEF Server_on_readable_fast, Handles, Wiring, Watched, TypeOK, ServerType, GhostType
  <1>2. c_queue # NULL /\ c_queue \in Seq(Int) /\ Held = c_queue /\ max \in Nat
    BY <1>1, FastQueue
  <1>3. d \in Seq(Int) /\ Range(d) \subseteq Range(s_sock)
    BY <1>1, <1>2, ReadAllType, RangeReadAll
  <1>4. out \in Seq(Int) /\ Range(out) = Range(c_queue) \union Range(d)
    BY <1>2, <1>3, RangeConcat
  <1>5. PICK w \in 0..Len(out) :
             /\ c_out' = c_out \o First(out, w) /\ got' = got \union Range(d) /\ mishaps' = mishaps
             /\ \/ status' = status /\ mode' = mode /\ UNCHANGED files /\ c_queue' = Rest(out, w)
                \/ delete_conn
    BY DEF Server_on_readable_fast
  <1>6. CASE delete_conn
    <2> HIDE DEF out
    <2>1. Range(c_out') = Range(c_out) \union Range(First(out, w))
      BY <1>1, <1>4, <1>5, FirstType, RangeConcat
    <2>2. Range(First(out, w)) \subseteq Range(out)
      BY <1>4, RangeSplit
    <2>3. Range(c_out') \subseteq Range(c_out) \union Range(Held) \union Range(s_sock)
      BY <2>1, <2>2, <1>2, <1>3, <1>4
    <2> QED
      BY <1>6, <2>3 DEF delete_conn, Ended, DataStep
  <1>7. CASE status' = status /\ mode' = mode /\ UNCHANGED files /\ c_queue' = Rest(out, w)
    <2> HIDE DEF d
    <2>1. Forwarded(d)
      BY <1>1, <1>2, <1>3, <1>5, <1>7 DEF Forwarded, files
    <2> QED
      BY <1>3, <2>1 DEF DataStep
  <1> QED
    BY <1>5, <1>6, <1>7

(* A step that only writes is a Forwarded step that read nothing. *)
LEMMA WroteQueue ==
    ASSUME status = "open", status' = "open", mode = "fast", mode' = "fast",
           c_queue # NULL, c_queue \in Seq(Int),
           response_buf' = response_buf, mishaps' = mishaps, got' = got,
           NEW w \in 0..Len(c_queue),
           c_out' = c_out \o First(c_queue, w), c_queue' = Rest(c_queue, w)
    PROVE  DataStep
  <1>1. c_queue \o <<>> = c_queue /\ <<>> \in Seq(Int) /\ Range(<<>>) = {}
    BY EmptyConcat, RangeEmpty
  <1>2. Forwarded(<<>>)
    BY <1>1 DEF Forwarded
  <1> QED
    BY <1>1, <1>2 DEF DataStep

LEMMA ReplyOnlyWritableKind ==
    ASSUME TypeOK, Wiring, Client_on_writable_reply_only
    PROVE  DataStep
  <1>1. /\ status = "open" /\ mode = "fast" /\ c_queue # NULL /\ c_queue \in Seq(Int)
        /\ c_out \in Seq(Int) /\ Held = c_queue
    <2>1. status = "open" /\ mode = "fast" /\ c_queue # NULL
      BY DEF Client_on_writable_reply_only, Handles, Wiring, Wired, WiredFast
    <2> QED
      BY <2>1, ResponseTyped DEF ResponseTypes, Held
  <1>2. PICK w \in 0..Len(c_queue) :
             /\ c_out' = c_out \o First(c_queue, w) /\ got' = got /\ mishaps' = mishaps
             /\ \/ delete_conn
                \/ c_queue' = Rest(c_queue, w) /\ UNCHANGED <<control, files>>
    BY DEF Client_on_writable_reply_only
  <1>3. CASE delete_conn
    <2>1. Range(c_out') = Range(c_out) \union Range(First(c_queue, w))
      BY <1>1, <1>2, FirstType, RangeConcat
    <2>2. Range(First(c_queue, w)) \subseteq Range(c_queue)
      BY <1>1, RangeSplit
    <2> QED
      BY <1>1, <1>3, <2>1, <2>2 DEF delete_conn, Ended, DataStep
  <1>4. CASE c_queue' = Rest(c_queue, w) /\ UNCHANGED <<control, files>>
    BY <1>1, <1>2, <1>4, WroteQueue DEF control, files
  <1> QED
    BY <1>2, <1>3, <1>4

LEMMA ClientWritableFastKind ==
    ASSUME TypeOK, Wiring, Client_on_writable_fast
    PROVE  DataStep
  <1>1. status = "open" /\ mode = "fast" /\ c_queue # NULL /\ c_queue \in Seq(Int)
    BY FastQueue DEF Client_on_writable_fast, Handles
  <1>2. PICK w \in 0..Len(c_queue) :
             c_out' = c_out \o First(c_queue, w) /\ c_queue' = Rest(c_queue, w)
    BY DEF Client_on_writable_fast
  <1> QED
    BY <1>1, <1>2, WroteQueue DEF Client_on_writable_fast, files

LEMMA ServerWritableFastKind ==
    ASSUME Server_on_writable_fast
    PROVE  DataStep
  <1>1. Quiet
    BY DEF Server_on_writable_fast, Handles, Quiet, files
  <1> QED
    BY <1>1 DEF DataStep

LEMMA SlowIdleKind ==
    ASSUME set_slow_mode_idle
    PROVE  DataStep
  <1>1. SwitchedIdle
    BY DEF set_slow_mode_idle, Listed, SwitchedIdle, files
  <1> QED
    BY <1>1 DEF DataStep

LEMMA SlowBusyKind ==
    ASSUME TypeOK, Wiring, set_slow_mode_busy
    PROVE  DataStep
  <1>1. c_queue # NULL
    BY DEF set_slow_mode_busy, Listed, Wiring, Wired, WiredFast
  <1>2. SwitchedBusy
    BY <1>1 DEF set_slow_mode_busy, Listed, SwitchedBusy, DumpedQueue, EventsInTransition
  <1> QED
    BY <1>2 DEF DataStep

LEMMA TransitionReadKind ==
    ASSUME TypeOK, Server_on_readable_transition
    PROVE  DataStep
  <1> DEFINE d == ReadAll(s_sock, BufSize)
  <1>1. d \in Seq(Int) /\ Range(d) \subseteq Range(s_sock)
    BY SizeAssumption, ReadAllType, RangeReadAll DEF TypeOK, ServerType
  <1>2. /\ response_buf' = StoreLast(response_buf, d) /\ got' = got \union Range(d)
        /\ status = "open" /\ status' = "open" /\ mode = "transition" /\ mode' = mode
        /\ c_out' = c_out /\ c_queue' = c_queue /\ mishaps' = mishaps /\ "c_write" \in pending'
    BY DEF Server_on_readable_transition, Handles, queues
  <1> HIDE DEF d
  <1>3. Stored(d)
    BY <1>1, <1>2 DEF Stored
  <1> QED
    BY <1>1, <1>3 DEF DataStep

LEMMA TransitionEndsKind ==
    ASSUME TypeOK, Server_closed_in_transition \/ Transition_timeout
    PROVE  DataStep
  <1>1. /\ status = "open" /\ status' = "open" /\ mode = "transition" /\ mode' = "slow"
        /\ c_out' = c_out /\ response_buf' = response_buf /\ c_queue' = c_queue
        /\ "c_write" \in pending => "c_write" \in pending'
    BY DEF Server_closed_in_transition, Transition_timeout, finish_transition, Handles, files,
       ghosts
  <1>2. mishaps \subseteq mishaps' /\ (got' = got \/ "cut" \in mishaps')
    <2>1. CASE Server_closed_in_transition
      <3>1. CASE s_sock = <<>>
        <4>1. ReadAll(s_sock, BufSize) = <<>>
          <5>1. BufSize \in Nat /\ s_sock \in Seq(Int) /\ Len(s_sock) = 0
            BY <3>1, SizeAssumption DEF TypeOK, ServerType
          <5>2. /\ ReadAll(s_sock, BufSize) \in Seq(Int)
                /\ Len(ReadAll(s_sock, BufSize)) \in 0..Len(s_sock)
            BY <5>1, ReadAllType
          <5>3. Len(ReadAll(s_sock, BufSize)) = 0
            BY <5>1, <5>2
          <5> QED
            BY <5>2, <5>3
        <4> QED
          BY <2>1, <3>1, <4>1, RangeEmpty DEF Server_closed_in_transition
      <3>2. CASE s_sock # <<>>
        BY <2>1, <3>2 DEF Server_closed_in_transition
      <3> QED
        BY <3>1, <3>2
    <2>2. CASE Transition_timeout
      BY <2>2 DEF Transition_timeout, ghosts
    <2> QED
      BY <2>1, <2>2
  <1>3. Quiet
    BY <1>1, <1>2 DEF Quiet
  <1> QED
    BY <1>3 DEF DataStep

LEMMA TransitionWriteKind ==
    ASSUME Server_on_writable_transition
    PROVE  DataStep
  <1>1. /\ status = "open" /\ mode = "transition" /\ mode' = mode /\ c_queue' = c_queue
        /\ response_buf' = response_buf /\ c_out' = c_out /\ got' = got /\ mishaps' = mishaps
        /\ "c_write" \in pending => "c_write" \in pending'
    BY DEF Server_on_writable_transition, Handles, files
  <1>2. CASE status' = "open"
    <2>1. Quiet
      BY <1>1, <1>2 DEF Quiet
    <2> QED
      BY <2>1 DEF DataStep
  <1>3. CASE status' # "open"
    <2>1. Ended
      BY <1>1, <1>3 DEF Ended
    <2> QED
      BY <2>1 DEF DataStep
  <1> QED
    BY <1>2, <1>3

LEMMA ClientReadableSlowKind ==
    ASSUME Client_on_readable_slow
    PROVE  DataStep
  <1> DEFINE d == ReadAll(c_sock, BufSize)
  <1>0. status = "open" /\ mode = "slow"
    BY DEF Client_on_readable_slow, Handles
  <1>1. \/ delete_conn /\ c_out' = c_out
        \/ Refused
        \/ /\ UNCHANGED <<status, mode, c_queue, response_buf, c_out, got>>
           /\ mishaps \subseteq mishaps'
           /\ "c_write" \in pending => "c_write" \in pending'
    <2>1. CASE ~ParsesAsRequest(ppos, d) /\ response_buf.data = <<>>
      BY <2>1 DEF Client_on_readable_slow, ghosts
    <2>2. CASE ~ParsesAsRequest(ppos, d) /\ response_buf.data # <<>>
      BY <2>2 DEF Client_on_readable_slow, reply_only, queues, files, ghosts
    <2>3. CASE ParsesAsRequest(ppos, d) /\ ~CompletesMsg(ppos, d)
      BY <2>3 DEF Client_on_readable_slow, queues, ghosts
    <2>4. CASE ParsesAsRequest(ppos, d) /\ CompletesMsg(ppos, d)
      <3>1. \/ /\ delete_conn /\ reply_with_503_unavailable /\ got' = got
               /\ mishaps' = IF Unread(response_buf) # <<>>
                             THEN mishaps \union {"interjected"} ELSE mishaps
            \/ /\ UNCHANGED <<status, mode, c_queue, response_buf, c_out, got>>
               /\ mishaps \subseteq mishaps'
               /\ "c_write" \in pending => "c_write" \in pending'
        BY <2>4 DEF Client_on_readable_slow, queues
      <3>2. Held = Unread(response_buf)
        BY <1>0 DEF Held
      <3> QED
        BY <3>1, <3>2 DEF Refused, delete_conn, reply_with_503_unavailable
    <2> QED
      BY <2>1, <2>2, <2>3, <2>4
  <1>2. CASE delete_conn /\ c_out' = c_out
    BY <1>2, DeletedEnds DEF DataStep
  <1>3. CASE Refused
    BY <1>3 DEF DataStep
  <1>4. CASE /\ UNCHANGED <<status, mode, c_queue, response_buf, c_out, got>>
             /\ mishaps \subseteq mishaps'
             /\ "c_write" \in pending => "c_write" \in pending'
    <2>1. Quiet
      BY <1>0, <1>4 DEF Quiet
    <2> QED
      BY <2>1 DEF DataStep
  <1> QED
    BY <1>1, <1>2, <1>3, <1>4

LEMMA SendResponseKind ==
    ASSUME TypeOK, send_response_slowly
    PROVE  DataStep
  <1> DEFINE d == Fetched(response_buf, BufSize)
  <1>0. status = "open" /\ mode # "fast" /\ "c_write" \in pending /\ response_buf \in Files
    BY DEF send_response_slowly, TypeOK, FileType
  <1>1. CASE d # <<>>
    <2>1. PICK w \in 0..Len(d) : /\ response_buf' = Advance(response_buf, Len(d), w)
                                 /\ c_out' = c_out \o First(d, w)
      BY <1>1 DEF send_response_slowly
    <2>2. /\ status' = status /\ mode' = mode /\ pending' = pending
          /\ c_queue' = c_queue /\ got' = got /\ mishaps' = mishaps
      BY <1>1 DEF send_response_slowly, control, queues
    <2>3. Written(w)
      BY <1>0, <2>1, <2>2 DEF Written
    <2> QED
      BY <2>3 DEF DataStep
  <1>2. CASE d = <<>> /\ parser # "none"
    <2>1. Unread(response_buf) = <<>>
      BY <1>0, <1>2, FetchedNothing
    <2>2. UNCHANGED <<status, mode, c_queue, response_buf, c_out, got, mishaps>>
      BY <1>2 DEF send_response_slowly, queues, files, ghosts
    <2>3. Quiet
      BY <1>0, <2>1, <2>2 DEF Quiet
    <2> QED
      BY <2>3 DEF DataStep
  <1>3. CASE d = <<>> /\ parser = "none"
    <2>1. delete_conn /\ c_out' = c_out
      BY <1>3 DEF send_response_slowly, ghosts
    <2> QED
      BY <2>1, DeletedEnds DEF DataStep
  <1> QED
    BY <1>1, <1>2, <1>3

LEMMA ServerReadableSlowKind ==
    ASSUME TypeOK, Server_on_readable_slow
    PROVE  DataStep
  <1> DEFINE d == ReadAll(s_sock, BufSize)
  <1>1. d \in Seq(Int) /\ Range(d) \subseteq Range(s_sock)
    BY SizeAssumption, ReadAllType, RangeReadAll DEF TypeOK, ServerType
  <1>2. /\ response_buf' = StoreLast(response_buf, d) /\ got' = got \union Range(d)
        /\ status = "open" /\ status' = "open" /\ mode = "slow" /\ mode' = mode
        /\ c_out' = c_out /\ c_queue' = c_queue /\ mishaps \subseteq mishaps'
        /\ "c_write" \in pending'
    BY DEF Server_on_readable_slow, Handles, queues, reply_only, NoteOutrun
  <1> HIDE DEF d
  <1>3. Stored(d)
    BY <1>1, <1>2 DEF Stored
  <1> QED
    BY <1>1, <1>3 DEF DataStep

LEMMA SendRequestKind ==
    ASSUME send_request_slowly
    PROVE  DataStep
  <1>1. /\ status = "open" /\ mode = "slow"
        /\ UNCHANGED <<status, mode, c_queue, response_buf, c_out, got, mishaps>>
        /\ "c_write" \in pending => "c_write" \in pending'
    BY DEF send_request_slowly, Handles, queues
  <1>2. Quiet
    BY <1>1 DEF Quiet
  <1> QED
    BY <1>2 DEF DataStep

LEMMA PeersKind ==
    ASSUME PeerNext
    PROVE  DataStep
  <1>1. status = "open" /\ UNCHANGED <<control, queues, files, ghosts>>
    BY DEF PeerNext, Client_sends, Client_closes, Server_sends, Server_closes
  <1>2. Quiet
    BY <1>1 DEF Quiet, control, queues, files, ghosts
  <1> QED
    BY <1>2 DEF DataStep

LEMMA StepKind ==
    ASSUME TypeOK, Wiring, Next
    PROVE  DataStep
  <1>1. CASE FastNext
    BY <1>1, UnreachableKind, ClientReadableFastKind, ServerReadableFastKind,
       ReplyOnlyWritableKind, ClientWritableFastKind, ServerWritableFastKind DEF FastNext
  <1>2. CASE TransitionNext
    BY <1>2, SlowIdleKind, SlowBusyKind, TransitionReadKind, TransitionEndsKind,
       TransitionWriteKind DEF TransitionNext
  <1>3. CASE SlowNext
    <2>1. CASE Client_closed_slow
      BY <2>1, DeletedEnds DEF Client_closed_slow, ghosts, DataStep
    <2> QED
      BY <1>3, <2>1, ClientReadableSlowKind, SendResponseKind, ServerReadableSlowKind,
         SendRequestKind DEF SlowNext
  <1>4. CASE Monitor_drop
    BY <1>4, DeletedEnds DEF Monitor_drop, ghosts, DataStep
  <1>5. CASE PeerNext
    BY <1>5, PeersKind
  <1> QED
    BY <1>1, <1>2, <1>3, <1>4, <1>5 DEF Next
-----------------------------------------------------------------------------
(* The server's socket: only Server_sends adds to it. *)

LEMMA SocketRead ==
    ASSUME s_sock \in Seq(Int), NEW max \in Nat, s_read_all(max)
    PROVE  SockStep
  BY RangeReadAll DEF s_read_all, SockStep

LEMMA SocketEmptied ==
    ASSUME s_sock' = <<>> \/ s_sock' = s_sock
    PROVE  SockStep
  BY RangeEmpty DEF SockStep

LEMMA StepSock ==
    ASSUME TypeOK, Wiring, Next
    PROVE  SockStep
  <1>0. s_sock \in Seq(Int) /\ s_next \in Nat /\ BufSize \in Nat
    BY SizeAssumption DEF TypeOK, ServerType
  <1>1. CASE Server_sends
    <2>1. <<s_next + 1>> \in Seq(Int) /\ Range(<<s_next + 1>>) \subseteq Nat
      BY <1>0 DEF Range
    <2>2. Range(s_sock') = Range(s_sock) \union Range(<<s_next + 1>>)
      BY <1>0, <1>1, <2>1, RangeConcat DEF Server_sends
    <2> QED
      BY <2>1, <2>2 DEF SockStep
  <1>2. CASE Server_on_readable_fast
    <2>1. remaining_space(c_queue) \in Nat
      BY <1>2, FastQueue DEF Server_on_readable_fast, Handles, Wiring, Watched
    <2>2. s_sock' = <<>> \/ s_read_all(remaining_space(c_queue))
      BY <1>2 DEF Server_on_readable_fast, free_server, delete_conn
    <2> QED
      BY <1>0, <2>1, <2>2, SocketRead, SocketEmptied
  <1>3. CASE Server_on_readable_transition \/ Server_on_readable_slow
    <2>1. s_sock' = <<>> \/ s_read_all(BufSize)
      BY <1>3 DEF Server_on_readable_transition, Server_on_readable_slow, free_server
    <2> QED
      BY <1>0, <2>1, SocketRead, SocketEmptied
  <1>4. ASSUME ~Server_on_readable_fast, FastNext PROVE s_sock' = <<>> \/ s_sock' = s_sock
    <2>1. ASSUME NEW pos, NEW cq, NEW sq, NEW evts, fast_forward_client(pos, cq, sq, evts)
          PROVE  s_sock' = <<>> \/ s_sock' = s_sock
      BY <2>1 DEF fast_forward_client, delete_conn, free_server, s_env
    <2>2. CASE Client_on_readable_fast
      BY <2>1, <2>2 DEF Client_on_readable_fast
    <2>3. CASE Client_on_readable_unreachable
      BY <2>3 DEF Client_on_readable_unreachable, delete_conn
    <2>4. CASE Client_on_writable_reply_only
      BY <2>4 DEF Client_on_writable_reply_only, delete_conn, s_env
    <2>5. CASE Client_on_writable_fast \/ Server_on_writable_fast
      BY <2>5 DEF Client_on_writable_fast, Server_on_writable_fast, s_env
    <2> QED
      BY <1>4, <2>2, <2>3, <2>4, <2>5 DEF FastNext
  <1>5. ASSUME ~Server_on_readable_transition, TransitionNext
        PROVE  s_sock' = <<>> \/ s_sock' = s_sock
    BY <1>5 DEF TransitionNext, set_slow_mode_idle, set_slow_mode_busy,
       Server_closed_in_transition, Transition_timeout, Server_on_writable_transition,
       finish_transition, free_server, s_env
  <1>6. ASSUME ~Server_on_readable_slow, SlowNext PROVE s_sock' = <<>> \/ s_sock' = s_sock
    <2>1. CASE Client_closed_slow
      BY <2>1 DEF Client_closed_slow, delete_conn
    <2>2. CASE Client_on_readable_slow
      BY <2>2 DEF Client_on_readable_slow, delete_conn, s_env
    <2>3. CASE send_response_slowly
      BY <2>3 DEF send_response_slowly, delete_conn, s_env
    <2>4. CASE send_request_slowly
      BY <2>4 DEF send_request_slowly, s_env
    <2> QED
      BY <1>6, <2>1, <2>2, <2>3, <2>4 DEF SlowNext
  <1>7. ASSUME ~Server_sends, Monitor_drop \/ PeerNext PROVE s_sock' = <<>> \/ s_sock' = s_sock
    BY <1>7 DEF Monitor_drop, delete_conn, PeerNext, Client_sends, Client_closes,
       Server_closes, s_env
  <1> QED
    BY <1>1, <1>2, <1>3, <1>4, <1>5, <1>6, <1>7, SocketEmptied DEF Next

-----------------------------------------------------------------------------
(* The inductive invariant is DataInv together with Inv, without which a   *)
(* handler's queue need not exist.                                         *)

LEMMA OpenSteps == ASSUME Next PROVE status = "open"
  <1>1. CASE FastNext
    BY <1>1 DEF FastNext, Client_on_readable_unreachable, Client_on_readable_fast,
       Server_on_readable_fast, Client_on_writable_reply_only, Client_on_writable_fast,
       Server_on_writable_fast, Handles
  <1>2. CASE TransitionNext
    BY <1>2 DEF TransitionNext, set_slow_mode_idle, set_slow_mode_busy,
       Server_on_readable_transition, Server_closed_in_transition, Transition_timeout,
       Server_on_writable_transition, Handles, Listed
  <1>3. CASE SlowNext
    BY <1>3 DEF SlowNext, Client_closed_slow, Client_on_readable_slow, send_response_slowly,
       Server_on_readable_slow, send_request_slowly, Handles
  <1>4. CASE Monitor_drop \/ PeerNext
    BY <1>4 DEF Monitor_drop, Listed, PeerNext, Client_sends, Client_closes, Server_sends,
       Server_closes
  <1> QED
    BY <1>1, <1>2, <1>3, <1>4 DEF Next

LEMMA InitDataInv == Init => DataInv
  <1> SUFFICES ASSUME Init PROVE DataInv
    OBVIOUS
  <1>1. /\ mode = "fast" /\ response_buf = EmptyFile /\ c_queue = NULL
        /\ s_sock = <<>> /\ c_out = <<>> /\ got = {}
    BY DEF Init
  <1>2. Held = <<>>
    BY <1>1 DEF Held
  <1>3. PageFree(c_out) /\ PageFree(s_sock) /\ PageFree(response_buf.data)
    BY <1>1, RangeEmpty, UnreadEmpty DEF PageFree
  <1>4. FastEmpty /\ NoPageHeld /\ KeptUnlessCut /\ UnsentIsScheduledOnceStored
    BY <1>1, <1>2, <1>3, RangeEmpty DEF FastEmpty, NoPageHeld, KeptUnlessCut,
       NothingReadIsLost, UnsentIsScheduledOnceStored, UnsentIsScheduled
  <1> QED
    BY <1>3, <1>4, NoPageYet DEF DataInv

LEMMA StepDataInv == Inv /\ DataInv /\ [Next]_vars => DataInv'
  <1> SUFFICES ASSUME TypeOK, Wiring, DataInv, [Next]_vars PROVE DataInv'
    BY DEF Inv
  <1>1. CASE Next
    <2>1. status = "open" /\ ResponseTypes /\ SockStep /\ DataStep
      BY <1>1, OpenSteps, ResponseTyped, StepSock, StepKind
    <2> QED
      BY <2>1, EndedKeeps, RefusedKeeps, QuietKeeps, ForwardedKeeps, SwitchedIdleKeeps,
         SwitchedBusyKeeps, StoredKeeps, WrittenKeeps DEF DataStep
  <1>2. CASE UNCHANGED vars
    <2>1. UNCHANGED <<control, queues, files, s_env, ghosts>>
      BY <1>2 DEF vars
    <2>2. UNCHANGED <<status, mode, pending, c_queue, response_buf, s_sock, c_out, got, mishaps>>
      BY <2>1 DEF control, queues, files, s_env, ghosts
    <2> QED
      BY <2>2 DEF DataInv, FastEmpty, NoPageHeld, PageFree, Range, KeptUnlessCut,
         NothingReadIsLost, Held, UnsentIsScheduledOnceStored, UnsentIsScheduled, PageComesLast
  <1> QED
    BY <1>1, <1>2

(* Across partial writes, mode switches, reconnects and closes in any      *)
(* order, every token the proxy has read from a server is at the client or *)
(* held for it, but for the two gaps KeptUnlessCut names (the FIN read     *)
(* with data in a transition, and a reply-only connection put into slow    *)
(* mode).                                                                  *)
THEOREM KeptCorrect == Spec => []KeptUnlessCut
  <1>1. DataInv => KeptUnlessCut
    BY DEF DataInv
  <1> QED
    BY <1>1, InitInv, StepInv, InitDataInv, StepDataInv, PTL DEF Spec

(* A response in response_buf has the client's write event added, unless   *)
(* set_slow_mode itself moved it there without adding the event.           *)
THEOREM ScheduledCorrect == Spec => []UnsentIsScheduledOnceStored
  <1>1. DataInv => UnsentIsScheduledOnceStored
    BY DEF DataInv
  <1> QED
    BY <1>1, InitInv, StepInv, InitDataInv, StepDataInv, PTL DEF Spec

(* A client receives at most one 503 page, as the last thing on its        *)
(* connection, after every response the proxy has read, but for the gaps   *)
(* PageComesLast names.                                                    *)
THEOREM PageCorrect == Spec => []PageComesLast
  <1>1. DataInv => PageComesLast
    BY DEF DataInv
  <1> QED
    BY <1>1, InitInv, StepInv, InitDataInv, StepDataInv, PTL DEF Spec

-----------------------------------------------------------------------------
(* The order of the response.  Every step moves tokens along Stream, cuts  *)
(* Stream short, ends it with the page or lets the server append a token   *)
(* larger than all before.                                                 *)
Ordered(s) ==
    \A i, j \in 1..Len(s) : i < j /\ s[i] # Page503 /\ s[j] # Page503 => s[i] < s[j]
AtMost(s, n) == \A i \in 1..Len(s) : s[i] <= n

OrderInv ==
    /\ Ordered(Stream) /\ AtMost(Stream, s_next)
    /\ ~server => s_sock = <<>>

(* n tokens are read and w written; or the rest is dropped with its        *)
(* holder.                                                                 *)
Moved(n, w) ==
    LET q == Held \o First(s_sock, n)
    IN  /\ c_out' = c_out \o First(q, w)
        /\ \/ Held' = Rest(q, w) /\ s_sock' \in {Rest(s_sock, n), <<>>}
           \/ Held' = <<>> /\ s_sock' = <<>>

Moves ==
    /\ s_next' = s_next
    /\ \E n \in 0..Len(s_sock) : \E w \in 0..Len(Held \o First(s_sock, n)) : Moved(n, w)
Paged ==
    /\ s_next' = s_next /\ c_out' = c_out \o <<Page503>>
    /\ Held' = <<>> /\ s_sock' = <<>>
Grows ==
    /\ c_out' = c_out /\ Held' = Held
    /\ s_sock' = s_sock \o <<s_next + 1>> /\ s_next' = s_next + 1

StreamStep == (Moves \/ Paged \/ Grows) /\ (~server' => s_sock' = <<>>)

LEMMA FirstNone ==
    ASSUME NEW s \in Seq(Int)
    PROVE  /\ First(s, 0) = <<>> /\ Rest(s, 0) = s
           /\ s \o First(s, 0) = s /\ 0 \in 0..Len(s)
  <1>1. First(s, 0) = <<>> /\ Rest(s, 0) = s
    BY DEF First, Rest
  <1> QED
    BY <1>1, EmptyConcat

LEMMA MovesNothing ==
    ASSUME ResponseTypes, c_out' = c_out, s_next' = s_next,
           \/ Held' = Held /\ s_sock' \in {s_sock, <<>>}
           \/ Held' = <<>> /\ s_sock' = <<>>
    PROVE  Moves
  <1>1. /\ Held \in Seq(Int) /\ s_sock \in Seq(Int) /\ c_out \in Seq(Int)
    BY DEF ResponseTypes
  <1>2. /\ First(s_sock, 0) = <<>> /\ Rest(s_sock, 0) = s_sock /\ 0 \in 0..Len(s_sock)
        /\ First(Held, 0) = <<>> /\ Rest(Held, 0) = Held /\ 0 \in 0..Len(Held)
        /\ Held \o <<>> = Held /\ c_out \o <<>> = c_out
    BY <1>1, FirstNone, EmptyConcat
  <1>3. Moved(0, 0)
    BY <1>2 DEF Moved
  <1> QED
    BY <1>2, <1>3 DEF Moves

LEMMA MovesRead ==
    ASSUME ResponseTypes, c_out' = c_out, s_next' = s_next, NEW n \in 0..Len(s_sock),
           Held' = Held \o First(s_sock, n), s_sock' \in {Rest(s_sock, n), <<>>}
    PROVE  Moves
  <1> DEFINE q == Held \o First(s_sock, n)
  <1>1. /\ Held \in Seq(Int) /\ s_sock \in Seq(Int) /\ c_out \in Seq(Int)
    BY DEF ResponseTypes
  <1>2. q \in Seq(Int)
    BY <1>1, FirstType, ConcatElements
  <1> HIDE DEF q
  <1>3. First(q, 0) = <<>> /\ Rest(q, 0) = q /\ 0 \in 0..Len(q) /\ c_out \o <<>> = c_out
    BY <1>1, <1>2, FirstNone, EmptyConcat
  <1>4. Moved(n, 0)
    BY <1>3 DEF Moved, q
  <1> QED
    BY <1>3, <1>4 DEF Moves, q

LEMMA MovesWritten ==
    ASSUME ResponseTypes, s_next' = s_next, NEW w \in 0..Len(Held), c_out' = c_out \o First(Held, w),
           \/ Held' = Rest(Held, w) /\ s_sock' = s_sock
           \/ Held' = <<>> /\ s_sock' = <<>>
    PROVE  Moves
  <1>1. /\ Held \in Seq(Int) /\ s_sock \in Seq(Int)
    BY DEF ResponseTypes
  <1>2. /\ First(s_sock, 0) = <<>> /\ Rest(s_sock, 0) = s_sock /\ 0 \in 0..Len(s_sock)
        /\ Held \o <<>> = Held
    BY <1>1, FirstNone, EmptyConcat
  <1>3. Moved(0, w)
    BY <1>2 DEF Moved
  <1> QED
    BY <1>2, <1>3 DEF Moves

-----------------------------------------------------------------------------
(* Order is kept by each of the three. *)
LEMMA ResponseTypedNext == ASSUME TypeOK' PROVE ResponseTypes'
  <1>1. /\ s_sock' \in Seq(Int) /\ c_out' \in Seq(Int) /\ response_buf' \in Files
        /\ c_queue' # NULL => c_queue' \in Seq(Int)
    BY QueueIsSeq DEF TypeOK, ServerType, GhostType, FileType, QueueType
  <1>2. <<>> \in Seq(Int) /\ Unread(response_buf') \in Seq(Int)
    BY <1>1, UnreadType
  <1> QED
    BY <1>1, <1>2 DEF ResponseTypes, Held

LEMMA PrefixOrdered ==
    ASSUME NEW s \in Seq(Int), NEW r \in Seq(Int), NEW m \in Nat,
           Ordered(s \o r), AtMost(s \o r, m)
    PROVE  Ordered(s) /\ AtMost(s, m)
  <1> DEFINE t == s \o r
  <1>1. Len(t) = Len(s) + Len(r) /\ \A i \in 1..Len(s) : t[i] = s[i]
    BY ConcatElements
  <1>2. Ordered(t) /\ AtMost(t, m)
    OBVIOUS
  <1> HIDE DEF t
  <1>3. 1..Len(s) \subseteq 1..Len(t)
    BY <1>1
  <1> QED
    BY <1>1, <1>2, <1>3 DEF Ordered, AtMost

LEMMA AppendOrdered ==
    ASSUME NEW s \in Seq(Int), NEW m \in Nat, NEW k \in Int, NEW e \in Int,
           Ordered(s), AtMost(s, m), e = Page503 \/ m < e, e <= k, m <= k
    PROVE  Ordered(s \o <<e>>) /\ AtMost(s \o <<e>>, k)
  <1> DEFINE t == s \o <<e>>
  <1>1. <<e>> \in Seq(Int) /\ Len(<<e>>) = 1 /\ <<e>>[1] = e /\ Len(s) \in Nat
    OBVIOUS
  <1>2. Len(t) = Len(s) + 1 /\ (\A i \in 1..Len(s) : t[i] = s[i]) /\ t[Len(s) + 1] = e
    BY <1>1, ConcatElements
  <1> HIDE DEF t
  <1>3. ASSUME NEW i \in 1..Len(t)
        PROVE  i \in 1..Len(s) \/ i = Len(s) + 1
    BY <1>1, <1>2
  <1>4. ASSUME NEW i \in 1..Len(s) PROVE t[i] = s[i] /\ t[i] \in Int /\ t[i] <= m /\ i < Len(s) + 1
    BY <1>1, <1>2 DEF AtMost
  <1>5. AtMost(t, k)
    BY <1>2, <1>3, <1>4 DEF AtMost
  <1>6. ASSUME NEW i \in 1..Len(t), NEW j \in 1..Len(t), i < j, t[i] # Page503, t[j] # Page503
        PROVE  t[i] < t[j]
    <2>1. i \in 1..Len(s)
      BY <1>1, <1>2, <1>6
    <2>2. CASE j \in 1..Len(s)
      BY <2>1, <2>2, <1>4, <1>6 DEF Ordered
    <2>3. CASE j = Len(s) + 1
      BY <2>1, <2>3, <1>2, <1>4, <1>6
    <2> QED
      BY <2>2, <2>3, <1>3
  <1>7. Ordered(t)
    BY <1>6 DEF Ordered
  <1> QED
    BY <1>5, <1>7 DEF t

LEMMA MovedStream ==
    ASSUME NEW c \in Seq(Int), NEW h \in Seq(Int), NEW s \in Seq(Int),
           NEW n \in 0..Len(s), NEW w \in 0..Len(h \o First(s, n))
    PROVE  ((c \o First(h \o First(s, n), w)) \o Rest(h \o First(s, n), w)) \o Rest(s, n)
              = (c \o h) \o s
  <1> DEFINE f == First(s, n)
             r == Rest(s, n)
             q == h \o f
             x == First(q, w)
             y == Rest(q, w)
  <1>1. f \in Seq(Int) /\ r \in Seq(Int) /\ f \o r = s
    BY FirstType, RestType, Split
  <1>2. w \in 0..Len(q)
    OBVIOUS
  <1> HIDE DEF f, r
  <1>3. q \in Seq(Int) /\ c \o h \in Seq(Int)
    BY <1>1, ConcatElements
  <1>4. (c \o q) \o r = (c \o h) \o s
    <2> DEFINE g == c \o h
    <2>1. f \in Seq(Int)
      BY <1>1
    <2>2. r \in Seq(Int)
      BY <1>1
    <2>3. g \in Seq(Int)
      BY <1>3
    <2>4. (c \o h) \o f = c \o (h \o f)
      BY <2>1, ConcatAssoc, ZenonT(40)
    <2> HIDE DEF g
    <2>5. (g \o f) \o r = g \o (f \o r)
      BY <2>1, <2>2, <2>3, ConcatAssoc, ZenonT(40)
    <2> QED
      BY <1>1, <2>4, <2>5, ZenonT(40) DEF g
  <1> HIDE DEF q
  <1>5. x \in Seq(Int) /\ y \in Seq(Int) /\ x \o y = q
    BY <1>2, <1>3, FirstType, RestType, Split
  <1> HIDE DEF x, y
  <1>6. (c \o x) \o y = c \o q
    BY <1>5, ConcatAssoc, ZenonT(40)
  <1> QED
    BY <1>4, <1>6 DEF x, y, q, f, r

LEMMA MovesOrdered ==
    ASSUME ResponseTypes, ResponseTypes', s_next \in Nat, OrderInv, Moves
    PROVE  Ordered(Stream') /\ AtMost(Stream', s_next')
  <1>0. PICK n \in 0..Len(s_sock) : \E w \in 0..Len(Held \o First(s_sock, n)) : Moved(n, w)
    BY DEF Moves
  <1>1. PICK w \in 0..Len(Held \o First(s_sock, n)) : Moved(n, w)
    BY <1>0
  <1>2. c_out \in Seq(Int) /\ Held \in Seq(Int) /\ s_sock \in Seq(Int)
    BY DEF ResponseTypes
  <1>3. Stream = ((c_out \o First(Held \o First(s_sock, n), w))
                     \o Rest(Held \o First(s_sock, n), w)) \o Rest(s_sock, n)
    BY <1>2, MovedStream, ZenonT(40) DEF Stream
  <1> DEFINE q == Held \o First(s_sock, n)
             a == c_out \o First(q, w)
             b == a \o Rest(q, w)
             z == Rest(s_sock, n)
  <1>4. Ordered(b \o z) /\ AtMost(b \o z, s_next)
    <2>1. Stream = b \o z
      BY <1>3
    <2> QED
      BY <2>1 DEF OrderInv
  <1>5. q \in Seq(Int) /\ z \in Seq(Int)
    BY <1>2, FirstType, RestType, ConcatElements
  <1>6. /\ c_out' = a
        /\ \/ Held' = Rest(q, w) /\ s_sock' \in {z, <<>>}
           \/ Held' = <<>> /\ s_sock' = <<>>
    BY <1>1 DEF Moved
  <1>7. w \in 0..Len(q)
    OBVIOUS
  <1> HIDE DEF q, z
  <1>8. a \in Seq(Int) /\ Rest(q, w) \in Seq(Int) /\ b \in Seq(Int)
    BY <1>2, <1>5, <1>7, FirstType, RestType, ConcatElements
  <1> HIDE DEF a
  <1>9. Ordered(b) /\ AtMost(b, s_next)
    BY <1>5, <1>8, <1>4, PrefixOrdered
  <1>10. Ordered(a) /\ AtMost(a, s_next)
    BY <1>8, <1>9, PrefixOrdered
  <1>11. Stream' \in {b \o z, b, a}
    <2>1. b \o <<>> = b /\ a \o <<>> = a
      BY <1>8, EmptyConcat
    <2>2. Stream' = (a \o Held') \o s_sock'
      BY <1>6 DEF Stream
    <2>3. CASE Held' = Rest(q, w) /\ s_sock' = z
      BY <2>2, <2>3
    <2>4. CASE Held' = Rest(q, w) /\ s_sock' = <<>>
      BY <2>1, <2>2, <2>4
    <2>5. CASE Held' = <<>> /\ s_sock' = <<>>
      BY <2>1, <2>2, <2>5
    <2> QED
      BY <1>6, <2>3, <2>4, <2>5
  <1>12. s_next' = s_next
    BY DEF Moves
  <1> HIDE DEF b
  <1> QED
    BY <1>4, <1>9, <1>10, <1>11, <1>12

LEMMA StreamOrdered ==
    ASSUME ResponseTypes, ResponseTypes', s_next \in Nat, OrderInv, StreamStep
    PROVE  OrderInv'
  <1>1. /\ c_out \in Seq(Int) /\ Held \in Seq(Int) /\ s_sock \in Seq(Int)
        /\ c_out \o Held \in Seq(Int) /\ Stream \in Seq(Int)
    BY ConcatElements DEF ResponseTypes, Stream
  <1>2. Ordered(Stream) /\ AtMost(Stream, s_next)
    BY DEF OrderInv
  <1>3. CASE Moves
    BY <1>3, MovesOrdered DEF OrderInv, StreamStep
  <1>4. CASE Paged
    <2>1. Ordered(c_out) /\ AtMost(c_out, s_next)
      <3>1. Ordered(c_out \o Held) /\ AtMost(c_out \o Held, s_next)
        BY <1>1, <1>2, PrefixOrdered DEF Stream
      <3> QED
        BY <1>1, <3>1, PrefixOrdered
    <2>2. Ordered(c_out \o <<Page503>>) /\ AtMost(c_out \o <<Page503>>, s_next)
      BY <1>1, <2>1, AppendOrdered DEF Page503
    <2>3. Stream' = c_out \o <<Page503>>
      <3>1. c_out' \in Seq(Int)
        BY DEF ResponseTypes
      <3>2. (c_out' \o <<>>) \o <<>> = c_out'
        BY <3>1, EmptyConcat
      <3> QED
        BY <1>4, <3>2 DEF Paged, Stream
    <2> QED
      BY <1>4, <2>2, <2>3 DEF Paged, OrderInv, StreamStep
  <1>5. CASE Grows
    <2>1. <<s_next + 1>> \in Seq(Int) /\ s_next + 1 \in Int
      OBVIOUS
    <2>2. Stream' = Stream \o <<s_next + 1>>
      BY <1>1, <1>5, <2>1, ConcatAssoc DEF Grows, Stream
    <2>3. Ordered(Stream \o <<s_next + 1>>) /\ AtMost(Stream \o <<s_next + 1>>, s_next + 1)
      BY <1>1, <1>2, <2>1, AppendOrdered
    <2> QED
      BY <1>5, <2>2, <2>3 DEF Grows, OrderInv, StreamStep
  <1> QED
    BY <1>3, <1>4, <1>5 DEF StreamStep

-----------------------------------------------------------------------------
(* Every action takes one of these steps. *)
LEMMA DeletedStream ==
    ASSUME delete_conn
    PROVE  Held' = <<>> /\ s_sock' = <<>> /\ s_next' = s_next /\ ~server'
  BY UnreadEmpty DEF delete_conn, Held

LEMMA DeletedMoves ==
    ASSUME ResponseTypes, delete_conn, c_out' = c_out
    PROVE  StreamStep
  BY DeletedStream, MovesNothing DEF StreamStep

LEMMA ReadIsFirst ==
    ASSUME NEW s \in Seq(Int), NEW max \in Nat
    PROVE  \E n \in 0..Len(s) :
               /\ ReadAll(s, max) = First(s, n) /\ Rest(s, Len(ReadAll(s, max))) = Rest(s, n)
  <1>1. MinOf(Len(s), max) \in 0..Len(s)
    BY DEF MinOf
  <1>2. Len(ReadAll(s, max)) = MinOf(Len(s), max)
    BY <1>1, FirstType DEF ReadAll
  <1> QED
    BY <1>1, <1>2 DEF ReadAll

LEMMA FastForwardStream ==
    ASSUME ResponseTypes, status = "open", mode = "fast", NEW pos, NEW cq, NEW sq, NEW evts,
           cq = c_queue \/ (c_queue = NULL /\ cq = <<>>),
           fast_forward_client(pos, cq, sq, evts)
    PROVE  StreamStep
  <1>1. /\ c_out' = c_out
        /\ \/ delete_conn
           \/ /\ mode' = mode /\ c_queue' = cq /\ s_next' = s_next
              /\ \/ s_sock' = <<>>
                 \/ s_sock' = s_sock /\ server'
    BY DEF fast_forward_client, free_server, s_env, ghosts
  <1>2. CASE ~delete_conn
    <2>1. Held' = Held
      BY <1>1, <1>2 DEF Held
    <2> QED
      BY <1>1, <1>2, <2>1, MovesNothing DEF StreamStep
  <1> QED
    BY <1>1, <1>2, DeletedMoves

LEMMA ServerReadableFastStream ==
    ASSUME TypeOK, Wiring, ResponseTypes, Server_on_readable_fast
    PROVE  StreamStep
  <1> DEFINE max == remaining_space(c_queue)
             d   == ReadAll(s_sock, max)
             out == c_queue \o d
             z   == Rest(s_sock, Len(d))
  <1>1. status = "open" /\ mode = "fast" /\ server /\ s_sock \in Seq(Int)
    BY DEF Server_on_readable_fast, Handles, Wiring, Watched, ResponseTypes
  <1>2. c_queue # NULL /\ c_queue \in Seq(Int) /\ Held = c_queue /\ max \in Nat
    BY <1>1, FastQueue
  <1>3. PICK n \in 0..Len(s_sock) : d = First(s_sock, n) /\ z = Rest(s_sock, n)
    BY <1>1, <1>2, ReadIsFirst
  <1>4. PICK w \in 0..Len(out) :
             /\ c_out' = c_out \o First(out, w)
             /\ \/ /\ free_server /\ mode' = mode /\ c_queue' = Rest(out, w)
                \/ delete_conn
                \/ /\ s_sock' = z /\ s_next' = s_next /\ mode' = mode /\ server' = server
                   /\ c_queue' = Rest(out, w)
    BY DEF Server_on_readable_fast, s_read_all
  <1>5. out \in Seq(Int)
    BY <1>1, <1>2, <1>3, FirstType, ConcatElements
  <1> HIDE DEF d, z
  <1>6. Rest(out, w) \in Seq(Int) /\ Rest(out, w) # NULL
    <2> HIDE DEF out
    <2> QED
      BY <1>5, RestType, NotNull
  <1>7. /\ s_next' = s_next /\ (~server' => s_sock' = <<>>)
        /\ \/ Held' = Rest(out, w) /\ s_sock' \in {z, <<>>}
           \/ Held' = <<>> /\ s_sock' = <<>>
    <2> HIDE DEF out
    <2>1. CASE delete_conn
      BY <2>1, DeletedStream
    <2>2. ASSUME mode' = mode, c_queue' = Rest(out, w) PROVE Held' = Rest(out, w)
      BY <2>2, <1>1, <1>6 DEF Held
    <2> QED
      BY <1>1, <1>4, <2>1, <2>2 DEF free_server
  <1>8. Moved(n, w)
    BY <1>2, <1>3, <1>4, <1>7 DEF Moved
  <1>9. Moves
    BY <1>2, <1>3, <1>7, <1>8 DEF Moves
  <1> QED
    BY <1>7, <1>9 DEF StreamStep

LEMMA FastStream ==
    ASSUME TypeOK, Wiring, ResponseTypes, OrderInv, FastNext
    PROVE  StreamStep
  <1>1. CASE Client_on_readable_unreachable
    <2>1. Paged
      BY <1>1, DeletedStream DEF Client_on_readable_unreachable, reply_with_503_unavailable, Paged
    <2> QED
      BY <1>1, <2>1, DeletedStream DEF Client_on_readable_unreachable, StreamStep
  <1>2. CASE Client_on_readable_fast
    <2>1. status = "open" /\ mode = "fast" /\ "c_read" \in pending
      BY <1>2 DEF Client_on_readable_fast, Handles
    <2>2. CASE parser = "none"
      <3>1. c_queue = NULL
        BY <2>1, <2>2 DEF Wiring, Wired, WiredFast
      <3>2. fast_forward_client(0, <<>>, <<>>, pending \union {"s_read"})
        BY <1>2, <2>2 DEF Client_on_readable_fast
      <3> QED
        BY <2>1, <3>1, <3>2, FastForwardStream
    <2>3. CASE parser # "none"
      <3>1. fast_forward_client(ppos, c_queue, s_queue, pending)
        BY <1>2, <2>3 DEF Client_on_readable_fast
      <3> QED
        BY <2>1, <3>1, FastForwardStream
    <2> QED
      BY <2>2, <2>3
  <1>3. CASE Client_on_writable_reply_only \/ Client_on_writable_fast
    <2>1. /\ status = "open" /\ mode = "fast" /\ c_queue # NULL /\ c_queue \in Seq(Int)
          /\ Held = c_queue
      <3>1. status = "open" /\ mode = "fast" /\ c_queue # NULL
        BY <1>3 DEF Client_on_writable_reply_only, Client_on_writable_fast, Handles, Wiring,
           Wired, WiredFast
      <3> QED
        BY <3>1 DEF ResponseTypes, Held
    <2>2. PICK w \in 0..Len(c_queue) :
               /\ c_out' = c_out \o First(c_queue, w)
               /\ \/ delete_conn
                  \/ /\ c_queue' = Rest(c_queue, w) /\ mode' = mode /\ server' = server
                     /\ s_sock' = s_sock /\ s_next' = s_next
      BY <1>3 DEF Client_on_writable_reply_only, Client_on_writable_fast, control, s_env
    <2>3. CASE delete_conn
      BY <2>1, <2>2, <2>3, DeletedStream, MovesWritten DEF StreamStep
    <2>4. CASE ~delete_conn
      <3>1. Rest(c_queue, w) # NULL
        BY <2>1, RestType, NotNull
      <3>2. Held' = Rest(Held, w)
        BY <2>1, <2>2, <2>4, <3>1 DEF Held
      <3> QED
        BY <2>1, <2>2, <2>4, <3>2, MovesWritten DEF StreamStep, OrderInv
    <2> QED
      BY <2>3, <2>4
  <1>4. CASE Server_on_writable_fast
    <2>1. UNCHANGED <<mode, c_queue, response_buf, c_out, s_sock, s_next, server>>
      BY <1>4 DEF Server_on_writable_fast, files, s_env
    <2>2. Held' = Held
      BY <2>1 DEF Held
    <2> QED
      BY <2>1, <2>2, MovesNothing DEF StreamStep, OrderInv
  <1> QED
    BY <1>1, <1>2, <1>3, <1>4, ServerReadableFastStream DEF FastNext

(* What the server sends is stored. *)
LEMMA StoredStream ==
    ASSUME ResponseTypes, mode # "fast", mode' = mode, c_out' = c_out, s_next' = s_next,
           response_buf' = StoreLast(response_buf, ReadAll(s_sock, BufSize)),
           \/ s_sock' = <<>>
           \/ s_sock' = Rest(s_sock, Len(ReadAll(s_sock, BufSize))) /\ server'
    PROVE  StreamStep
  <1>1. s_sock \in Seq(Int) /\ response_buf \in Files /\ BufSize \in Nat
    BY SizeAssumption DEF ResponseTypes
  <1>2. PICK n \in 0..Len(s_sock) :
             /\ ReadAll(s_sock, BufSize) = First(s_sock, n)
             /\ Rest(s_sock, Len(ReadAll(s_sock, BufSize))) = Rest(s_sock, n)
    BY <1>1, ReadIsFirst
  <1>3. First(s_sock, n) \in Seq(Int)
    BY <1>1, FirstType
  <1>4. Unread(response_buf') = Unread(response_buf) \o First(s_sock, n)
    BY <1>1, <1>2, <1>3, UnreadStoreLast
  <1>5. Held' = Held \o First(s_sock, n)
    BY <1>4 DEF Held
  <1>6. s_sock' \in {Rest(s_sock, n), <<>>}
    BY <1>2
  <1>7. Moves
    BY <1>5, <1>6, MovesRead
  <1> QED
    BY <1>7 DEF StreamStep

LEMMA TransitionReadStream ==
    ASSUME Wiring, ResponseTypes, Server_on_readable_transition
    PROVE  StreamStep
  <1>1. server
    BY DEF Server_on_readable_transition, Handles, Wiring, Watched
  <1>2. /\ mode # "fast" /\ mode' = mode /\ c_out' = c_out /\ s_next' = s_next
        /\ response_buf' = StoreLast(response_buf, ReadAll(s_sock, BufSize))
        /\ s_sock' = Rest(s_sock, Len(ReadAll(s_sock, BufSize))) /\ server' = server
    BY DEF Server_on_readable_transition, Handles, s_read_all
  <1> QED
    BY <1>1, <1>2, StoredStream

LEMMA ServerReadableSlowStream ==
    ASSUME Wiring, ResponseTypes, Server_on_readable_slow
    PROVE  StreamStep
  <1>1. server
    BY DEF Server_on_readable_slow, Handles, Wiring, Watched
  <1>2. /\ mode # "fast" /\ mode' = mode /\ c_out' = c_out /\ s_next' = s_next
        /\ response_buf' = StoreLast(response_buf, ReadAll(s_sock, BufSize))
        /\ \/ s_sock' = <<>>
           \/ s_sock' = Rest(s_sock, Len(ReadAll(s_sock, BufSize))) /\ server' = server
    BY DEF Server_on_readable_slow, Handles, s_read_all, free_server
  <1> QED
    BY <1>1, <1>2, StoredStream

LEMMA TransitionStream ==
    ASSUME TypeOK, Wiring, ResponseTypes, FastEmpty, OrderInv, TransitionNext
    PROVE  StreamStep
  <1>1. CASE set_slow_mode_idle
    <2>1. /\ status = "open" /\ mode = "fast" /\ mode' = "slow" /\ ~server
          /\ UNCHANGED <<response_buf, c_out, s_sock, s_next, server>>
      BY <1>1 DEF set_slow_mode_idle, Listed, Wiring, Wired, WiredFast, files, s_env
    <2>2. Held' = <<>> /\ s_sock = <<>>
      BY <2>1, UnreadEmpty DEF Held, FastEmpty, OrderInv
    <2> QED
      BY <2>1, <2>2, MovesNothing DEF StreamStep
  <1>2. CASE set_slow_mode_busy
    <2>1. /\ status = "open" /\ mode = "fast" /\ mode' = "transition" /\ c_queue # NULL
          /\ response_buf' = StoreLast(EmptyFile, c_queue)
          /\ UNCHANGED <<c_out, s_sock, s_next, server>>
      BY <1>2 DEF set_slow_mode_busy, Listed, Wiring, Wired, WiredFast, DumpedQueue, s_env
    <2>2. c_queue \in Seq(Int) /\ Held = c_queue
      BY <2>1 DEF ResponseTypes, Held
    <2>3. Unread(StoreLast(EmptyFile, c_queue)) = <<>> \o c_queue
      BY <2>2, EmptyFileType, UnreadStoreLast, UnreadEmpty
    <2>4. Held' = Held
      BY <2>1, <2>2, <2>3, EmptyConcat DEF Held
    <2> QED
      BY <2>1, <2>4, MovesNothing DEF StreamStep, OrderInv
  <1>3. CASE Server_on_readable_transition
    BY <1>3, TransitionReadStream
  <1>4. CASE Server_closed_in_transition \/ Transition_timeout
    <2>1. /\ mode = "transition" /\ mode' = "slow" /\ s_sock' = <<>>
          /\ UNCHANGED <<response_buf, c_out, s_next>>
      BY <1>4 DEF Server_closed_in_transition, Transition_timeout, finish_transition,
         free_server, Handles, files, ghosts
    <2>2. Held' = Held
      BY <2>1 DEF Held
    <2> QED
      BY <2>1, <2>2, MovesNothing DEF StreamStep
  <1>5. CASE Server_on_writable_transition
    <2>1. UNCHANGED <<mode, c_queue, response_buf, c_out, s_sock, s_next, server>>
      BY <1>5 DEF Server_on_writable_transition, files, s_env
    <2>2. Held' = Held
      BY <2>1 DEF Held
    <2> QED
      BY <2>1, <2>2, MovesNothing DEF StreamStep, OrderInv
  <1> QED
    BY <1>1, <1>2, <1>3, <1>4, <1>5 DEF TransitionNext

LEMMA ClientReadableSlowStream ==
    ASSUME ResponseTypes, OrderInv, Client_on_readable_slow
    PROVE  StreamStep
  <1> DEFINE d == ReadAll(c_sock, BufSize)
  <1>1. \/ delete_conn /\ c_out' = c_out
        \/ delete_conn /\ reply_with_503_unavailable
        \/ /\ UNCHANGED <<mode, c_queue, response_buf, c_out, s_sock, s_next>>
           /\ server' = server \/ server'
    <2>1. CASE ~ParsesAsRequest(ppos, d)
      BY <2>1 DEF Client_on_readable_slow, queues, files, s_env, ghosts
    <2>2. CASE ParsesAsRequest(ppos, d) /\ ~CompletesMsg(ppos, d)
      BY <2>2 DEF Client_on_readable_slow, queues, s_env, ghosts
    <2>3. CASE ParsesAsRequest(ppos, d) /\ CompletesMsg(ppos, d)
      BY <2>3 DEF Client_on_readable_slow, queues, s_env
    <2> QED
      BY <2>1, <2>2, <2>3
  <1>2. CASE delete_conn /\ c_out' = c_out
    BY <1>2, DeletedMoves
  <1>3. CASE delete_conn /\ reply_with_503_unavailable
    <2>1. Paged
      BY <1>3, DeletedStream DEF reply_with_503_unavailable, Paged
    <2> QED
      BY <1>3, <2>1, DeletedStream DEF StreamStep
  <1>4. CASE /\ UNCHANGED <<mode, c_queue, response_buf, c_out, s_sock, s_next>>
             /\ server' = server \/ server'
    <2>1. Held' = Held
      BY <1>4 DEF Held
    <2> QED
      BY <1>4, <2>1, MovesNothing DEF StreamStep, OrderInv
  <1> QED
    BY <1>1, <1>2, <1>3, <1>4

LEMMA SendResponseStream ==
    ASSUME ResponseTypes, OrderInv, send_response_slowly
    PROVE  StreamStep
  <1> DEFINE d == Fetched(response_buf, BufSize)
  <1>0. mode # "fast" /\ response_buf \in Files
    BY DEF send_response_slowly, ResponseTypes
  <1>1. CASE d # <<>>
    <2>1. PICK w \in 0..Len(d) : /\ response_buf' = Advance(response_buf, Len(d), w)
                                 /\ c_out' = c_out \o First(d, w)
      BY <1>1 DEF send_response_slowly
    <2>2. UNCHANGED <<mode, s_sock, s_next, server>>
      BY <1>1 DEF send_response_slowly, control, s_env
    <2>3. /\ First(d, w) = First(Unread(response_buf), w) /\ w \in 0..Len(Unread(response_buf))
          /\ Unread(Advance(response_buf, Len(d), w)) = Rest(Unread(response_buf), w)
      BY <1>0, UnreadAdvance
    <2>4. Held = Unread(response_buf) /\ Held' = Unread(response_buf')
      BY <1>0, <2>2 DEF Held
    <2> HIDE DEF d
    <2>5. Moves
      BY <2>1, <2>2, <2>3, <2>4, MovesWritten
    <2> QED
      BY <2>2, <2>5 DEF StreamStep, OrderInv
  <1>2. CASE d = <<>> /\ parser # "none"
    <2>1. UNCHANGED <<mode, c_queue, response_buf, c_out, s_sock, s_next, server>>
      BY <1>2 DEF send_response_slowly, queues, files, ghosts, s_env
    <2>2. Held' = Held
      BY <2>1 DEF Held
    <2> QED
      BY <2>1, <2>2, MovesNothing DEF StreamStep, OrderInv
  <1>3. CASE d = <<>> /\ parser = "none"
    BY <1>3, DeletedMoves DEF send_response_slowly, ghosts
  <1> QED
    BY <1>1, <1>2, <1>3

LEMMA SlowStream ==
    ASSUME TypeOK, Wiring, ResponseTypes, OrderInv, SlowNext
    PROVE  StreamStep
  <1>1. CASE Client_closed_slow
    BY <1>1, DeletedMoves DEF Client_closed_slow, ghosts
  <1>2. CASE send_request_slowly
    <2>1. UNCHANGED <<mode, c_queue, response_buf, c_out, s_sock, s_next, server>>
      BY <1>2 DEF send_request_slowly, queues, s_env
    <2>2. Held' = Held
      BY <2>1 DEF Held
    <2> QED
      BY <2>1, <2>2, MovesNothing DEF StreamStep, OrderInv
  <1> QED
    BY <1>1, <1>2, ClientReadableSlowStream, SendResponseStream, ServerReadableSlowStream
       DEF SlowNext

LEMMA PeersStream ==
    ASSUME ResponseTypes, OrderInv, PeerNext
    PROVE  StreamStep
  <1>1. UNCHANGED <<mode, c_queue, response_buf, c_out, server>>
    BY DEF PeerNext, Client_sends, Client_closes, Server_sends, Server_closes, control, queues,
       files, ghosts
  <1>2. Held' = Held
    BY <1>1 DEF Held
  <1>3. CASE Server_sends
    BY <1>1, <1>2, <1>3 DEF Server_sends, Grows, StreamStep
  <1>4. CASE ~Server_sends
    <2>1. s_sock' = s_sock /\ s_next' = s_next
      BY <1>4 DEF PeerNext, Client_sends, Client_closes, Server_closes, s_env
    <2> QED
      BY <1>1, <1>2, <2>1, MovesNothing DEF StreamStep, OrderInv
  <1> QED
    BY <1>3, <1>4

LEMMA InitOrderInv == Init => OrderInv
  <1> SUFFICES ASSUME Init PROVE OrderInv
    OBVIOUS
  <1>1. c_out = <<>> /\ Held = <<>> /\ s_sock = <<>>
    BY DEF Init, Held
  <1>2. <<>> \in Seq(Int) /\ Len(<<>>) = 0 /\ 1..0 = {}
    OBVIOUS
  <1>3. Stream = <<>>
    BY <1>1, <1>2, EmptyConcat DEF Stream
  <1>4. 1..Len(Stream) = {}
    BY <1>2, <1>3, Zenon
  <1> QED
    BY <1>1, <1>4 DEF OrderInv, Ordered, AtMost

LEMMA StepOrderInv == Inv /\ Inv' /\ DataInv /\ OrderInv /\ [Next]_vars => OrderInv'
  <1> SUFFICES ASSUME TypeOK, Wiring, TypeOK', FastEmpty, OrderInv, [Next]_vars PROVE OrderInv'
    BY DEF Inv, DataInv
  <1>0. ResponseTypes'
    BY ResponseTypedNext
  <1>1. ResponseTypes
    BY ResponseTyped
  <1>2. CASE Next
    <2>1. ASSUME Monitor_drop PROVE StreamStep
      BY <1>1, <2>1, DeletedMoves DEF Monitor_drop, ghosts
    <2>2. StreamStep
      BY <1>1, <1>2, <2>1, FastStream, TransitionStream, SlowStream, PeersStream DEF Next
    <2> QED
      BY <1>0, <1>1, <2>2, StreamOrdered DEF TypeOK, ServerType
  <1>3. CASE UNCHANGED vars
    <2>1. UNCHANGED <<mode, c_queue, response_buf, c_out, s_sock, s_next, server>>
      BY <1>3 DEF vars, control, queues, files, s_env, ghosts
    <2>2. Stream' = Stream
      BY <2>1 DEF Stream, Held
    <2> QED
      BY <2>1, <2>2 DEF OrderInv, Ordered, AtMost
  <1> QED
    BY <1>2, <1>3

(* Whatever mode switches, reconnects, partial writes and closes happen,   *)
(* the client receives the server's tokens in order and none twice.        *)
THEOREM OrderCorrect == Spec => []ResponseInOrder
  <1>1. OrderInv => ResponseInOrder
    BY DEF OrderInv, Ordered, ResponseInOrder
  <1> QED
    BY <1>1, InitInv, StepInv, InitDataInv, StepDataInv, InitOrderInv, StepOrderInv, PTL DEF Spec

-----------------------------------------------------------------------------
(* Remainders. *)
LEMMA ModUnique ==
    ASSUME NEW n \in Nat, NEW q \in Int, NEW r \in 0..(MsgLen - 1), n = MsgLen * q + r
    PROVE  n % MsgLen = r
  <1> DEFINE a == n \div MsgLen
             s == n % MsgLen
  <1>1. MsgLen \in Nat /\ MsgLen > 0
    BY SizeAssumption
  <1>2. n = MsgLen * a + s /\ a \in Int /\ s \in 0..(MsgLen - 1)
    BY <1>1
  <1> HIDE DEF a, s
  <1>3. CASE a = q
    BY <1>1, <1>2, <1>3 DEF s
  <1>4. ASSUME a > q PROVE FALSE
    <2>1. MsgLen * a >= MsgLen * (q + 1) /\ MsgLen * (q + 1) = MsgLen * q + MsgLen
      BY <1>1, <1>2, <1>4
    <2> QED
      BY <1>1, <1>2, <2>1
  <1>5. ASSUME a < q PROVE FALSE
    <2>1. MsgLen * q >= MsgLen * (a + 1) /\ MsgLen * (a + 1) = MsgLen * a + MsgLen
      BY <1>1, <1>2, <1>5
    <2> QED
      BY <1>1, <1>2, <2>1
  <1> QED
    BY <1>2, <1>3, <1>4, <1>5

LEMMA ModAdd ==
    ASSUME NEW n \in Nat, NEW k \in Nat
    PROVE  ((n % MsgLen) + k) % MsgLen = (n + k) % MsgLen
  <1> DEFINE a == n \div MsgLen
             r == n % MsgLen
  <1>1. MsgLen \in Nat /\ MsgLen > 0
    BY SizeAssumption
  <1>2. n = MsgLen * a + r /\ a \in Int /\ r \in 0..(MsgLen - 1)
    BY <1>1
  <1> HIDE DEF a, r
  <1> DEFINE b == (r + k) \div MsgLen
             s == (r + k) % MsgLen
  <1>3. r + k \in Nat
    BY <1>1, <1>2
  <1>4. r + k = MsgLen * b + s /\ b \in Int /\ s \in 0..(MsgLen - 1)
    BY <1>1, <1>3
  <1> HIDE DEF b, s
  <1>5. MsgLen * (a + b) = MsgLen * a + MsgLen * b /\ a + b \in Int
    BY <1>1, <1>2, <1>4
  <1>6. n + k = MsgLen * (a + b) + s
    <2>1. MsgLen * a \in Int /\ MsgLen * b \in Int
      BY <1>1, <1>2, <1>4
    <2> QED
      BY <1>1, <1>2, <1>4, <1>5, <2>1
  <1>7. (n + k) % MsgLen = s
    BY <1>4, <1>5, <1>6, ModUnique
  <1> QED
    BY <1>7 DEF r, s

LEMMA ModSmall == ASSUME NEW n \in 0..(MsgLen - 1) PROVE n % MsgLen = n
  <1>1. n \in Nat /\ n = MsgLen * 0 + n
    BY SizeAssumption
  <1> QED
    BY <1>1, ModUnique

LEMMA ModWhole == MsgLen % MsgLen = 0
  <1>1. MsgLen \in Nat /\ MsgLen = MsgLen * 1 + 0 /\ 0 \in 0..(MsgLen - 1)
    BY SizeAssumption
  <1> QED
    BY <1>1, ModUnique

(* Runs of consecutive tokens. *)
LEMMA RunElements ==
    ASSUME NEW a \in Int, NEW b \in Int, a <= b + 1
    PROVE  /\ Run(a, b) \in Seq(Int) /\ Len(Run(a, b)) = (b - a) + 1
           /\ \A i \in 1..((b - a) + 1) : Run(a, b)[i] = a + (i - 1)
  <1>1. (b - a) + 1 \in Nat
    OBVIOUS
  <1> QED
    BY <1>1 DEF Run

LEMMA RunEmpty == ASSUME NEW a \in Int PROVE Run(a, a - 1) = <<>> /\ Run(a + 1, a) = <<>>
  <1>1. /\ Run(a, a - 1) \in Seq(Int) /\ Len(Run(a, a - 1)) = ((a - 1) - a) + 1
        /\ Run(a + 1, a) \in Seq(Int) /\ Len(Run(a + 1, a)) = (a - (a + 1)) + 1
    <2>1. a - 1 \in Int /\ a + 1 \in Int /\ a <= (a - 1) + 1 /\ a + 1 <= a + 1
      OBVIOUS
    <2> QED
      BY <2>1, RunElements
  <1>2. ((a - 1) - a) + 1 = 0 /\ (a - (a + 1)) + 1 = 0
    OBVIOUS
  <1> QED
    BY <1>1, <1>2

LEMMA RunConcat ==
    ASSUME NEW a \in Int, NEW b \in Int, NEW c \in Int, a <= b + 1, b <= c
    PROVE  Run(a, b) \o Run(b + 1, c) = Run(a, c)
  <1> DEFINE s == Run(a, b)
             t == Run(b + 1, c)
             u == Run(a, c)
             x == s \o t
  <1>1. /\ s \in Seq(Int) /\ Len(s) = (b - a) + 1
        /\ \A i \in 1..((b - a) + 1) : s[i] = a + (i - 1)
    BY RunElements
  <1>2. /\ t \in Seq(Int) /\ Len(t) = c - b
        /\ \A i \in 1..(c - b) : t[i] = (b + 1) + (i - 1)
    <2>1. b + 1 \in Int /\ b + 1 <= c + 1 /\ (c - (b + 1)) + 1 = c - b
      OBVIOUS
    <2> QED
      BY <2>1, RunElements
  <1>3. /\ u \in Seq(Int) /\ Len(u) = (c - a) + 1
        /\ \A i \in 1..((c - a) + 1) : u[i] = a + (i - 1)
    <2>1. a <= c + 1
      OBVIOUS
    <2> QED
      BY <2>1, RunElements
  <1> HIDE DEF s, t, u
  <1>4. /\ x \in Seq(Int) /\ Len(x) = Len(s) + Len(t)
        /\ \A i \in 1..Len(s) : x[i] = s[i]
        /\ \A i \in 1..Len(t) : x[Len(s) + i] = t[i]
    BY <1>1, <1>2, ConcatElements
  <1> HIDE DEF x
  <1>5. Len(x) = Len(u)
    BY <1>1, <1>2, <1>3, <1>4
  <1>6. ASSUME NEW i \in 1..Len(x) PROVE x[i] = u[i]
    <2>0. i \in Nat /\ i >= 1 /\ i <= (c - a) + 1 /\ i \in 1..((c - a) + 1)
      BY <1>3, <1>5
    <2>1. CASE i <= (b - a) + 1
      <3>1. i \in 1..((b - a) + 1)
        BY <2>0, <2>1
      <3> QED
        BY <2>0, <3>1, <1>1, <1>3, <1>4
    <2>2. CASE ~(i <= (b - a) + 1)
      <3> DEFINE j == i - ((b - a) + 1)
      <3>1. j \in 1..(c - b) /\ i = Len(s) + j /\ (b + 1) + (j - 1) = a + (i - 1)
        BY <2>0, <2>2, <1>1
      <3> HIDE DEF j
      <3>2. x[i] = t[j] /\ t[j] = (b + 1) + (j - 1)
        BY <3>1, <1>2, <1>4
      <3> QED
        BY <2>0, <3>1, <3>2, <1>3
    <2> QED
      BY <2>1, <2>2
  <1>7. x = u
    BY <1>3, <1>4, <1>5, <1>6, SeqEqual
  <1> QED
    BY <1>7 DEF x, s, t, u

LEMMA RunRest ==
    ASSUME NEW a \in Int, NEW b \in Int, a <= b + 1, NEW n \in 0..((b - a) + 1)
    PROVE  Rest(Run(a, b), n) = Run(a + n, b)
  <1> DEFINE s == Run(a, b)
             r == Rest(s, n)
             u == Run(a + n, b)
  <1>1. /\ s \in Seq(Int) /\ Len(s) = (b - a) + 1
        /\ \A i \in 1..((b - a) + 1) : s[i] = a + (i - 1)
    BY RunElements
  <1>2. /\ u \in Seq(Int) /\ Len(u) = (b - (a + n)) + 1
        /\ \A i \in 1..((b - (a + n)) + 1) : u[i] = (a + n) + (i - 1)
    <2>1. a + n \in Int /\ a + n <= b + 1
      OBVIOUS
    <2> QED
      BY <2>1, RunElements
  <1> HIDE DEF s, u
  <1>3. /\ r \in Seq(Int) /\ Len(r) = Len(s) - n
        /\ \A i \in 1..(Len(s) - n) : r[i] = s[n + i]
    <2>1. n \in 0..Len(s)
      BY <1>1
    <2> QED
      BY <1>1, <2>1, RestType, RestElements
  <1> HIDE DEF r
  <1>4. Len(r) = Len(u) /\ Len(r) = ((b - a) + 1) - n
    BY <1>1, <1>2, <1>3
  <1>5. ASSUME NEW i \in 1..Len(r) PROVE r[i] = u[i]
    <2>1. /\ i \in 1..(Len(s) - n) /\ n + i \in 1..((b - a) + 1)
          /\ i \in 1..((b - (a + n)) + 1)
          /\ a + ((n + i) - 1) = (a + n) + (i - 1)
      BY <1>1, <1>4
    <2>2. r[i] = s[n + i] /\ s[n + i] = a + ((n + i) - 1)
      BY <2>1, <1>1, <1>3
    <2> QED
      BY <2>1, <2>2, <1>2
  <1>6. r = u
    BY <1>2, <1>3, <1>4, <1>5, SeqEqual
  <1> QED
    BY <1>6 DEF r, s, u

-----------------------------------------------------------------------------
(* The invariant of the request data.  Behind what has been read, c_sock   *)
(* holds the rest of the client's stream, some tokens of it malformed.     *)
Arriving ==
    /\ Len(c_sock) <= c_next
    /\ \A i \in 1..Len(c_sock) : c_sock[i] \in {Consumed + i, Malformed}

(* Before the first read nothing has been sent, and fast mode leaves the   *)
(* request files alone.                                                    *)
Untouched ==
    status = "open" /\ mode = "fast" =>
        /\ c_queue = NULL => Consumed = 0 /\ sent = <<>> /\ history = <<>>
        /\ request_buf = EmptyFile

Unmarred == mishaps \subseteq {"stranded"}

(* The overflow file is in use only after an overflow, and without one a   *)
(* server is connected exactly at a request's end.                         *)
TmpEmpty == status = "open" /\ (mode # "slow" \/ Unmarred) => request_tmp_buf = EmptyFile
AtRequestEnd ==
    status = "open" /\ mode = "slow" /\ Unmarred /\ server => Consumed % MsgLen = 0

ReqInv ==
    /\ Arriving /\ Untouched /\ TmpEmpty /\ AtRequestEnd
    /\ RequestStream /\ HistoryIsIncompleteRequest /\ SlowRequestIntact

-----------------------------------------------------------------------------
(* Files that hold nothing but what was stored. *)
LEMMA StoreEmpty ==
    ASSUME NEW d \in Seq(Int)
    PROVE  /\ Store(EmptyFile, d) = [data |-> d, pos |-> Len(d)]
           /\ Store(EmptyFile, d).data = d /\ Store(EmptyFile, d).pos = Len(d)
  <1>1. EmptyFile.data = <<>> /\ EmptyFile.pos = 0
    BY DEF EmptyFile
  <1>2. SubSeq(<<>>, 1, 0) = <<>> /\ SubSeq(<<>>, (0 + Len(d)) + 1, Len(<<>>)) = <<>>
    <2>1. <<>> \in Seq(Int) /\ Len(<<>>) = 0 /\ Len(d) \in Nat
      OBVIOUS
    <2> QED
      BY <2>1
  <1>3. (<<>> \o d) \o <<>> = d /\ 0 + Len(d) = Len(d)
    BY EmptyConcat
  <1>4. Store(EmptyFile, d) = [data |-> d, pos |-> Len(d)]
    BY <1>1, <1>2, <1>3 DEF Store
  <1> QED
    BY <1>4

LEMMA StoreNothing == Store(EmptyFile, <<>>) = EmptyFile
  <1>1. <<>> \in Seq(Int) /\ Len(<<>>) = 0
    OBVIOUS
  <1> QED
    BY <1>1, StoreEmpty DEF EmptyFile

LEMMA StoreAppend ==
    ASSUME NEW h \in Seq(Int), NEW d \in Seq(Int)
    PROVE  Store(Store(EmptyFile, h), d) = Store(EmptyFile, h \o d)
  <1> DEFINE f == Store(EmptyFile, h)
  <1>1. f.data = h /\ f.pos = Len(h)
    BY StoreEmpty
  <1> HIDE DEF f
  <1>2. Len(h) \in Nat /\ Len(d) \in Nat /\ h \o d \in Seq(Int) /\ Len(h \o d) = Len(h) + Len(d)
    OBVIOUS
  <1>3. SubSeq(h, 1, Len(h)) = h
    OBVIOUS
  <1>4. SubSeq(h, (Len(h) + Len(d)) + 1, Len(h)) = <<>>
    BY <1>2
  <1>5. (h \o d) \o <<>> = h \o d
    BY <1>2, EmptyConcat
  <1>6. Store(f, d) = [data |-> h \o d, pos |-> Len(h) + Len(d)]
    BY <1>1, <1>3, <1>4, <1>5 DEF Store
  <1>7. Store(EmptyFile, h \o d) = [data |-> h \o d, pos |-> Len(h) + Len(d)]
    BY <1>2, StoreEmpty
  <1> QED
    BY <1>6, <1>7 DEF f

-----------------------------------------------------------------------------
(* Reading from the client. *)
LEMMA ClientReads ==
    ASSUME ClientType, Arriving, NEW max \in Nat, c_read_all(max)
    PROVE  /\ Arriving' /\ Consumed \in Nat
           /\ Consumed' = Consumed + Len(ReadAll(c_sock, max))
  <1> DEFINE d == ReadAll(c_sock, max)
             n == Len(d)
             r == Rest(c_sock, n)
  <1>1. c_sock \in Seq(Int) /\ c_next \in Nat /\ Len(c_sock) \in Nat
    BY DEF ClientType
  <1>2. n \in 0..Len(c_sock)
    BY <1>1, ReadAllType
  <1>3. c_sock' = r /\ c_next' = c_next
    BY DEF c_read_all
  <1> HIDE DEF n
  <1>4. /\ r \in Seq(Int) /\ Len(r) = Len(c_sock) - n
        /\ \A i \in 1..(Len(c_sock) - n) : r[i] = c_sock[n + i]
    BY <1>1, <1>2, RestType, RestElements
  <1> HIDE DEF r
  <1>5. Consumed \in Nat /\ Consumed' = Consumed + n /\ Len(c_sock') <= c_next'
    BY <1>1, <1>2, <1>3, <1>4 DEF Arriving, Consumed
  <1>6. ASSUME NEW i \in 1..Len(c_sock') PROVE c_sock'[i] \in {Consumed' + i, Malformed}
    <2>1. i \in 1..(Len(c_sock) - n) /\ n + i \in 1..Len(c_sock) /\ i \in Int
      BY <1>1, <1>2, <1>3, <1>4
    <2>2. c_sock'[i] = c_sock[n + i] /\ c_sock[n + i] \in {Consumed + (n + i), Malformed}
      BY <2>1, <1>3, <1>4 DEF Arriving
    <2>3. Consumed + (n + i) = Consumed' + i
      BY <2>1, <1>2, <1>5
    <2> QED
      BY <2>2, <2>3
  <1> QED
    BY <1>5, <1>6 DEF Arriving, n

LEMMA ParsedRun ==
    ASSUME ClientType, Arriving, NEW max \in Nat, NEW pos, ParsesAsRequest(pos, ReadAll(c_sock, max))
    PROVE  LET d == ReadAll(c_sock, max)
           IN  d = Run(Consumed + 1, Consumed + Len(d)) /\ Consumed \in Nat /\ Len(d) \in Nat
  <1> DEFINE d == ReadAll(c_sock, max)
             m == MinOf(Len(c_sock), max)
             u == Run(Consumed + 1, Consumed + Len(d))
  <1>1. c_sock \in Seq(Int) /\ c_next \in Nat /\ Len(c_sock) \in Nat
    BY DEF ClientType
  <1>2. Consumed \in Nat
    BY <1>1 DEF Arriving, Consumed
  <1>3. m \in 0..Len(c_sock)
    BY <1>1 DEF MinOf
  <1>4. d \in Seq(Int) /\ Len(d) = m /\ \A i \in 1..m : d[i] = c_sock[i]
    BY <1>1, <1>3, FirstType, FirstElements DEF ReadAll
  <1>5. \A i \in 1..Len(d) : d[i] # Malformed
    BY DEF ParsesAsRequest
  <1> HIDE DEF d, m
  <1>6. /\ u \in Seq(Int) /\ Len(u) = Len(d)
        /\ \A i \in 1..Len(d) : u[i] = (Consumed + 1) + (i - 1)
    <2>1. /\ Consumed + 1 \in Int /\ Consumed + Len(d) \in Int
          /\ Consumed + 1 <= (Consumed + Len(d)) + 1
          /\ ((Consumed + Len(d)) - (Consumed + 1)) + 1 = Len(d)
      BY <1>2, <1>3, <1>4
    <2> QED
      BY <2>1, RunElements
  <1> HIDE DEF u
  <1>7. ASSUME NEW i \in 1..Len(d) PROVE d[i] = u[i]
    <2>1. i \in 1..m /\ i \in 1..Len(c_sock) /\ (Consumed + 1) + (i - 1) = Consumed + i
      BY <1>2, <1>3, <1>4
    <2>2. d[i] \in {Consumed + i, Malformed}
      BY <2>1, <1>4 DEF Arriving
    <2> QED
      BY <2>1, <2>2, <1>5, <1>6
  <1>8. d = u
    BY <1>4, <1>6, <1>7, SeqEqual
  <1>9. Len(d) \in Nat
    BY <1>3, <1>4
  <1> QED
    BY <1>2, <1>8, <1>9 DEF d, u

-----------------------------------------------------------------------------
(* What a step has to establish, by the mode it leads to. *)
LEMMA GoneReq == ASSUME status' # "open", Arriving' PROVE ReqInv'
  BY DEF ReqInv, Untouched, TmpEmpty, AtRequestEnd, RequestStream, HistoryIsIncompleteRequest,
     SlowRequestIntact

LEMMA DeletedReq == ASSUME ClientType, delete_conn PROVE ReqInv'
  <1>1. c_sock' = <<>> /\ c_next' = c_next /\ c_next \in Nat /\ status' = "closed"
    BY DEF delete_conn, ClientType
  <1>2. Len(c_sock') = 0
    BY <1>1
  <1>3. Arriving'
    BY <1>1, <1>2 DEF Arriving
  <1> QED
    BY <1>1, <1>3, GoneReq

LEMMA FastReq ==
    ASSUME status' = "open", mode' = "fast", Arriving', c_queue' # NULL,
           request_buf' = EmptyFile, request_tmp_buf' = EmptyFile,
           server' => /\ s_queue' # NULL /\ sent' \o s_queue' = Run(1, Consumed')
                      /\ ppos' = Consumed' % MsgLen
                      /\ history' = Run(Consumed' - ppos' + 1, Consumed')
    PROVE  ReqInv'
  BY DEF ReqInv, Untouched, TmpEmpty, AtRequestEnd, RequestStream, HistoryIsIncompleteRequest,
     SlowRequestIntact

LEMMA TransitionReq ==
    ASSUME status' = "open", mode' = "transition", Arriving', request_tmp_buf' = EmptyFile,
           server' => sent' \o (IF s_queue' = NULL THEN <<>> ELSE s_queue') = Run(1, Consumed'),
           ppos' = Consumed' % MsgLen,
           request_buf' = Store(EmptyFile, Run(Consumed' - ppos' + 1, Consumed'))
    PROVE  ReqInv'
  BY DEF ReqInv, Untouched, TmpEmpty, AtRequestEnd, RequestStream, HistoryIsIncompleteRequest,
     SlowRequestIntact

(* The promise of slow mode, for the case that nothing has gone wrong. *)
SlowPromise ==
    /\ parser = "request" =>
         /\ ppos = Consumed % MsgLen
         /\ request_buf = Store(EmptyFile, Run(Consumed - ppos + 1, Consumed))
    /\ server /\ "s_write" \in pending =>
         /\ request_buf.data = Run(Consumed - MsgLen + 1, Consumed)
         /\ sent = First(request_buf.data, request_buf.pos)
    /\ server /\ "s_write" \notin pending =>
         /\ request_buf = EmptyFile
         /\ sent = Run(Consumed - MsgLen + 1, Consumed)
    /\ request_tmp_buf = EmptyFile
    /\ server => Consumed % MsgLen = 0

LEMMA SlowReq ==
    ASSUME status' = "open", mode' = "slow", Arriving', Unmarred' => SlowPromise'
    PROVE  ReqInv'
  BY DEF ReqInv, Untouched, TmpEmpty, AtRequestEnd, RequestStream, HistoryIsIncompleteRequest,
     SlowRequestIntact, SlowPromise, Unmarred

LEMMA SlowNow ==
    ASSUME ReqInv, status = "open", mode = "slow", Unmarred
    PROVE  SlowPromise
  BY DEF ReqInv, TmpEmpty, AtRequestEnd, SlowRequestIntact, SlowPromise, Unmarred

(* Steps that do not touch the request. *)
LEMMA StillReq ==
    ASSUME ReqInv, Arriving', Consumed' = Consumed,
           UNCHANGED <<status, mode, parser, ppos, server, s_queue, history, request_buf,
                       request_tmp_buf, sent>>,
           "s_write" \in pending' <=> "s_write" \in pending,
           mishaps \subseteq mishaps', c_queue' = NULL => c_queue = NULL
    PROVE  ReqInv'
  <1>1. Unmarred' => Unmarred
    BY DEF Unmarred
  <1>2. Untouched' /\ TmpEmpty' /\ AtRequestEnd'
    BY <1>1 DEF ReqInv, Untouched, TmpEmpty, AtRequestEnd
  <1>3. RequestStream' /\ HistoryIsIncompleteRequest'
    BY DEF ReqInv, RequestStream, HistoryIsIncompleteRequest
  <1>4. SlowRequestIntact'
    BY <1>1 DEF ReqInv, SlowRequestIntact, Unmarred
  <1> QED
    BY <1>2, <1>3, <1>4 DEF ReqInv

LEMMA SameSock ==
    ASSUME Arriving, c_sock' = c_sock, c_next' = c_next
    PROVE  Arriving' /\ Consumed' = Consumed
  BY DEF Arriving, Consumed

(* Writing w tokens of q, which follows s. *)
LEMMA WriteSome ==
    ASSUME NEW s \in Seq(Int), NEW q \in Seq(Int), NEW w \in 0..Len(q)
    PROVE  (s \o First(q, w)) \o Rest(q, w) = s \o q
  <1>1. First(q, w) \in Seq(Int) /\ Rest(q, w) \in Seq(Int) /\ First(q, w) \o Rest(q, w) = q
    BY FirstType, RestType, Split
  <1>2. (s \o First(q, w)) \o Rest(q, w) = s \o (First(q, w) \o Rest(q, w))
    BY <1>1, ConcatAssoc
  <1> QED
    BY <1>1, <1>2

-----------------------------------------------------------------------------
(* Fast mode. *)
LEMMA Shifted ==
    ASSUME NEW c \in Nat, NEW l \in Nat, NEW p \in Nat
    PROVE  /\ (c + l) - (p + l) + 1 = c - p + 1
           /\ c - p + 1 \in Int /\ c - p + 1 <= c + 1
  OBVIOUS

LEMMA FastForwardReq ==
    ASSUME TypeOK, ReqInv, status = "open", mode = "fast",
           NEW pos, NEW cq, NEW sq \in Seq(Int), NEW evts,
           cq # NULL, Len(sq) <= BufSize - 1, pos = Consumed % MsgLen,
           sent \o sq = Run(1, Consumed), history = Run(Consumed - pos + 1, Consumed),
           fast_forward_client(pos, cq, sq, evts)
    PROVE  ReqInv'
  <1> DEFINE max == remaining_space(sq)
             d   == ReadAll(c_sock, max)
             out == sq \o d
             C   == Consumed
             L   == Len(d)
  <1>0. max \in Nat
    BY SizeAssumption DEF remaining_space
  <1>1. ClientType /\ Arriving /\ sent \in Seq(Int)
        /\ request_buf = EmptyFile /\ request_tmp_buf = EmptyFile
    BY DEF TypeOK, GhostType, ReqInv, Untouched, TmpEmpty
  <1>2. CASE ~ParsesAsRequest(pos, d) /\ cq # <<>>
    <2>1. /\ c_read_all(max) /\ c_queue' = cq /\ server' = FALSE
          /\ UNCHANGED <<status, mode, request_buf, request_tmp_buf>>
      BY <1>2 DEF fast_forward_client, free_server, files
    <2>2. Arriving'
      BY <2>1, <1>0, <1>1, ClientReads
    <2> QED
      BY <2>1, <2>2, <1>1, FastReq
  <1>3. CASE (~ParsesAsRequest(pos, d) /\ cq = <<>>) \/ (ParsesAsRequest(pos, d) /\ HasEof(c_sock, c_fin, max))
    <2>1. delete_conn
      BY <1>3 DEF fast_forward_client
    <2> QED
      BY <2>1, <1>1, DeletedReq
  <1>4. CASE ParsesAsRequest(pos, d) /\ ~HasEof(c_sock, c_fin, max)
    <2>1. PICK w \in 0..Len(out) :
             /\ sent' = sent \o First(out, w)
             /\ server' = TRUE /\ ppos' = (pos + Len(d)) % MsgLen
             /\ c_queue' = cq /\ s_queue' = Rest(out, w)
             /\ history' = keep_track_request_history(pos, history, d)
             /\ c_read_all(max)
             /\ UNCHANGED <<status, mode, request_buf, request_tmp_buf>>
      BY <1>4 DEF fast_forward_client, files
    <2>2. Arriving' /\ Consumed' = C + L /\ C \in Nat
      BY <2>1, <1>0, <1>1, ClientReads
    <2>3. d = Run(C + 1, C + L) /\ L \in Nat
      BY <1>0, <1>1, <1>4, ParsedRun
    <2>4. d \in Seq(Int)
      BY <1>0, <1>1, ReadAllType DEF ClientType
    <2> HIDE DEF C, d
    <2>5. out \in Seq(Int)
      BY <2>4
    <2>6. s_queue' # NULL
      <3>1. Rest(out, w) \in Seq(Int)
        BY <2>5, RestType
      <3> QED
        BY <2>1, <3>1, NotNull
    <2>7. sent' \o s_queue' = Run(1, Consumed')
      <3>1. sent' \o s_queue' = sent \o out
        BY <2>1, <2>5, <1>1, WriteSome
      <3>2. sent \o out = (sent \o sq) \o d
        BY <2>4, <1>1, ConcatAssoc
      <3>3. (sent \o sq) \o d = Run(1, C) \o Run(C + 1, C + L)
        BY <2>3 DEF C
      <3>4. Run(1, C) \o Run(C + 1, C + L) = Run(1, C + L)
        <4>1. C \in Int /\ C + L \in Int /\ 1 \in Int /\ 1 <= C + 1 /\ C <= C + L
          BY <2>2, <2>3
        <4> QED
          BY <4>1, RunConcat
      <3> QED
        BY <3>1, <3>2, <3>3, <3>4, <2>2
    <2>8. ppos' = Consumed' % MsgLen /\ history' = Run(Consumed' - ppos' + 1, Consumed')
      <3> DEFINE q == (pos + L) % MsgLen
                 a == C - pos + 1
                 b == (C + L) - q + 1
      <3>0. MsgLen \in Nat /\ MsgLen > 0
        BY SizeAssumption
      <3>1. pos \in 0..(MsgLen - 1) /\ L \in Nat /\ C \in Nat /\ Len(d) = L
        BY <2>2, <2>3, ModType DEF C
      <3>2. q \in 0..(MsgLen - 1) /\ q = (C + L) % MsgLen
        <4>1. ((C % MsgLen) + L) % MsgLen = (C + L) % MsgLen
          BY <3>1, ModAdd
        <4>2. pos + L \in Nat /\ pos = C % MsgLen
          BY <3>1 DEF C
        <4>3. q \in 0..(MsgLen - 1)
          BY <4>2, ModType
        <4> QED
          BY <4>1, <4>2, <4>3
      <3>3. ppos' = q
        BY <2>1
      <3>4. history = Run(a, C)
        BY DEF C
      <3>5. C + 1 \in Int /\ C + L \in Int /\ C + 1 <= (C + L) + 1 /\ ((C + L) - (C + 1)) + 1 = L
        BY <3>1
      <3> HIDE DEF L
      <3>6. CASE pos + L >= MsgLen
        <4>1. q <= (pos + L) - MsgLen
          BY <3>1, <3>6, ModBound
        <4> HIDE DEF q
        <4>2. q <= L /\ L - q \in 0..L /\ (C + 1) + (L - q) = b
          BY <3>0, <3>1, <3>2, <4>1
        <4> HIDE DEF b
        <4>3. Rest(d, L - q) = Run((C + 1) + (L - q), C + L)
          BY <3>5, <4>2, <2>3, RunRest
        <4>4. CompletesMsg(pos, d) /\ LastEnd(pos, d) = L - q
          BY <3>1, <3>6 DEF CompletesMsg, LastEnd, q
        <4>5. keep_track_request_history(pos, history, d) = Run(b, C + L)
          BY <4>2, <4>3, <4>4 DEF keep_track_request_history
        <4> QED
          BY <2>1, <2>2, <3>2, <3>3, <4>5 DEF b
      <3>7. CASE ~(pos + L >= MsgLen)
        <4>1. pos + L \in 0..(MsgLen - 1)
          BY <3>0, <3>1, <3>7
        <4>2. q = pos + L
          BY <4>1, ModSmall
        <4> HIDE DEF q
        <4>3. a \in Int /\ a <= C + 1 /\ C <= C + L /\ b = a /\ C \in Int
          <5>1. pos \in Nat /\ C <= C + L /\ C \in Int
            BY <3>0, <3>1
          <5> QED
            BY <3>1, <4>2, <5>1, Shifted
        <4> HIDE DEF a, b
        <4>4. ~CompletesMsg(pos, d)
          BY <3>1, <3>7 DEF CompletesMsg
        <4>5. Run(a, C) \o Run(C + 1, C + L) = Run(a, C + L)
          BY <3>5, <4>3, RunConcat
        <4>6. keep_track_request_history(pos, history, d) = Run(b, C + L)
          BY <2>3, <3>4, <4>3, <4>4, <4>5 DEF keep_track_request_history
        <4> QED
          BY <2>1, <2>2, <3>2, <3>3, <4>6 DEF b
      <3> QED
        BY <3>6, <3>7
    <2> QED
      BY <1>1, <2>1, <2>2, <2>6, <2>7, <2>8, FastReq
  <1> QED
    BY <1>2, <1>3, <1>4

LEMMA ClientReadableFastReq ==
    ASSUME TypeOK, Wiring, ReqInv, Client_on_readable_fast
    PROVE  ReqInv'
  <1>1. status = "open" /\ mode = "fast" /\ "c_read" \in pending
    BY DEF Client_on_readable_fast, Handles
  <1>2. CASE parser = "none"
    <2>1. c_queue = NULL
      BY <1>1, <1>2 DEF Wiring, Wired, WiredFast
    <2>2. fast_forward_client(0, <<>>, <<>>, pending \union {"s_read"})
      BY <1>2 DEF Client_on_readable_fast
    <2>3. Consumed = 0 /\ sent = <<>> /\ history = <<>>
      BY <1>1, <2>1 DEF ReqInv, Untouched
    <2>4. 0 = Consumed % MsgLen
      BY <2>3, StartOfMsg, ModSmall
    <2>5. sent \o <<>> = Run(1, Consumed) /\ history = Run(Consumed - 0 + 1, Consumed)
      <3>1. Run(1, 0) = <<>> /\ <<>> \o <<>> = <<>>
        BY RunEmpty
      <3> QED
        BY <2>3, <3>1
    <2>6. <<>> \in Seq(Int) /\ <<>> # NULL /\ Len(<<>>) <= BufSize - 1
      BY EmptyQueue, SizeAssumption
    <2> QED
      BY <1>1, <2>2, <2>4, <2>5, <2>6, FastForwardReq
  <1>3. CASE parser # "none"
    <2>1. fast_forward_client(ppos, c_queue, s_queue, pending)
      BY <1>3 DEF Client_on_readable_fast
    <2>2. server /\ c_queue # NULL /\ s_queue # NULL
      BY <1>1, <1>3 DEF Wiring, Wired, WiredFast
    <2>3. s_queue \in Seq(Int) /\ Len(s_queue) <= BufSize - 1
      BY <2>2 DEF TypeOK, QueueType, Queues
    <2>4. /\ sent \o s_queue = Run(1, Consumed) /\ ppos = Consumed % MsgLen
          /\ history = Run(Consumed - ppos + 1, Consumed)
      BY <1>1, <2>2 DEF ReqInv, RequestStream, HistoryIsIncompleteRequest
    <2> QED
      BY <1>1, <2>1, <2>2, <2>3, <2>4, FastForwardReq
  <1> QED
    BY <1>2, <1>3

LEMMA ServerReadableFastReq ==
    ASSUME TypeOK, Wiring, ReqInv, Server_on_readable_fast
    PROVE  ReqInv'
  <1> DEFINE max == remaining_space(c_queue)
             d   == ReadAll(s_sock, max)
             out == c_queue \o d
  <1>1. status = "open" /\ mode = "fast" /\ server
    BY DEF Server_on_readable_fast, Handles, Wiring, Watched
  <1>2. c_queue \in Seq(Int) /\ max \in Nat
    BY <1>1, FastQueue
  <1>3. out \in Seq(Int)
    BY <1>2, ReadAllType DEF TypeOK, ServerType
  <1>4. ClientType /\ Arriving /\ request_buf = EmptyFile /\ request_tmp_buf = EmptyFile
    BY <1>1 DEF TypeOK, ReqInv, Untouched, TmpEmpty
  <1>5. PICK w \in 0..Len(out) :
             \/ /\ server' = FALSE /\ c_queue' = Rest(out, w)
                /\ UNCHANGED <<status, mode, files, c_env>>
             \/ delete_conn
             \/ /\ c_queue' = Rest(out, w) /\ sent' = sent /\ mishaps' = mishaps
                /\ "s_write" \in pending' <=> "s_write" \in pending
                /\ UNCHANGED <<status, mode, parser, ppos, server, s_queue, history, files, c_env>>
    BY DEF Server_on_readable_fast, free_server
  <1> HIDE DEF out
  <1>6. Rest(out, w) # NULL
    BY <1>3, RestType, NotNull
  <1>7. CASE delete_conn
    BY <1>4, <1>7, DeletedReq
  <1>8. CASE UNCHANGED <<status, mode, files, c_env>> /\ server' = FALSE /\ c_queue' = Rest(out, w)
    <2>1. Arriving'
      BY <1>4, <1>8, SameSock DEF c_env
    <2> QED
      BY <1>1, <1>4, <1>6, <1>8, <2>1, FastReq DEF files
  <1>9. CASE /\ c_queue' = Rest(out, w) /\ sent' = sent /\ mishaps' = mishaps
             /\ "s_write" \in pending' <=> "s_write" \in pending
             /\ UNCHANGED <<status, mode, parser, ppos, server, s_queue, history, files, c_env>>
    <2>1. Arriving' /\ Consumed' = Consumed
      BY <1>4, <1>9, SameSock DEF c_env
    <2> QED
      BY <1>6, <1>9, <2>1, StillReq DEF files
  <1> QED
    BY <1>5, <1>7, <1>8, <1>9

LEMMA ClientWritableReq ==
    ASSUME TypeOK, Wiring, ReqInv, Client_on_writable_reply_only \/ Client_on_writable_fast
    PROVE  ReqInv'
  <1>1. status = "open" /\ mode = "fast" /\ c_queue # NULL
    BY DEF Client_on_writable_reply_only, Client_on_writable_fast, Handles, Wiring, Wired, WiredFast
  <1>2. c_queue \in Seq(Int) /\ ClientType /\ Arriving
    BY <1>1, QueueIsSeq DEF TypeOK, QueueType, ReqInv
  <1>3. CASE delete_conn
    BY <1>2, <1>3, DeletedReq
  <1>4. CASE ~delete_conn
    <2>1. PICK w \in 0..Len(c_queue) :
             /\ c_queue' = Rest(c_queue, w) /\ sent' = sent /\ mishaps' = mishaps
             /\ "s_write" \in pending' <=> "s_write" \in pending
             /\ UNCHANGED <<status, mode, parser, ppos, server, s_queue, history, files, c_env>>
      BY <1>4 DEF Client_on_writable_reply_only, Client_on_writable_fast, control
    <2>2. c_queue' # NULL
      BY <1>2, <2>1, RestType, NotNull
    <2>3. Arriving' /\ Consumed' = Consumed
      BY <1>2, <2>1, SameSock DEF c_env
    <2> QED
      BY <2>1, <2>2, <2>3, StillReq DEF files
  <1> QED
    BY <1>3, <1>4

LEMMA ServerWritableFastReq ==
    ASSUME TypeOK, Wiring, ReqInv, Server_on_writable_fast
    PROVE  ReqInv'
  <1>1. status = "open" /\ mode = "fast" /\ server /\ c_queue # NULL /\ s_queue # NULL
    BY DEF Server_on_writable_fast, Handles, Wiring, Watched, Wired, WiredFast
  <1>2. s_queue \in Seq(Int) /\ sent \in Seq(Int) /\ Arriving
    BY <1>1, QueueIsSeq DEF TypeOK, QueueType, GhostType, ReqInv
  <1>3. PICK w \in 0..Len(s_queue) : sent' = sent \o First(s_queue, w) /\ s_queue' = Rest(s_queue, w)
    BY DEF Server_on_writable_fast
  <1>4. UNCHANGED <<status, mode, ppos, server, c_queue, history, request_buf, request_tmp_buf,
                    c_sock, c_next>>
    BY DEF Server_on_writable_fast, files, c_env
  <1>5. Arriving' /\ Consumed' = Consumed
    BY <1>2, <1>4, SameSock
  <1>6. s_queue' # NULL /\ sent' \o s_queue' = sent \o s_queue
    BY <1>2, <1>3, RestType, NotNull, WriteSome
  <1>7. /\ request_buf = EmptyFile /\ request_tmp_buf = EmptyFile
        /\ sent \o s_queue = Run(1, Consumed)
        /\ ppos = Consumed % MsgLen /\ history = Run(Consumed - ppos + 1, Consumed)
    BY <1>1 DEF ReqInv, Untouched, TmpEmpty, RequestStream, HistoryIsIncompleteRequest
  <1> QED
    BY <1>1, <1>4, <1>5, <1>6, <1>7, FastReq

-----------------------------------------------------------------------------
(* Leaving fast mode. *)
LEMMA SlowIdleReq ==
    ASSUME TypeOK, Wiring, ReqInv, set_slow_mode_idle
    PROVE  ReqInv'
  <1>1. /\ status = "open" /\ mode = "fast" /\ parser = "none"
        /\ status' = "open" /\ mode' = "slow" /\ parser' = "request" /\ ppos' = 0
        /\ UNCHANGED <<server, request_buf, request_tmp_buf, c_sock, c_next>>
    BY DEF set_slow_mode_idle, Listed, files, c_env
  <1>2. ~server /\ Arriving /\ request_buf = EmptyFile /\ request_tmp_buf = EmptyFile
    BY <1>1 DEF Wiring, Wired, WiredFast, ReqInv, Untouched, TmpEmpty
  <1>3. Arriving' /\ Consumed' = Consumed
    BY <1>1, <1>2, SameSock
  <1>4. ASSUME Unmarred' PROVE SlowPromise'
    <2>1. c_queue = NULL
      BY <1>4 DEF set_slow_mode_idle, Unmarred
    <2>2. Consumed' = 0
      BY <1>1, <1>3, <2>1 DEF ReqInv, Untouched
    <2>3. ppos' = Consumed' % MsgLen
      BY <1>1, <2>2, StartOfMsg, ModSmall
    <2>4. Store(EmptyFile, Run(Consumed' - ppos' + 1, Consumed')) = EmptyFile
      <3>1. Run(1, 0) = <<>>
        BY RunEmpty
      <3> QED
        BY <1>1, <2>2, <3>1, StoreNothing
    <2> QED
      BY <1>1, <1>2, <2>3, <2>4 DEF SlowPromise
  <1> QED
    BY <1>1, <1>3, <1>4, SlowReq

LEMMA SlowBusyReq ==
    ASSUME TypeOK, Wiring, ReqInv, set_slow_mode_busy
    PROVE  ReqInv'
  <1>1. /\ status = "open" /\ mode = "fast" /\ parser # "none"
        /\ status' = "open" /\ mode' = "transition"
        /\ s_queue' = IF s_queue # <<>> THEN s_queue ELSE NULL
        /\ request_buf' = Store(EmptyFile, history)
        /\ UNCHANGED <<server, ppos, request_tmp_buf, sent, c_sock, c_next>>
    BY DEF set_slow_mode_busy, Listed, copy_data, c_env
  <1>2. server /\ s_queue # NULL
    BY <1>1 DEF Wiring, Wired, WiredFast
  <1>3. /\ Arriving /\ request_tmp_buf = EmptyFile
        /\ sent \o s_queue = Run(1, Consumed)
        /\ ppos = Consumed % MsgLen /\ history = Run(Consumed - ppos + 1, Consumed)
    BY <1>1, <1>2 DEF ReqInv, TmpEmpty, RequestStream, HistoryIsIncompleteRequest
  <1>4. Arriving' /\ Consumed' = Consumed
    BY <1>1, <1>3, SameSock
  <1>5. (IF s_queue' = NULL THEN <<>> ELSE s_queue') = s_queue
    BY <1>1, <1>2
  <1> QED
    BY <1>1, <1>3, <1>4, <1>5, TransitionReq

LEMMA TransitionReadReq ==
    ASSUME TypeOK, Wiring, ReqInv, Server_on_readable_transition
    PROVE  ReqInv'
  <1>1. /\ "s_write" \in pending' <=> "s_write" \in pending
        /\ UNCHANGED <<status, mode, parser, ppos, server, queues, request_buf, request_tmp_buf,
                       c_env, sent, mishaps>>
    BY DEF Server_on_readable_transition
  <1>2. Arriving' /\ Consumed' = Consumed
    BY <1>1, SameSock DEF ReqInv, c_env
  <1> QED
    BY <1>1, <1>2, StillReq DEF queues

LEMMA TransitionEndsReq ==
    ASSUME TypeOK, Wiring, ReqInv, Server_closed_in_transition \/ Transition_timeout
    PROVE  ReqInv'
  <1>1. /\ status = "open" /\ mode = "transition" /\ status' = "open" /\ mode' = "slow"
        /\ server' = FALSE
        /\ UNCHANGED <<parser, ppos, request_buf, request_tmp_buf, c_sock, c_next>>
    BY DEF Server_closed_in_transition, Transition_timeout, finish_transition, free_server,
       Handles, files, c_env
  <1>2. Arriving' /\ Consumed' = Consumed
    BY <1>1, SameSock DEF ReqInv
  <1>3. SlowPromise'
    BY <1>1, <1>2 DEF ReqInv, HistoryIsIncompleteRequest, TmpEmpty, SlowPromise
  <1> QED
    BY <1>1, <1>2, <1>3, SlowReq

LEMMA TransitionWriteReq ==
    ASSUME TypeOK, Wiring, ReqInv, Server_on_writable_transition
    PROVE  ReqInv'
  <1>1. /\ status = "open" /\ mode = "transition"
        /\ UNCHANGED <<mode, ppos, server, request_buf, request_tmp_buf, c_sock, c_next>>
    BY DEF Server_on_writable_transition, Handles, files, c_env
  <1>2. Arriving' /\ Consumed' = Consumed
    BY <1>1, SameSock DEF ReqInv
  <1>3. CASE status' # "open"
    BY <1>2, <1>3, GoneReq
  <1>4. CASE status' = "open"
    <2>1. s_queue # NULL
      BY <1>4 DEF Server_on_writable_transition
    <2>2. s_queue \in Seq(Int) /\ sent \in Seq(Int)
      BY <2>1, QueueIsSeq DEF TypeOK, QueueType, GhostType
    <2>3. PICK w \in 0..Len(s_queue) :
             /\ sent' = sent \o First(s_queue, w)
             /\ s_queue' = IF w = Len(s_queue) THEN NULL ELSE Rest(s_queue, w)
      BY <2>1 DEF Server_on_writable_transition
    <2>4. /\ Rest(s_queue, w) \in Seq(Int) /\ Len(Rest(s_queue, w)) = Len(s_queue) - w
          /\ Rest(s_queue, w) # NULL /\ sent' \o Rest(s_queue, w) = sent \o s_queue
      BY <2>2, <2>3, RestType, NotNull, WriteSome
    <2>5. (IF s_queue' = NULL THEN <<>> ELSE s_queue') = Rest(s_queue, w)
      <3>1. CASE w = Len(s_queue)
        <4>1. Len(Rest(s_queue, w)) = 0
          BY <3>1, <2>2, <2>4
        <4> QED
          BY <3>1, <2>3, <2>4, <4>1
      <3> QED
        BY <3>1, <2>3, <2>4
    <2>6. /\ server => sent \o s_queue = Run(1, Consumed)
          /\ ppos = Consumed % MsgLen /\ request_tmp_buf = EmptyFile
          /\ request_buf = Store(EmptyFile, Run(Consumed - ppos + 1, Consumed))
      BY <1>1, <2>1 DEF ReqInv, RequestStream, HistoryIsIncompleteRequest, TmpEmpty
    <2> QED
      BY <1>1, <1>2, <1>4, <2>4, <2>5, <2>6, TransitionReq
  <1> QED
    BY <1>3, <1>4

-----------------------------------------------------------------------------
(* Slow mode. *)

(* A block that leaves the request incomplete. *)
LEMMA GrowingReq ==
    ASSUME ClientType, Arriving, SlowPromise, parser = "request", ppos \in 0..(MsgLen - 1),
           NEW d, d = ReadAll(c_sock, BufSize), ParsesAsRequest(ppos, d)
    PROVE  /\ Consumed \in Nat /\ Len(d) \in Nat /\ d \in Seq(Int)
           /\ Store(request_buf, d) = Store(EmptyFile, Run(Consumed - ppos + 1, Consumed + Len(d)))
           /\ (ppos + Len(d)) % MsgLen = (Consumed + Len(d)) % MsgLen
  <1> DEFINE C == Consumed
             L == Len(d)
             a == C - ppos + 1
  <1>0. BufSize \in Nat /\ MsgLen \in Nat /\ MsgLen > 0
    BY SizeAssumption
  <1>1. d = Run(C + 1, C + L) /\ C \in Nat /\ L \in Nat
    BY <1>0, ParsedRun
  <1>2. d \in Seq(Int)
    BY <1>0, ReadAllType DEF ClientType
  <1>3. ppos = C % MsgLen /\ request_buf = Store(EmptyFile, Run(a, C))
    BY DEF SlowPromise
  <1> HIDE DEF C, L
  <1>4. ((C % MsgLen) + L) % MsgLen = (C + L) % MsgLen
    BY <1>1, ModAdd
  <1>5. a \in Int /\ a <= C + 1 /\ C \in Int /\ C + L \in Int /\ C <= C + L
    <2>1. ppos \in Nat
      BY <1>0
    <2> QED
      BY <1>1, <2>1
  <1> HIDE DEF a
  <1>6. Run(a, C) \o Run(C + 1, C + L) = Run(a, C + L) /\ Run(a, C) \in Seq(Int)
    BY <1>5, RunConcat, RunElements
  <1>7. Store(request_buf, d) = Store(EmptyFile, Run(a, C) \o d)
    BY <1>2, <1>3, <1>6, StoreAppend
  <1> QED
    BY <1>1, <1>2, <1>3, <1>4, <1>6, <1>7 DEF C, L, a

LEMMA ClientReadableSlowReq ==
    ASSUME TypeOK, Wiring, ReqInv, Client_on_readable_slow
    PROVE  ReqInv'
  <1> DEFINE d == ReadAll(c_sock, BufSize)
             C == Consumed
             L == Len(d)
  <1>0. BufSize \in Nat /\ MsgLen \in Nat /\ MsgLen > 0
    BY SizeAssumption
  <1>1. status = "open" /\ mode = "slow" /\ "c_read" \in pending /\ ClientType /\ Arriving
        /\ ppos \in 0..(MsgLen - 1)
    BY DEF Client_on_readable_slow, Handles, TypeOK, ControlType, ReqInv
  <1>2. ~server /\ parser = "request"
    <2>1. ~server
      BY <1>1 DEF Wiring, ServerOnlyWhenClientPaused
    <2>2. parser # "none" /\ parser # "response"
      BY <1>1, <2>1 DEF Wiring, Wired, WiredSlow
    <2> QED
      BY <2>1, <2>2 DEF TypeOK, ControlType
  <1>3. CASE delete_conn
    BY <1>1, <1>3, DeletedReq
  <1>4. CASE ~ParsesAsRequest(ppos, d) /\ ~delete_conn
    <2>1. /\ c_read_all(BufSize) /\ parser' = "none"
          /\ UNCHANGED <<status, mode, server, request_tmp_buf, mishaps>>
      BY <1>4 DEF Client_on_readable_slow, reply_only, files, ghosts
    <2>2. Arriving'
      BY <1>0, <1>1, <2>1, ClientReads
    <2>3. Unmarred' => SlowPromise'
      BY <1>1, <1>2, <2>1 DEF ReqInv, TmpEmpty, SlowPromise, Unmarred
    <2> QED
      BY <1>1, <2>1, <2>2, <2>3, SlowReq
  <1>5. CASE ParsesAsRequest(ppos, d) /\ ~CompletesMsg(ppos, d) /\ ~delete_conn
    <2>1. /\ request_buf' = Store(request_buf, d) /\ ppos' = ppos + L /\ c_read_all(BufSize)
          /\ UNCHANGED <<status, mode, parser, server, request_tmp_buf, mishaps>>
      BY <1>5 DEF Client_on_readable_slow, ghosts
    <2>2. Arriving' /\ Consumed' = C + L /\ C \in Nat
      BY <1>0, <1>1, <2>1, ClientReads
    <2>3. ASSUME Unmarred' PROVE SlowPromise'
      <3>1. SlowPromise
        BY <1>1, <2>1, <2>3, SlowNow DEF Unmarred
      <3>2. /\ L \in Nat /\ (ppos + L) % MsgLen = (C + L) % MsgLen
            /\ request_buf' = Store(EmptyFile, Run(C - ppos + 1, C + L))
        BY <1>1, <1>2, <1>5, <2>1, <3>1, GrowingReq
      <3>3. ppos + L \in 0..(MsgLen - 1)
        BY <1>0, <1>1, <1>5, <3>2 DEF CompletesMsg
      <3> HIDE DEF L, C
      <3>4. ppos' = Consumed' % MsgLen
        BY <2>1, <2>2, <3>2, <3>3, ModSmall
      <3>5. Consumed' - ppos' + 1 = C - ppos + 1
        BY <1>0, <1>1, <2>1, <2>2, <3>2, Shifted
      <3> QED
        BY <1>2, <2>1, <2>2, <3>1, <3>2, <3>4, <3>5 DEF SlowPromise
    <2> QED
      BY <1>1, <2>1, <2>2, <2>3, SlowReq
  <1>6. CASE ParsesAsRequest(ppos, d) /\ CompletesMsg(ppos, d) /\ ~delete_conn
    <2> DEFINE e == FirstEnd(ppos)
    <2>1. /\ request_buf' = Rewind(Store(request_buf, First(d, e)))
          /\ request_tmp_buf' = Store(request_tmp_buf, Rest(d, e))
          /\ mishaps' = IF e < L THEN mishaps \union {"overflow"} ELSE mishaps
          /\ parser' = "response" /\ server' = TRUE /\ sent' = <<>>
          /\ "s_write" \in pending' /\ c_read_all(BufSize)
          /\ UNCHANGED <<status, mode>>
      BY <1>6 DEF Client_on_readable_slow
    <2>2. Arriving' /\ Consumed' = C + L /\ C \in Nat
      BY <1>0, <1>1, <2>1, ClientReads
    <2>3. ASSUME Unmarred' PROVE SlowPromise'
      <3>1. Unmarred /\ ~(e < L)
        BY <2>1, <2>3 DEF Unmarred
      <3>2. SlowPromise
        BY <1>1, <3>1, SlowNow
      <3>3. /\ L \in Nat /\ (ppos + L) % MsgLen = (C + L) % MsgLen /\ d \in Seq(Int)
            /\ Store(request_buf, d) = Store(EmptyFile, Run(C - ppos + 1, C + L))
        BY <1>1, <1>2, <1>6, <3>2, GrowingReq
      <3>4. e = L /\ ppos + L = MsgLen
        BY <1>0, <1>1, <1>6, <3>1, <3>3 DEF CompletesMsg, FirstEnd
      <3>5. First(d, e) = d /\ Rest(d, e) = <<>>
        BY <3>3, <3>4 DEF First, Rest
      <3>6. request_tmp_buf' = EmptyFile
        BY <2>1, <3>2, <3>5, StoreNothing DEF SlowPromise
      <3>7. (C + L) % MsgLen = 0
        BY <3>3, <3>4, ModWhole
      <3> HIDE DEF d, L, e
      <3>8. (C + L) - MsgLen + 1 = C - ppos + 1
        <4>1. ppos \in Nat
          BY <1>0, <1>1
        <4> QED
          BY <2>2, <3>3, <3>4, <4>1, Shifted
      <3>9. C - ppos + 1 \in Int /\ C + L \in Int /\ C - ppos + 1 <= (C + L) + 1
        <4>1. ppos \in Nat
          BY <1>0, <1>1
        <4> QED
          BY <2>2, <3>3, <4>1
      <3> HIDE DEF C
      <3>10. Run(C - ppos + 1, C + L) \in Seq(Int)
        BY <3>9, RunElements
      <3>11. request_buf'.data = Run(C - ppos + 1, C + L) /\ request_buf'.pos = 0
        BY <2>1, <3>3, <3>5, <3>10, StoreEmpty DEF Rewind
      <3>12. sent' = First(request_buf'.data, request_buf'.pos)
        BY <2>1, <3>10, <3>11 DEF First
      <3> QED
        BY <2>1, <2>2, <3>6, <3>7, <3>8, <3>11, <3>12 DEF SlowPromise
    <2> QED
      BY <1>1, <2>1, <2>2, <2>3, SlowReq
  <1> QED
    BY <1>3, <1>4, <1>5, <1>6

LEMMA SendResponseReq ==
    ASSUME TypeOK, ReqInv, send_response_slowly
    PROVE  ReqInv'
  <1>1. ClientType /\ Arriving
    BY DEF TypeOK, ReqInv
  <1>2. CASE delete_conn
    BY <1>1, <1>2, DeletedReq
  <1>3. CASE ~delete_conn
    <2>1. /\ "s_write" \in pending' <=> "s_write" \in pending
          /\ UNCHANGED <<status, mode, parser, ppos, server, queues, request_buf, request_tmp_buf,
                         c_env, sent, mishaps>>
      BY <1>3 DEF send_response_slowly, control, files, ghosts
    <2>2. Arriving' /\ Consumed' = Consumed
      BY <1>1, <2>1, SameSock DEF c_env
    <2> QED
      BY <2>1, <2>2, StillReq DEF queues
  <1> QED
    BY <1>2, <1>3

LEMMA ServerReadableSlowReq ==
    ASSUME TypeOK, Wiring, ReqInv, Server_on_readable_slow
    PROVE  ReqInv'
  <1>1. /\ status = "open" /\ mode = "slow" /\ server /\ Arriving
        /\ status' = "open" /\ mode' = "slow" /\ mishaps \subseteq mishaps'
        /\ UNCHANGED <<request_buf, request_tmp_buf, c_sock, c_next, sent>>
    BY DEF Server_on_readable_slow, Handles, Wiring, Watched, ReqInv, NoteOutrun, c_env
  <1>2. Arriving' /\ Consumed' = Consumed
    BY <1>1, SameSock
  <1>3. ASSUME Unmarred' PROVE SlowPromise'
    <2>1. SlowPromise
      BY <1>1, <1>3, SlowNow DEF Unmarred
    <2>2. \/ server' = FALSE /\ parser' = "none"
          \/ /\ server' = FALSE /\ parser' = "request" /\ ppos' = 0
             /\ mishaps' = IF "s_write" \in pending THEN mishaps \union {"outrun"} ELSE mishaps
          \/ /\ UNCHANGED <<parser, ppos, server>>
             /\ "s_write" \in pending' <=> "s_write" \in pending
      BY DEF Server_on_readable_slow, free_server, reply_only, NoteOutrun
    <2>3. CASE server' = FALSE /\ parser' = "none"
      BY <1>1, <2>1, <2>3 DEF SlowPromise
    <2>4. CASE /\ server' = FALSE /\ parser' = "request" /\ ppos' = 0
               /\ mishaps' = IF "s_write" \in pending THEN mishaps \union {"outrun"} ELSE mishaps
      <3>1. "s_write" \notin pending
        BY <1>3, <2>4 DEF Unmarred
      <3>2. request_buf = EmptyFile /\ Consumed % MsgLen = 0 /\ request_tmp_buf = EmptyFile
        BY <1>1, <2>1, <3>1 DEF SlowPromise
      <3>3. Run(Consumed - 0 + 1, Consumed) = <<>>
        <4>1. Consumed \in Int
          BY DEF Consumed, TypeOK, ClientType
        <4>2. Consumed - 0 + 1 = Consumed + 1
          BY <4>1
        <4> QED
          BY <4>1, <4>2, RunEmpty
      <3> QED
        BY <1>1, <1>2, <2>4, <3>2, <3>3, StoreNothing DEF SlowPromise
    <2>5. CASE /\ UNCHANGED <<parser, ppos, server>>
               /\ "s_write" \in pending' <=> "s_write" \in pending
      BY <1>1, <1>2, <2>1, <2>5 DEF SlowPromise
    <2> QED
      BY <2>2, <2>3, <2>4, <2>5
  <1> QED
    BY <1>1, <1>2, <1>3, SlowReq

(* What was sent and the next w fetched tokens are a beginning of the file. *)
LEMMA SentGrows ==
    ASSUME NEW f \in Files, NEW w \in 0..Len(Fetched(f, BufSize))
    PROVE  LET d == Fetched(f, BufSize)
           IN  /\ First(f.data, f.pos) \o First(d, w) = First(f.data, f.pos + w)
               /\ Advance(f, Len(d), w).data = f.data /\ Advance(f, Len(d), w).pos = f.pos + w
  <1> DEFINE d == Fetched(f, BufSize)
             s == f.data
             p == f.pos
             u == Unread(f)
             x == First(s, p)
             y == First(d, w)
             z == First(s, p + w)
             v == x \o y
  <1>0. BufSize \in Nat
    BY SizeAssumption
  <1>1. s \in Seq(Int) /\ p \in Nat /\ p <= Len(s) /\ Len(s) \in Nat
    BY DEF Files
  <1>2. /\ d = First(u, Len(d)) /\ Len(d) \in 0..Len(u) /\ u = Rest(s, p)
        /\ u \in Seq(Int) /\ Len(u) = Len(s) - p
    BY <1>0, FetchedIsFirst, UnreadType
  <1>3. w \in 0..Len(d)
    OBVIOUS
  <1> HIDE DEF u, d
  <1>4. d \in Seq(Int) /\ \A i \in 1..Len(d) : d[i] = u[i]
    BY <1>2, FirstType, FirstElements
  <1>5. \A i \in 1..(Len(s) - p) : u[i] = s[p + i]
    <2>1. p \in 0..Len(s)
      BY <1>1
    <2> QED
      BY <1>1, <1>2, <2>1, RestElements
  <1>6. w \in Nat /\ w <= Len(d) /\ Len(d) \in Nat /\ Len(d) <= Len(s) - p /\ p + w <= Len(s)
    BY <1>1, <1>2, <1>3, <1>4
  <1>7. Advance(f, Len(d), w).data = s /\ Advance(f, Len(d), w).pos = p + w
    <2>1. (p + Len(d)) - (Len(d) - w) = p + w
      BY <1>1, <1>6
    <2> QED
      BY <2>1 DEF Advance
  <1> HIDE DEF s, p
  <1>8. x \in Seq(Int) /\ Len(x) = p /\ \A i \in 1..p : x[i] = s[i]
    <2>1. p \in 0..Len(s)
      BY <1>1
    <2> QED
      BY <1>1, <2>1, FirstType, FirstElements
  <1>9. y \in Seq(Int) /\ Len(y) = w /\ \A i \in 1..w : y[i] = d[i]
    BY <1>3, <1>4, FirstType, FirstElements
  <1>10. z \in Seq(Int) /\ Len(z) = p + w /\ \A i \in 1..(p + w) : z[i] = s[i]
    <2>1. p + w \in 0..Len(s)
      BY <1>1, <1>6
    <2> QED
      BY <1>1, <2>1, FirstType, FirstElements
  <1> HIDE DEF x, y, z
  <1>11. /\ v \in Seq(Int) /\ Len(v) = p + w
         /\ \A i \in 1..p : v[i] = x[i]
         /\ \A i \in 1..w : v[p + i] = y[i]
    BY <1>8, <1>9, ConcatElements
  <1> HIDE DEF v
  <1>12. ASSUME NEW i \in 1..Len(v) PROVE v[i] = z[i]
    <2>0. i \in Nat /\ i >= 1 /\ i <= p + w /\ i \in 1..(p + w)
      BY <1>1, <1>6, <1>11
    <2>1. CASE i <= p
      <3>1. i \in 1..p
        BY <2>0, <2>1
      <3> QED
        BY <2>0, <3>1, <1>8, <1>10, <1>11
    <2>2. CASE ~(i <= p)
      <3> DEFINE j == i - p
      <3>1. j \in 1..w /\ j \in 1..Len(d) /\ j \in 1..(Len(s) - p) /\ i = p + j
        BY <2>0, <2>2, <1>1, <1>6
      <3> HIDE DEF j
      <3>2. v[p + j] = y[j] /\ y[j] = d[j] /\ d[j] = u[j] /\ u[j] = s[p + j]
        BY <3>1, <1>4, <1>5, <1>9, <1>11
      <3> QED
        BY <2>0, <3>1, <3>2, <1>10
    <2> QED
      BY <2>1, <2>2
  <1>13. v = z
    BY <1>10, <1>11, <1>12, SeqEqual
  <1> QED
    BY <1>7, <1>13 DEF v, x, y, z, s, p, d

LEMMA SendRequestReq ==
    ASSUME TypeOK, Wiring, ReqInv, send_request_slowly
    PROVE  ReqInv'
  <1> DEFINE d == Fetched(request_buf, BufSize)
  <1>1. /\ status = "open" /\ mode = "slow" /\ "s_write" \in pending /\ server /\ Arriving
        /\ request_buf \in Files
        /\ UNCHANGED <<status, mode, parser, ppos, server, c_sock, c_next, mishaps>>
    BY DEF send_request_slowly, Handles, Wiring, Watched, ReqInv, TypeOK, FileType, c_env
  <1>2. Arriving' /\ Consumed' = Consumed
    BY <1>1, SameSock
  <1>3. parser = "response"
    BY <1>1 DEF Wiring, Wired, WiredSlow
  <1>4. ASSUME Unmarred' PROVE SlowPromise'
    <2>1. SlowPromise
      BY <1>1, <1>4, SlowNow DEF Unmarred
    <2>2. /\ request_buf.data = Run(Consumed - MsgLen + 1, Consumed)
          /\ sent = First(request_buf.data, request_buf.pos)
          /\ request_tmp_buf = EmptyFile /\ Consumed % MsgLen = 0
      BY <1>1, <2>1 DEF SlowPromise
    <2>3. CASE d # <<>>
      <3>1. PICK w \in 0..Len(d) :
               /\ request_buf' = Advance(request_buf, Len(d), w)
               /\ sent' = sent \o First(d, w)
               /\ UNCHANGED <<pending, request_tmp_buf>>
        BY <2>3 DEF send_request_slowly
      <3>2. /\ request_buf'.data = request_buf.data
            /\ sent' = First(request_buf'.data, request_buf'.pos)
        BY <1>1, <2>2, <3>1, SentGrows
      <3> QED
        BY <1>1, <1>2, <1>3, <2>2, <3>1, <3>2 DEF SlowPromise
    <2>4. CASE d = <<>>
      <3>1. /\ "s_write" \notin pending' /\ request_buf' = request_tmp_buf
            /\ request_tmp_buf' = EmptyFile /\ sent' = sent
        BY <2>4 DEF send_request_slowly
      <3>2. sent = request_buf.data
        <4>1. /\ request_buf.data \in Seq(Int) /\ request_buf.pos \in Nat
              /\ request_buf.pos <= Len(request_buf.data)
          BY <1>1 DEF Files
        <4>2. Unread(request_buf) = <<>> /\ Len(Unread(request_buf)) = Len(request_buf.data) - request_buf.pos
          BY <1>1, <2>4, FetchedNothing, UnreadType
        <4>3. request_buf.pos = Len(request_buf.data)
          BY <4>1, <4>2
        <4>4. First(request_buf.data, Len(request_buf.data)) = request_buf.data
          BY <4>1 DEF First
        <4> QED
          BY <2>2, <4>3, <4>4
      <3> QED
        BY <1>1, <1>2, <1>3, <2>2, <3>1, <3>2 DEF SlowPromise
    <2> QED
      BY <2>3, <2>4
  <1> QED
    BY <1>1, <1>2, <1>4, SlowReq

-----------------------------------------------------------------------------
(* The peers. *)
LEMMA ClientSendsReq ==
    ASSUME ClientType, Arriving, Client_sends
    PROVE  Arriving' /\ Consumed' = Consumed
  <1>1. c_sock \in Seq(Int) /\ c_next \in Nat /\ Len(c_sock) \in Nat /\ c_next' = c_next + 1
    BY DEF ClientType, Client_sends
  <1>2. PICK t \in {c_next + 1, Malformed} : c_sock' = c_sock \o <<t>>
    BY DEF Client_sends
  <1>3. <<t>> \in Seq(Int) /\ Len(<<t>>) = 1 /\ <<t>>[1] = t
    BY <1>1 DEF Malformed
  <1>4. /\ Len(c_sock') = Len(c_sock) + 1
        /\ \A i \in 1..Len(c_sock) : c_sock'[i] = c_sock[i]
        /\ c_sock'[Len(c_sock) + 1] = t
    BY <1>1, <1>2, <1>3, ConcatElements
  <1>5. Consumed' = Consumed /\ Consumed + (Len(c_sock) + 1) = c_next + 1
        /\ Len(c_sock') <= c_next'
    BY <1>1, <1>4 DEF Consumed, Arriving
  <1>6. ASSUME NEW i \in 1..Len(c_sock') PROVE c_sock'[i] \in {Consumed + i, Malformed}
    <2>1. i \in 1..Len(c_sock) \/ i = Len(c_sock) + 1
      BY <1>1, <1>4
    <2>2. CASE i \in 1..Len(c_sock)
      BY <2>2, <1>4 DEF Arriving
    <2>3. CASE i = Len(c_sock) + 1
      BY <2>3, <1>2, <1>4, <1>5
    <2> QED
      BY <2>1, <2>2, <2>3
  <1> QED
    BY <1>5, <1>6 DEF Arriving

LEMMA PeersReq ==
    ASSUME TypeOK, ReqInv, PeerNext
    PROVE  ReqInv'
  <1>1. UNCHANGED <<control, queues, files, ghosts>>
    BY DEF PeerNext, Client_sends, Client_closes, Server_sends, Server_closes
  <1>2. Arriving' /\ Consumed' = Consumed
    <2>1. ClientType /\ Arriving
      BY DEF TypeOK, ReqInv
    <2>2. CASE Client_sends
      BY <2>1, <2>2, ClientSendsReq
    <2>3. CASE ~Client_sends
      <3>1. c_sock' = c_sock /\ c_next' = c_next
        BY <2>3 DEF PeerNext, Client_closes, Server_sends, Server_closes, c_env
      <3> QED
        BY <2>1, <3>1, SameSock
    <2> QED
      BY <2>2, <2>3
  <1> QED
    BY <1>1, <1>2, StillReq DEF control, queues, files, ghosts

LEMMA InitReqInv == Init => ReqInv
  <1> SUFFICES ASSUME Init PROVE ReqInv
    OBVIOUS
  <1>1. c_sock = <<>> /\ c_next = 0 /\ Len(c_sock) = 0
    BY DEF Init
  <1>2. Consumed = 0 /\ 1..Len(c_sock) = {} /\ Len(c_sock) <= c_next
    <2>1. 0 - 0 = 0 /\ 1..0 = {} /\ 0 <= 0
      OBVIOUS
    <2> QED
      BY <1>1, <2>1, Zenon DEF Consumed
  <1>3. Arriving
    BY <1>2 DEF Arriving
  <1> QED
    BY <1>2, <1>3 DEF Init, ReqInv, Untouched, TmpEmpty, AtRequestEnd, RequestStream,
       HistoryIsIncompleteRequest, SlowRequestIntact

LEMMA StepReqInv == Inv /\ ReqInv /\ [Next]_vars => ReqInv'
  <1> SUFFICES ASSUME TypeOK, Wiring, ReqInv, [Next]_vars PROVE ReqInv'
    BY DEF Inv
  <1>0. ASSUME delete_conn PROVE ReqInv'
    BY <1>0, DeletedReq DEF TypeOK
  <1>1. CASE FastNext
    <2>1. CASE Client_on_readable_unreachable
      BY <1>0, <2>1 DEF Client_on_readable_unreachable
    <2> QED
      BY <1>1, <2>1, ClientReadableFastReq, ServerReadableFastReq, ClientWritableReq,
         ServerWritableFastReq DEF FastNext
  <1>2. CASE TransitionNext
    BY <1>2, SlowIdleReq, SlowBusyReq, TransitionReadReq, TransitionEndsReq,
       TransitionWriteReq DEF TransitionNext
  <1>3. CASE SlowNext
    <2>1. CASE Client_closed_slow
      BY <1>0, <2>1 DEF Client_closed_slow
    <2> QED
      BY <1>3, <2>1, ClientReadableSlowReq, SendResponseReq, ServerReadableSlowReq,
         SendRequestReq DEF SlowNext
  <1>4. CASE Monitor_drop
    BY <1>0, <1>4 DEF Monitor_drop
  <1>5. CASE PeerNext
    BY <1>5, PeersReq
  <1>6. CASE UNCHANGED vars
    <2>1. UNCHANGED <<control, queues, files, c_env, ghosts>>
      BY <1>6 DEF vars
    <2>2. Arriving' /\ Consumed' = Consumed
      BY <2>1, SameSock DEF ReqInv, c_env
    <2> QED
      BY <2>1, <2>2, StillReq DEF control, queues, files, ghosts
  <1> QED
    BY <1>1, <1>2, <1>3, <1>4, <1>5, <1>6 DEF Next

(* Until the transition ends, the server receives exactly the client's     *)
(* stream, across pauses, partial writes and the mode switch.              *)
THEOREM StreamCorrect == Spec => []RequestStream
  <1>1. ReqInv => RequestStream
    BY DEF ReqInv
  <1> QED
    BY <1>1, InitInv, StepInv, InitReqInv, StepReqInv, PTL DEF Spec

(* keep_track_request_history keeps exactly the incomplete request, and    *)
(* set_slow_mode hands exactly this to request_buf.                        *)
THEOREM HistoryCorrect == Spec => []HistoryIsIncompleteRequest
  <1>1. ReqInv => HistoryIsIncompleteRequest
    BY DEF ReqInv
  <1> QED
    BY <1>1, InitInv, StepInv, InitReqInv, StepReqInv, PTL DEF Spec

(* Slow mode sends a server exactly one complete request and keeps exactly *)
(* the incomplete one, unless one of the recorded gaps has occurred.       *)
THEOREM SlowRequestCorrect == Spec => []SlowRequestIntact
  <1>1. ReqInv => SlowRequestIntact
    BY DEF ReqInv
  <1> QED
    BY <1>1, InitInv, StepInv, InitReqInv, StepReqInv, PTL DEF Spec
=============================================================================
