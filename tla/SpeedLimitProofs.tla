-------------------------- MODULE SpeedLimitProofs --------------------------
(* Proofs about SpeedLimit, for every speed, buffer size and bound on what *)
(* the sockets hold.                                                       *)
EXTENDS SpeedLimit, TLAPS

(* Without a connection nothing is left of the last one, and there is none *)
(* before the event loop.                                                  *)
Clean ==
    /\ conn = "none" => /\ reading = {} /\ writing = {}
                        /\ queue = Each(0) /\ passed = Each(0)
    /\ proc = "starting" => conn = "none"

IInv == TypeOK /\ QuotaRespected /\ Attended /\ FoundAtShutdown /\ Clean

LEMMA InitIInv == Init => IInv
  BY SpeedAssumption
  DEF SpeedAssumption, Init, IInv, TypeOK, QuotaRespected, Attended, FoundAtShutdown,
      Clean, Each, Dir

(* What read_all may return lies within the queue's room and the quota. *)
LEMMA ReadBound ==
    ASSUME IInv, conn = "open", NEW d \in Dir
    PROVE  /\ ReadLimit(d) \in 0..quota[d]
           /\ read_all(d, ReadLimit(d)) \in 0..quota[d]
           /\ read_all(d, ReadLimit(d)) <= inbox[d]
           /\ queue[d] + read_all(d, ReadLimit(d)) <= BufSize - 1
  <1>1. /\ quota[d] \in Int /\ quota[d] >= 0
        /\ queue[d] \in 0..(BufSize - 1)
        /\ inbox[d] \in Nat /\ BufSize \in Nat
    BY SpeedAssumption DEF SpeedAssumption, IInv, TypeOK, QuotaRespected
  <1>2. ReadLimit(d) \in 0..quota[d] /\ ReadLimit(d) <= BufSize - 1 - queue[d]
    BY <1>1 DEF ReadLimit, MinOf, remaining_space
  <1> QED
    BY <1>1, <1>2 DEF read_all, MinOf

(* A deletion resets everything the invariant speaks of. *)
LEMMA DeleteKeeps ==
    ASSUME IInv, delete_conn, max_speed' = max_speed, proc' \in {"running", "exited"}
    PROVE  IInv'
  <1>1. lingering' \in 0..MaxStrays /\ leaked' \in 0..MaxStrays
    BY SpeedAssumption DEF SpeedAssumption, IInv, TypeOK, delete_conn, close_socket_gracefully
  <1>2. TypeOK'
    BY <1>1, SpeedAssumption DEF SpeedAssumption, IInv, TypeOK, delete_conn, NoFlow, Each, Dir
  <1>3. conn' = "none" /\ Clean'
    BY DEF delete_conn, NoFlow, Clean
  <1> QED
    BY <1>2, <1>3 DEF IInv, QuotaRespected, Attended, FoundAtShutdown

(* One round of forwarding: bytes move from the quota to the queue and     *)
(* from the queue to the sink.                                             *)
LEMMA ForwardKeeps == ASSUME IInv, NEW d \in Dir, forward(d) PROVE IInv'
  <1> DEFINE max == ReadLimit(d)
             n == read_all(d, max)
  <1>1. proc = "running" /\ proc' = proc /\ max_speed' = max_speed /\ d \in reading
    BY DEF forward, process
  <1>2. conn = "open"
    BY <1>1 DEF IInv, TypeOK, Clean
  <1>3. CASE has_eof(d, max) /\ delete_conn
    BY <1>1, <1>3, DeleteKeeps
  <1>4. CASE ~has_eof(d, max) /\ UNCHANGED <<conn, strays>>
    <2>1. PICK w \in 0..(queue[d] + n) :
            /\ quota' = [quota EXCEPT ![d] = @ - n]
            /\ queue' = [queue EXCEPT ![d] = @ + n - w]
            /\ passed' = [passed EXCEPT ![d] = @ + w]
            /\ inbox' = [inbox EXCEPT ![d] = @ - n]
            /\ fin' = [fin EXCEPT ![d] = FinAfter(d, max)]
            /\ EventsAfterForward(d, w, quota[d] - n)
      <3>1. ~(has_eof(d, max) /\ delete_conn)
        BY <1>4
      <3> QED
        BY <3>1 DEF forward, write_all
    <2>2. /\ n \in 0..quota[d] /\ n <= inbox[d] /\ queue[d] + n <= BufSize - 1
          /\ quota[d] \in Int /\ queue[d] \in Nat /\ passed[d] \in Nat /\ inbox[d] \in Nat
          /\ BufSize \in Nat /\ w \in Int
      BY <1>2, <2>1, ReadBound, SpeedAssumption DEF SpeedAssumption, IInv, TypeOK
    <2>3. FinAfter(d, max) \in {"open", "fin", "rst"}
      BY DEF FinAfter, IInv, TypeOK
    <2>4. TypeOK'
      <3>1. /\ quota' \in [Dir -> Int] /\ passed' \in [Dir -> Nat]
            /\ queue' \in [Dir -> 0..(BufSize - 1)]
        BY <2>1, <2>2 DEF IInv, TypeOK
      <3>2. inbox' \in [Dir -> Nat] /\ fin' \in [Dir -> {"open", "fin", "rst"}]
        BY <2>1, <2>2, <2>3 DEF IInv, TypeOK
      <3>3. reading' \in SUBSET Dir /\ writing' \in SUBSET Dir
        BY <2>1 DEF IInv, TypeOK, EventsAfterForward
      <3> QED
        BY <1>1, <1>4, <3>1, <3>2, <3>3 DEF IInv, TypeOK, strays
    <2>5. conn' = "open"
      BY <1>2, <1>4
    <2>6. QuotaRespected'
      <3> SUFFICES ASSUME NEW e \in Dir
                   PROVE  quota'[e] >= 0 /\ passed'[e] + queue'[e] + quota'[e] = max_speed
        BY <1>1 DEF QuotaRespected
      <3>1. quota[e] >= 0 /\ passed[e] + queue[e] + quota[e] = max_speed
        BY <1>2 DEF IInv, QuotaRespected
      <3>2. CASE e = d
        BY <2>1, <2>2, <3>1, <3>2 DEF IInv, TypeOK
      <3>3. CASE e # d
        BY <2>1, <3>1, <3>3 DEF IInv, TypeOK
      <3> QED
        BY <3>2, <3>3
    <2>7. Attended'
      <3> SUFFICES ASSUME NEW e \in Dir
                   PROVE  /\ e \in reading' => quota'[e] > 0 /\ e \notin writing'
                          /\ e \notin reading' \union writing' => quota'[e] = 0
        BY DEF Attended
      <3>1. /\ e \in reading => quota[e] > 0 /\ e \notin writing
            /\ e \notin reading \union writing => quota[e] = 0
        BY <1>2 DEF IInv, Attended
      <3>2. CASE e = d
        <4>1. quota'[d] = quota[d] - n /\ quota'[d] >= 0
          BY <2>1, <2>2 DEF IInv, TypeOK
        <4> QED
          BY <1>1, <2>1, <2>2, <3>1, <3>2, <4>1 DEF EventsAfterForward
      <3>3. CASE e # d
        BY <2>1, <3>1, <3>3 DEF EventsAfterForward, IInv, TypeOK
      <3> QED
        BY <3>2, <3>3
    <2> QED
      BY <1>1, <2>4, <2>5, <2>6, <2>7 DEF IInv, FoundAtShutdown, Clean
  <1> QED
    BY <1>3, <1>4 DEF forward

(* A write event: bytes move from the queue to the sink. *)
LEMMA WritableKeeps == ASSUME IInv, NEW d \in Dir, on_writable(d) PROVE IInv'
  <1>1. PICK w \in 0..queue[d] :
          /\ queue' = [queue EXCEPT ![d] = @ - w]
          /\ passed' = [passed EXCEPT ![d] = @ + w]
    BY DEF on_writable, write_all
  <1>2. /\ proc = "running" /\ d \in writing
        /\ proc' = proc /\ max_speed' = max_speed /\ conn' = conn /\ quota' = quota
        /\ UNCHANGED <<peers, strays>>
        /\ reading' = IF quota[d] > 0 THEN reading \union {d} ELSE reading
        /\ writing' = writing \ {d}
    BY DEF on_writable, EventsAfterWrite, process
  <1>3. conn = "open"
    BY <1>2 DEF IInv, TypeOK, Clean
  <1>4. queue[d] \in 0..(BufSize - 1) /\ passed[d] \in Nat /\ w \in Int /\ BufSize \in Nat
    BY <1>1, SpeedAssumption DEF SpeedAssumption, IInv, TypeOK
  <1>5. TypeOK'
    <2>1. queue' \in [Dir -> 0..(BufSize - 1)] /\ passed' \in [Dir -> Nat]
      BY <1>1, <1>4 DEF IInv, TypeOK
    <2> QED
      BY <1>2, <2>1 DEF IInv, TypeOK, peers, strays
  <1>6. QuotaRespected'
    <2> SUFFICES ASSUME NEW e \in Dir
                 PROVE  quota[e] >= 0 /\ passed'[e] + queue'[e] + quota[e] = max_speed
      BY <1>2 DEF QuotaRespected
    <2>1. quota[e] >= 0 /\ passed[e] + queue[e] + quota[e] = max_speed
      BY <1>3 DEF IInv, QuotaRespected
    <2>2. CASE e = d
      BY <1>1, <1>4, <2>1, <2>2 DEF IInv, TypeOK
    <2>3. CASE e # d
      BY <1>1, <2>1, <2>3 DEF IInv, TypeOK
    <2> QED
      BY <2>2, <2>3
  <1>7. Attended'
    BY <1>2, <1>3 DEF IInv, TypeOK, QuotaRespected, Attended
  <1> QED
    BY <1>2, <1>3, <1>5, <1>6, <1>7 DEF IInv, FoundAtShutdown, Clean

(* The steps of main, the accepting callback, the timer and the peers. *)
LEMMA OtherKeeps ==
    ASSUME IInv,
           \/ main_starts \/ accept_unreachable \/ accept_aborts \/ accept_new
           \/ close_after_timeout \/ break_event_loop \/ main_clears
           \/ \E d \in Dir : Peer_sends(d) \/ Peer_closes(d)
    PROVE  IInv'
  <1> USE SpeedAssumption
      DEF SpeedAssumption, process, flow, peers, strays
  <1>1. CASE main_starts \/ accept_aborts \/ break_event_loop
    BY <1>1 DEF main_starts, accept_aborts, break_event_loop, IInv, TypeOK, QuotaRespected,
                Attended, FoundAtShutdown, Clean
  <1>2. CASE accept_unreachable
    BY <1>2 DEF accept_unreachable, IInv, TypeOK, QuotaRespected, Attended,
                FoundAtShutdown, Clean
  <1>3. CASE accept_new
    <2>1. /\ quota' = [d \in Dir |-> max_speed] /\ queue' = [d \in Dir |-> 0]
          /\ passed' = [d \in Dir |-> 0] /\ reading' = Dir /\ writing' = {}
          /\ max_speed > 0 /\ proc' = "running"
      BY <1>3 DEF accept_new, IInv, Clean, Each
    <2>2. TypeOK'
      BY <1>3, <2>1 DEF accept_new, IInv, TypeOK
    <2>3. QuotaRespected' /\ Attended'
      BY <1>3, <2>1 DEF accept_new, IInv, TypeOK, QuotaRespected, Attended
    <2> QED
      BY <1>3, <2>1, <2>2, <2>3 DEF accept_new, IInv, FoundAtShutdown, Clean
  <1>4. CASE close_after_timeout
    BY <1>4 DEF close_after_timeout, IInv, TypeOK, QuotaRespected, Attended,
                FoundAtShutdown, Clean
  <1>5. CASE main_clears
    <2>1. max_speed' = max_speed /\ proc' = "exited"
      BY <1>5 DEF main_clears
    <2>2. CASE Listed
      BY <1>5, <2>1, <2>2, DeleteKeeps DEF main_clears
    <2>3. CASE ~Listed
      BY <1>5, <2>1, <2>3 DEF main_clears, Listed, IInv, TypeOK, QuotaRespected, Attended,
                              FoundAtShutdown, Clean
    <2> QED
      BY <2>2, <2>3
  <1>6. ASSUME NEW d \in Dir, Peer_sends(d) \/ Peer_closes(d) PROVE IInv'
    BY <1>6 DEF Peer_sends, Peer_closes, IInv, TypeOK, QuotaRespected, Attended,
                FoundAtShutdown, Clean
  <1> QED
    BY <1>1, <1>2, <1>3, <1>4, <1>5, <1>6

LEMMA NextIInv == IInv /\ [Next]_vars => IInv'
  <1> SUFFICES ASSUME IInv, [Next]_vars PROVE IInv'
    OBVIOUS
  <1>1. "c2s" \in Dir /\ "s2c" \in Dir
    BY DEF Dir
  <1>2. CASE UNCHANGED vars
    BY <1>2 DEF vars, process, flow, peers, strays, IInv, TypeOK, QuotaRespected, Attended,
                FoundAtShutdown, Clean
  <1>3. CASE forward_client_to_server \/ forward_server_to_client
    BY <1>1, <1>3, ForwardKeeps DEF forward_client_to_server, forward_server_to_client
  <1>4. CASE Server_on_writable \/ Client_on_writable
    BY <1>1, <1>4, WritableKeeps DEF Server_on_writable, Client_on_writable
  <1> QED
    BY <1>2, <1>3, <1>4, OtherKeeps DEF Next

LEMMA AlwaysIInv == Spec => []IInv
  BY InitIInv, NextIInv, PTL DEF Spec

(* Every variable keeps its type. *)
THEOREM TypeCorrect == Spec => []TypeOK
  <1>1. IInv => TypeOK
    BY DEF IInv
  <1> QED
    BY <1>1, AlwaysIInv, PTL

(* No connection passes on, or holds queued, more than max_speed bytes in  *)
(* either direction (speed_limit_proxy.cpp:101, :128).                     *)
THEOREM QuotaIsRespected == Spec => []QuotaRespected
  <1>1. IInv => QuotaRespected
    BY DEF IInv
  <1> QED
    BY <1>1, AlwaysIInv, PTL

(* The five places that add and delete events leave a direction without    *)
(* one only when its quota is used up (speed_limit_proxy.cpp:48, :93,      *)
(* :114-119, :138-147).                                                    *)
THEOREM EveryDirectionAttended == Spec => []Attended
  <1>1. IInv => Attended
    BY DEF IInv
  <1> QED
    BY <1>1, AlwaysIInv, PTL

(* The shutdown misses a connection only if neither direction may read any *)
(* more (speed_limit_proxy.cpp:361).                                       *)
THEOREM ShutdownFindsActive == Spec => []FoundAtShutdown
  <1>1. IInv => FoundAtShutdown
    BY DEF IInv
  <1> QED
    BY <1>1, AlwaysIInv, PTL
=============================================================================
