----------------------------- MODULE SpeedLimit -----------------------------
(***************************************************************************)
(* utils/speed_limit_proxy: a plain TCP forwarder that gives every         *)
(* connection a quota of max_speed bytes per direction.  The code is       *)
(* marked as under construction: the timer that would refill the quotas    *)
(* every second does not exist, and two callbacks name a quota without     *)
(* saying whose (it can only be the connection's).                         *)
(*                                                                         *)
(* The two directions are alike, so every operation takes the direction d. *)
(* Its source's read event is added iff d \in reading, its sink's write    *)
(* event iff d \in writing.  Bytes are only counted: Circularbuf keeps     *)
(* their order.  Connections share nothing but the event base, so the      *)
(* module follows one at a time.                                           *)
(***************************************************************************)
EXTENDS Integers

CONSTANTS
    Speeds,         \* what -s may set max_speed to; atoi makes 0 of nonsense
    BufSize,        \* SOCK_IO_BUF_SIZE
    MaxInbox,       \* bound: bytes a socket holds unread
    MaxStrays       \* bound: sockets that linger, and sockets that leak

ASSUME SpeedAssumption ==
    /\ Speeds \subseteq Int
    /\ BufSize \in Nat \ {0, 1}
    /\ MaxInbox \in Nat /\ MaxStrays \in Nat

VARIABLES
    proc,           \* "starting", "running", "clearing", "exited" or "aborted"
    max_speed,      \* Connection::max_speed
    conn,           \* does the connection exist: "open" or "none"
    quota,          \* c2s_quota and s2c_quota
    queue,          \* bytes in the sink's queued_output
    reading,        \* directions whose source is read
    writing,        \* directions whose sink is awaited
    inbox, fin,     \* unread bytes of the source; "open", "fin" or "rst" behind them
    passed,         \* history: bytes written to the sink
    lingering,      \* sockets close_socket_gracefully has left to its timer
    leaked          \* sockets of failed connects

process == <<proc, max_speed>>
flow == <<quota, queue, reading, writing, passed>>
peers == <<inbox, fin>>
strays == <<lingering, leaked>>
vars == <<process, conn, flow, peers, strays>>

Dir == {"c2s", "s2c"}
Each(x) == [d \in Dir |-> x]
MinOf(a, b) == IF a <= b THEN a ELSE b

-----------------------------------------------------------------------------
(* read_all returns what has arrived, up to its limit, and sees the FIN or *)
(* the one error of a reset only when it runs dry before; with the limit 0 *)
(* it does not even look.                                                  *)
Readable(d) == inbox[d] > 0 \/ fin[d] # "open"
read_all(d, max) == MinOf(inbox[d], max)
has_eof(d, max) == inbox[d] < max /\ fin[d] = "fin"
FinAfter(d, max) == IF inbox[d] < max /\ fin[d] = "rst" THEN "fin" ELSE fin[d]

(* write_all, through Circularbuf::write_all_to: the socket takes part of  *)
(* the n bytes, all or none.                                               *)
write_all(n) == 0..n

\* Mutant of remaining_space: the cell that tells full from empty is used.
remaining_space_all(d) == BufSize - queue[d]

(* Circularbuf::remaining_space of the sink's queued_output. *)
remaining_space(d) == BufSize - 1 - queue[d]

(* close_socket_gracefully for n sockets: those whose FIN has arrived are  *)
(* closed at once, the others by a timer.                                  *)
close_socket_gracefully(n) ==
    \E k \in 0..n : lingering + k <= MaxStrays /\ lingering' = lingering + k

close_after_timeout ==
    /\ proc = "running" /\ lingering > 0
    /\ lingering' = lingering - 1
    /\ UNCHANGED <<process, conn, flow, peers, leaked>>

NoFlow ==
    /\ quota' = Each(0) /\ queue' = Each(0) /\ passed' = Each(0)
    /\ reading' = {} /\ writing' = {}
    /\ inbox' = Each(0) /\ fin' = Each("open")

(* ~Connection, ~Client and ~Server. *)
delete_conn ==
    /\ conn' = "none" /\ NoFlow
    /\ close_socket_gracefully(2) /\ UNCHANGED leaked

-----------------------------------------------------------------------------
(* main up to the event loop: a wrong command line ends it, and so do a    *)
(* host that does not resolve and a port that cannot be bound.             *)
main_starts ==
    /\ proc = "starting"
    /\ proc' \in {"running", "exited", "aborted"}
    /\ UNCHANGED <<max_speed, conn, flow, peers, strays>>

(* Connection::accept_new when the server cannot be reached: connect_TCP   *)
(* leaves its socket open, the client's socket is closed.                  *)
accept_unreachable ==
    /\ proc = "running" /\ conn = "none"
    /\ leaked < MaxStrays /\ leaked' = leaked + 1
    /\ UNCHANGED <<process, conn, flow, peers, lingering>>

(* Connection::accept_new aborts when accept fails, and by the assertion   *)
(* of the constructor when the speed is not positive.                      *)
accept_aborts ==
    /\ proc = "running" /\ conn = "none"
    /\ proc' = "aborted"
    /\ UNCHANGED <<max_speed, conn, flow, peers, strays>>

(* Connection::accept_new: both directions start with a full quota. *)
accept_new ==
    /\ proc = "running" /\ conn = "none" /\ max_speed > 0
    /\ conn' = "open"
    /\ quota' = Each(max_speed)
    /\ reading' = Dir
    /\ UNCHANGED <<process, queue, writing, passed, peers, strays>>

\* Mutant of ReadLimit: the quota is not looked at before reading.
ReadLimit_space(d) == remaining_space(d)

(* How much forward_* may read. *)
ReadLimit(d) == MinOf(remaining_space(d), quota[d])

\* Mutant of EventsAfterForward: the read event stays when the quota is used up.
EventsAfterForward_greedy(d, w, left) ==
    /\ reading' = IF w = 0 THEN reading \ {d} ELSE reading
    /\ writing' = IF w = 0 THEN writing \union {d} ELSE writing

(* Nothing could be written: wait for the sink instead of the source; the  *)
(* quota is used up: stop reading.                                         *)
EventsAfterForward(d, w, left) ==
    /\ reading' = IF w = 0 \/ left <= 0 THEN reading \ {d} ELSE reading
    /\ writing' = IF w = 0 THEN writing \union {d} ELSE writing

(* The body of forward_client_to_server and forward_server_to_client.  At  *)
(* the end of the source the code first charges the quota, queues what it  *)
(* read and writes what the sink takes, as in the other case; nothing of   *)
(* that outlives the delete that follows in the same callback.             *)
forward(d) ==
    LET max == ReadLimit(d)
        n   == read_all(d, max)
    IN  /\ proc = "running" /\ d \in reading /\ Readable(d)
        /\ \/ has_eof(d, max) /\ delete_conn
           \/ /\ ~has_eof(d, max)
              /\ \E w \in write_all(queue[d] + n) :
                   /\ quota' = [quota EXCEPT ![d] = @ - n]
                   /\ queue' = [queue EXCEPT ![d] = @ + n - w]
                   /\ passed' = [passed EXCEPT ![d] = @ + w]
                   /\ inbox' = [inbox EXCEPT ![d] = @ - n]
                   /\ fin' = [fin EXCEPT ![d] = FinAfter(d, max)]
                   /\ EventsAfterForward(d, w, quota[d] - n)
              /\ UNCHANGED <<conn, strays>>
        /\ UNCHANGED process

forward_client_to_server == forward("c2s")
forward_server_to_client == forward("s2c")

\* Mutant of EventsAfterWrite: the source is not read again.
EventsAfterWrite_oneway(d) ==
    /\ UNCHANGED reading
    /\ writing' = writing \ {d}

(* The source is read again if it has a quota left. *)
EventsAfterWrite(d) ==
    /\ reading' = IF quota[d] > 0 THEN reading \union {d} ELSE reading
    /\ writing' = writing \ {d}

(* The body of Server::on_writable (d = "c2s") and Client::on_writable. *)
on_writable(d) ==
    /\ proc = "running" /\ d \in writing
    /\ \E w \in write_all(queue[d]) :
         /\ queue' = [queue EXCEPT ![d] = @ - w]
         /\ passed' = [passed EXCEPT ![d] = @ + w]
    /\ EventsAfterWrite(d)
    /\ UNCHANGED <<process, conn, quota, peers, strays>>

Server_on_writable == on_writable("c2s")
Client_on_writable == on_writable("s2c")

-----------------------------------------------------------------------------
(* SIGINT. *)
break_event_loop ==
    /\ proc = "running" /\ proc' = "clearing"
    /\ UNCHANGED <<max_speed, conn, flow, peers, strays>>

(* get_all_connections finds a connection through its added events. *)
Listed == conn = "open" /\ reading \union writing # {}

(* main deletes the connections in that list and returns. *)
main_clears ==
    /\ proc = "clearing" /\ proc' = "exited"
    /\ IF Listed THEN delete_conn ELSE UNCHANGED <<conn, flow, peers, strays>>
    /\ UNCHANGED max_speed

(* The peers. *)
Peer_sends(d) ==
    /\ proc = "running" /\ conn = "open" /\ fin[d] = "open" /\ inbox[d] < MaxInbox
    /\ inbox' = [inbox EXCEPT ![d] = @ + 1]
    /\ UNCHANGED <<process, conn, flow, fin, strays>>

Peer_closes(d) ==
    /\ proc = "running" /\ conn = "open" /\ fin[d] = "open"
    /\ \E f \in {"fin", "rst"} : fin' = [fin EXCEPT ![d] = f]
    /\ UNCHANGED <<process, conn, flow, inbox, strays>>

Init ==
    /\ proc = "starting" /\ max_speed \in Speeds /\ conn = "none"
    /\ quota = Each(0) /\ queue = Each(0) /\ passed = Each(0)
    /\ reading = {} /\ writing = {}
    /\ inbox = Each(0) /\ fin = Each("open")
    /\ lingering = 0 /\ leaked = 0

Next ==
    \/ main_starts
    \/ accept_unreachable
    \/ accept_aborts
    \/ accept_new
    \/ forward_client_to_server
    \/ forward_server_to_client
    \/ Server_on_writable
    \/ Client_on_writable
    \/ close_after_timeout
    \/ break_event_loop
    \/ main_clears
    \/ \E d \in Dir : Peer_sends(d) \/ Peer_closes(d)

Spec == Init /\ [][Next]_vars

(* A step in which the sink takes something. *)
Drains(d) == (forward(d) \/ on_writable(d)) /\ passed'[d] > passed[d]

(* Fairness: libevent runs the callback of an event that stays ready, and  *)
(* a peer that is offered data again and again takes some of them.         *)
FairSpec ==
    /\ Spec
    /\ \A d \in Dir : WF_vars(forward(d)) /\ WF_vars(on_writable(d)) /\ SF_vars(Drains(d))

-----------------------------------------------------------------------------
(* Types: a queue never exceeds the circular buffer's capacity, and a      *)
(* quota, an int64_t from which a size_t is subtracted, not its start.     *)
TypeOK ==
    /\ proc \in {"starting", "running", "clearing", "exited", "aborted"}
    /\ max_speed \in Int /\ conn \in {"open", "none"}
    /\ quota \in [Dir -> Int] /\ passed \in [Dir -> Nat]
    /\ queue \in [Dir -> 0..(BufSize - 1)]
    /\ reading \in SUBSET Dir /\ writing \in SUBSET Dir
    /\ inbox \in [Dir -> Nat] /\ fin \in [Dir -> {"open", "fin", "rst"}]
    /\ lingering \in 0..MaxStrays /\ leaked \in 0..MaxStrays

(* What was passed on, what is queued and what may still be read add up to *)
(* max_speed in each direction, and none of them is negative: through      *)
(* partial writes, full queues and pauses no byte escapes the quota        *)
(* (speed_limit_proxy.h:47).                                               *)
QuotaRespected ==
    conn = "open" => \A d \in Dir : quota[d] >= 0 /\ passed[d] + queue[d] + quota[d] = max_speed

(* A direction is read only while it has a quota, never while its sink is  *)
(* awaited, and it has no event at all only once its quota is used up.     *)
Attended ==
    conn = "open" => \A d \in Dir :
        /\ d \in reading => quota[d] > 0 /\ d \notin writing
        /\ d \notin reading \union writing => quota[d] = 0

(* Nothing refills a quota, so a connection may lose all its events; the   *)
(* shutdown's list then lacks it (speed_limit_proxy.cpp:361).  It deletes  *)
(* every connection that may still read something.                         *)
FoundAtShutdown == proc = "exited" /\ conn = "open" => \A d \in Dir : quota[d] = 0

(* What a peer has sent is read, as long as the quota lasts. *)
TransferGoesOn ==
    \A d \in Dir :
        (proc = "running" /\ conn = "open" /\ inbox[d] > 0)
            ~> (inbox[d] = 0 \/ quota[d] = 0 \/ conn = "none" \/ proc # "running")
=============================================================================
