------------------------------- MODULE Proxy -------------------------------
(***************************************************************************)
(* What the connections share: the connection count, the pool of history   *)
(* buffers and the process's file descriptors, with accept_new, the        *)
(* monitor's loop over all connections and the shutdown.  Of a connection  *)
(* (see Connection) only the phase is left that decides which descriptors  *)
(* it holds.  When a descriptor cannot be opened the code aborts.          *)
(***************************************************************************)
EXTENDS Integers, Sequences, FiniteSets, Functions

CONSTANTS
    NULL,               \* a pointer that points to nothing
    Conn,               \* identities of Connection objects
    Buf,                \* identities of Hybridbuf objects
    MAX_CONNECTION, MAX_HYBRID_POOL,
    MaxLingering,       \* bound: sockets in FIN-WAIT-2
    MaxLeaked           \* bound: descriptors nobody closes any more

ASSUME ProxyAssumption ==
    /\ NULL \notin Buf
    /\ IsFiniteSet(Conn) /\ IsFiniteSet(Buf)
    /\ MAX_CONNECTION \in Nat \ {0}
    /\ MAX_HYBRID_POOL \in 1..MAX_CONNECTION      \* main uses hybridbuf_pool.back()
    /\ MaxLingering \in Nat /\ MaxLeaked \in Nat

(* The pool is a quarter of MAX_CONNECTION; what the descriptor budget     *)
(* needs of that is room for the two descriptors of a refused connection.  *)
ASSUME PoolAssumption == MAX_HYBRID_POOL + 2 <= MAX_CONNECTION

VARIABLES
    proc,               \* "starting", "running", "monitor" or "shutdown" (in the loop
                        \* over get_all_connections), "exited", "failed" (to start)
                        \* or "aborted"
    todo,               \* the connections that loop has not reached yet
    live,               \* the existing connections
    connection_count,   \* Connection::connection_count
    phase,              \* see Phases
    request_history,    \* client->request_history
    hybridbuf_pool,
    dirty,              \* the history buffers that hold data
    lingering,          \* sockets close_socket_gracefully has left to its timer
    leaked              \* open descriptors no object refers to

loop == <<proc, todo>>
conns == <<live, connection_count, phase>>
hists == <<request_history, hybridbuf_pool, dirty>>
strays == <<lingering, leaked>>
vars == <<loop, conns, hists, strays>>

\* Mutant of MAX_FILE_DSC: one file too few per connection.
MAX_FILE_DSC_tight == 6 * MAX_CONNECTION + 7

MAX_FILE_DSC == 7 * MAX_CONNECTION + 7

(* Fast mode: "new" (no server yet), "fast" and "reply" (reply-only);      *)
(* "transition"; slow mode: "idle" (collecting a request), "busy" (with a  *)
(* server) and "final" (reply-only).                                       *)
FastPhases == {"new", "fast", "reply"}
Phases == FastPhases \union {"transition", "idle", "busy", "final"}
HasServer == {"fast", "transition", "busy"}
HasFiles == Phases \ FastPhases

Owners == {c \in live : request_history[c] # NULL}
Held == {request_history[c] : c \in Owners}

-----------------------------------------------------------------------------
(* File descriptors: stdin, stdout, stderr, master_sock and libevent's     *)
(* three; the pool's files; of each connection its sockets, its history    *)
(* file and its slow-mode files (request_buf, request_tmp_buf, and         *)
(* response_buf twice).                                                    *)
Serving == {c \in live : phase[c] \in HasServer}
Slow == {c \in live : phase[c] \in HasFiles}
Fds ==
    7 + Len(hybridbuf_pool) + Cardinality(Owners)
      + Cardinality(live) + Cardinality(Serving) + 4 * Cardinality(Slow)
      + lingering + leaked
CanOpen(n) == Fds + n <= MAX_FILE_DSC

(* ERROR_EXIT. *)
abort_and_dump == proc' = "aborted" /\ UNCHANGED <<todo, conns, hists, strays>>

(* close_socket_gracefully for n sockets: those whose FIN has arrived are  *)
(* closed at once.                                                         *)
close_socket_gracefully(n) ==
    \E k \in 0..n : lingering + k <= MaxLingering /\ lingering' = lingering + k

(* The n descriptors that are left open for good. *)
Leak(n) == leaked + n <= MaxLeaked /\ leaked' = leaked + n

close_after_timeout ==
    /\ proc = "running" /\ lingering > 0
    /\ lingering' = lingering - 1
    /\ UNCHANGED <<loop, conns, hists, leaked>>

-----------------------------------------------------------------------------
\* Mutant of release_request_history: the pool's size is not looked at.
release_request_history_always(c) ==
    LET b == request_history[c]
    IN  /\ hybridbuf_pool' = IF b # NULL THEN Append(hybridbuf_pool, b) ELSE hybridbuf_pool
        /\ dirty' = dirty \ {b}
        /\ request_history' = [request_history EXCEPT ![c] = NULL]

\* Mutant of release_request_history: the buffer is not cleared.
release_request_history_dirty(c) ==
    LET b == request_history[c]
        kept == b # NULL /\ Len(hybridbuf_pool) < MAX_HYBRID_POOL
    IN  /\ hybridbuf_pool' = IF kept THEN Append(hybridbuf_pool, b) ELSE hybridbuf_pool
        /\ dirty' = IF kept THEN dirty ELSE dirty \ {b}
        /\ request_history' = [request_history EXCEPT ![c] = NULL]

(* Client::release_request_history: back to the pool if there is room;     *)
(* otherwise the last shared_ptr goes and the buffer with it.              *)
release_request_history(c) ==
    LET b == request_history[c]
        kept == b # NULL /\ Len(hybridbuf_pool) < MAX_HYBRID_POOL
    IN  /\ hybridbuf_pool' = IF kept THEN Append(hybridbuf_pool, b) ELSE hybridbuf_pool
        /\ dirty' = dirty \ {b}
        /\ request_history' = [request_history EXCEPT ![c] = NULL]

\* Mutant of allocate_history: the pool's front is not popped.
allocate_history_unpopped(c) ==
    \/ /\ hybridbuf_pool # <<>>
       /\ request_history' = [request_history EXCEPT ![c] = Head(hybridbuf_pool)]
       /\ dirty' = dirty \ {Head(hybridbuf_pool)}
       /\ UNCHANGED hybridbuf_pool
    \/ /\ hybridbuf_pool = <<>>
       /\ \E b \in Buf \ Held : request_history' = [request_history EXCEPT ![c] = b]
       /\ UNCHANGED <<hybridbuf_pool, dirty>>

(* Client::Client takes a history buffer from the pool or makes a new one. *)
allocate_history(c) ==
    \/ /\ hybridbuf_pool # <<>>
       /\ request_history' = [request_history EXCEPT ![c] = Head(hybridbuf_pool)]
       /\ hybridbuf_pool' = Tail(hybridbuf_pool)
       /\ dirty' = dirty \ {Head(hybridbuf_pool)}
    \/ /\ hybridbuf_pool = <<>>
       /\ \E b \in Buf \ Held : request_history' = [request_history EXCEPT ![c] = b]
       /\ UNCHANGED <<hybridbuf_pool, dirty>>

Sockets(c) == IF phase[c] \in HasServer THEN 2 ELSE 1

(* ~Connection with ~Server, ~Client and the buffers' destructors: socks   *)
(* sockets are closed, and stray descriptors had been forgotten before.    *)
(* Of response_buf only the writing descriptor is closed.                  *)
delete_conn(c, socks, stray) ==
    /\ live' = live \ {c}
    /\ connection_count' = connection_count - 1
    /\ UNCHANGED phase
    /\ release_request_history(c)
    /\ close_socket_gracefully(socks)
    /\ Leak((IF phase[c] \in HasFiles THEN 1 ELSE 0) + stray)

-----------------------------------------------------------------------------
\* Mutant of AtLimit: one connection too many.
AtLimit_late == connection_count > MAX_CONNECTION

AtLimit == connection_count >= MAX_CONNECTION

(* Connection::accept_new at the limit: the socket and the 503 page are    *)
(* open at the same time.                                                  *)
accept_refused ==
    /\ proc = "running" /\ AtLimit
    /\ IF CanOpen(2)
       THEN close_socket_gracefully(1) /\ UNCHANGED <<loop, conns, hists, leaked>>
       ELSE abort_and_dump

(* Connection::accept_new: a socket and perhaps a new history buffer. *)
accept_new(c) ==
    /\ proc = "running" /\ ~AtLimit /\ c \notin live
    /\ IF CanOpen(IF hybridbuf_pool = <<>> THEN 2 ELSE 1)
       THEN /\ live' = live \union {c}
            /\ connection_count' = connection_count + 1
            /\ phase' = [phase EXCEPT ![c] = "new"]
            /\ allocate_history(c)
            /\ UNCHANGED <<loop, strays>>
       ELSE abort_and_dump

(* The connection goes on in phase p without its server. *)
LoseServer(c, p) ==
    /\ phase' = [phase EXCEPT ![c] = p]
    /\ close_socket_gracefully(1)
    /\ UNCHANGED <<loop, live, connection_count, hists, leaked>>

(* The connection goes on in phase p. *)
Become(c, p) ==
    /\ phase' = [phase EXCEPT ![c] = p]
    /\ UNCHANGED <<loop, live, connection_count, hists, strays>>

(* new Server() throws: connect_TCP's socket stays open, the 503 page is   *)
(* sent and the connection deleted.                                        *)
new_Server_fails(c) ==
    \/ CanOpen(2) /\ delete_conn(c, 1, 1) /\ UNCHANGED loop
    \/ ~CanOpen(2) /\ abort_and_dump

(* Any callback may find its peer gone or the input malformed. *)
Callback_deletes(c) == delete_conn(c, Sockets(c), 0) /\ UNCHANGED loop

(* fast_forward from the client: keep_track_request_history stores to or   *)
(* clears the history.                                                     *)
fast_forward_client(c) ==
    /\ phase' = [phase EXCEPT ![c] = "fast"]
    /\ dirty' \in {dirty \union {request_history[c]}, dirty \ {request_history[c]}}
    /\ UNCHANGED <<loop, live, connection_count, request_history, hybridbuf_pool, strays>>

(* The first data: new Server(), and fast_forward at once, which may meet  *)
(* the client's FIN or a malformed request and delete both sockets.        *)
Client_on_readable_new(c) ==
    \/ CanOpen(1) /\ fast_forward_client(c)
    \/ CanOpen(1) /\ delete_conn(c, 2, 0) /\ UNCHANGED loop
    \/ new_Server_fails(c)

(* A parser error frees the server, and the connection if nothing is owed  *)
(* to the client.                                                          *)
Client_on_readable_fast(c) ==
    fast_forward_client(c) \/ LoseServer(c, "reply") \/ Callback_deletes(c)

(* recv_to_buffer_slowly: a complete request gets a server. *)
Client_on_readable_slow(c) ==
    \/ CanOpen(1) /\ Become(c, "busy")
    \/ new_Server_fails(c)
    \/ Become(c, "final")
    \/ Callback_deletes(c)

Client_on_readable(c) ==
    \/ phase[c] = "new" /\ Client_on_readable_new(c)
    \/ phase[c] = "fast" /\ Client_on_readable_fast(c)
    \/ phase[c] = "idle" /\ Client_on_readable_slow(c)

Server_on_readable(c) ==
    \/ phase[c] = "fast" /\ (LoseServer(c, "reply") \/ Callback_deletes(c))
    \/ phase[c] = "transition" /\ LoseServer(c, "idle")
    \/ phase[c] = "busy" /\ (LoseServer(c, "idle") \/ LoseServer(c, "final"))

Client_on_writable(c) == phase[c] \in {"reply", "final"} /\ Callback_deletes(c)

Callback(c) ==
    /\ proc = "running" /\ c \in live
    /\ Client_on_readable(c) \/ Server_on_readable(c) \/ Client_on_writable(c)

-----------------------------------------------------------------------------
\* Mutant of set_slow_mode: the history is not released.
set_slow_mode_unreleased(c) ==
    /\ phase[c] \in FastPhases
    /\ phase' = [phase EXCEPT ![c] = IF phase[c] = "fast" THEN "transition" ELSE "idle"]
    /\ UNCHANGED hists

(* Connection::set_slow_mode opens the four slow-mode descriptors before   *)
(* it releases the history.                                                *)
set_slow_mode(c) ==
    /\ phase[c] \in FastPhases
    /\ phase' = [phase EXCEPT ![c] = IF phase[c] = "fast" THEN "transition" ELSE "idle"]
    /\ release_request_history(c)

(* put_events_slow_mode, for one connection. *)
put_slow_mode(c) ==
    /\ proc = "running" /\ c \in live /\ phase[c] \in FastPhases
    /\ IF CanOpen(4)
       THEN set_slow_mode(c) /\ UNCHANGED <<loop, live, connection_count, strays>>
       ELSE abort_and_dump

(* The timer of monitor_data_rates. *)
monitor_starts ==
    /\ proc = "running"
    /\ proc' = "monitor" /\ todo' = live
    /\ UNCHANGED <<conns, hists, strays>>

(* One round of its loop: drop, slow down or keep (the rates decide which, *)
(* see Rates).                                                             *)
monitor_data_rates(c) ==
    /\ proc = "monitor" /\ c \in todo
    /\ \/ delete_conn(c, Sockets(c), 0) /\ todo' = todo \ {c} /\ UNCHANGED proc
       \/ /\ CanOpen(4) /\ set_slow_mode(c)
          /\ todo' = todo \ {c} /\ UNCHANGED <<proc, live, connection_count, strays>>
       \/ ~CanOpen(4) /\ phase[c] \in FastPhases /\ abort_and_dump
       \/ todo' = todo \ {c} /\ UNCHANGED <<proc, conns, hists, strays>>

(* SIGINT breaks the event loop, and main deletes every connection. *)
break_event_loop ==
    /\ proc = "running"
    /\ proc' = "shutdown" /\ todo' = live
    /\ UNCHANGED <<conns, hists, strays>>

main_deletes(c) ==
    /\ proc = "shutdown" /\ c \in todo
    /\ delete_conn(c, Sockets(c), 0)
    /\ todo' = todo \ {c} /\ UNCHANGED proc

(* The end of either loop. *)
loop_ends ==
    /\ proc \in {"monitor", "shutdown"} /\ todo = {}
    /\ proc' = IF proc = "monitor" THEN "running" ELSE "exited"
    /\ UNCHANGED <<todo, conns, hists, strays>>

(* main up to the event loop fills the pool.  It returns when the command  *)
(* line is wrong or the server is down, and gives up when the host does    *)
(* not resolve, the limit of open files is too low, the port is taken or   *)
(* the pool's descriptors are not the expected ones.                       *)
main_starts ==
    /\ proc = "starting"
    /\ \/ /\ proc' = "running"
          /\ hybridbuf_pool' \in {s \in [1..MAX_HYBRID_POOL -> Buf] : IsInjective(s)}
          /\ UNCHANGED <<todo, conns, request_history, dirty, strays>>
       \/ proc' \in {"exited", "failed"} /\ UNCHANGED <<todo, conns, hists, strays>>

Init ==
    /\ proc = "starting" /\ todo = {}
    /\ live = {} /\ connection_count = 0
    /\ phase = [c \in Conn |-> "new"]
    /\ request_history = [c \in Conn |-> NULL]
    /\ hybridbuf_pool = <<>>
    /\ dirty = {} /\ lingering = 0 /\ leaked = 0

Next ==
    \/ main_starts
    \/ accept_refused
    \/ close_after_timeout
    \/ monitor_starts
    \/ break_event_loop
    \/ loop_ends
    \/ \E c \in Conn :
         \/ accept_new(c)
         \/ Callback(c)
         \/ put_slow_mode(c)
         \/ monitor_data_rates(c)
         \/ main_deletes(c)

Spec == Init /\ [][Next]_vars

-----------------------------------------------------------------------------
(* Types; the loops over get_all_connections hold no deleted connection;   *)
(* and exactly the connections in fast mode own a history buffer.          *)
TypeOK ==
    /\ proc \in {"starting", "running", "monitor", "shutdown", "exited", "failed", "aborted"}
    /\ live \subseteq Conn /\ todo \subseteq live
    /\ connection_count \in Nat
    /\ phase \in [Conn -> Phases]
    /\ request_history \in [Conn -> Buf \union {NULL}]
    /\ \A c \in Conn : request_history[c] # NULL <=> c \in live /\ phase[c] \in FastPhases
    /\ hybridbuf_pool \in Seq(Buf)
    /\ dirty \subseteq Buf
    /\ lingering \in 0..MaxLingering /\ leaked \in 0..MaxLeaked

(* A history buffer belongs to one connection or to the pool, once:        *)
(* otherwise one client's request would be replayed as another's           *)
(* (client.cpp:17-23, client.h:57-63).                                     *)
HistoryIsPrivate ==
    /\ \A c, d \in live :
         request_history[c] = request_history[d] /\ request_history[c] # NULL => c = d
    /\ \A i \in DOMAIN hybridbuf_pool : hybridbuf_pool[i] \notin Held
    /\ IsInjective(hybridbuf_pool)

(* Buffers in the pool hold no data, and neither does the history of a     *)
(* connection that has not sent anything (connection.cpp:18).              *)
HistoryIsClean ==
    /\ Range(hybridbuf_pool) \intersect dirty = {}
    /\ \A c \in live : phase[c] = "new" => request_history[c] \notin dirty

(* The pool keeps to its size, and pool and connections together never     *)
(* have more history files than the n that ls_proxy.h:138 plans for,       *)
(* although buffers are made whenever the pool is empty.                   *)
HistoryBudget ==
    /\ Len(hybridbuf_pool) <= MAX_HYBRID_POOL
    /\ Len(hybridbuf_pool) + Cardinality(Owners) <= MAX_CONNECTION

(* connection_count is the number of connections, and the limit holds. *)
CountExact == connection_count = Cardinality(live) /\ connection_count <= MAX_CONNECTION

(* The FILE_DESCRIPTORS budget of ls_proxy.h:135 is enough for the         *)
(* connections themselves: out of descriptors the process dies only when   *)
(* some sockets linger or some descriptors have leaked.                    *)
BudgetCoversConnections == proc = "aborted" => lingering + leaked > 0

(* "Total: 7n + 7" (ls_proxy.h:141) descriptors are enough. *)
NeverOutOfDescriptors == proc # "aborted"
=============================================================================
