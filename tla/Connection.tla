----------------------------- MODULE Connection -----------------------------
(***************************************************************************)
(* One proxied connection: the objects Connection, Client and Server with  *)
(* the four libevent events that drive them, from the moment accept_new    *)
(* has created it until it is deleted.  Every event callback is an action; *)
(* so are set_slow_mode, the transition timeout and the monitor's drop.    *)
(* The two peers (browser and protected server) are the environment.       *)
(*                                                                         *)
(* Data are tokens.  The client's byte stream is the tokens 1, 2, 3, ...;  *)
(* MsgLen consecutive tokens are one HTTP request, and a token may be      *)
(* Malformed instead.  The server's byte stream is 1, 2, 3, ... too.       *)
(***************************************************************************)
EXTENDS Integers, Sequences, Filebuf

CONSTANTS
    NULL,               \* a pointer that points to nothing
    MsgLen,             \* tokens per request
    BufSize,            \* SOCK_IO_BUF_SIZE, in tokens
    LOG_LEVEL_2,        \* is the macro LOG_LEVEL_2 defined (it is by default)
    MaxRequestTokens,   \* bound: tokens the client sends
    MaxResponseTokens   \* bound: tokens the server sends

ASSUME NullAssumption == NULL \notin Seq(Int)
ASSUME SizeAssumption ==
    /\ MsgLen \in Nat \ {0}
    /\ BufSize \in Nat \ {0, 1}
    /\ MaxRequestTokens \in Nat
    /\ MaxResponseTokens \in Nat
ASSUME LogAssumption == LOG_LEVEL_2 \in BOOLEAN

VARIABLES
    status,             \* "open", "closed" (deleted) or "crashed" (the process died)
    mode,               \* "fast", "transition" (in_transition) or "slow"
    parser,             \* "none" (NULL), "request" or "response"
    ppos,               \* tokens of the current request the parser has consumed
    server,             \* does the Server object exist
    pending,            \* the events that are added
    c_queue,            \* client->queued_output
    s_queue,            \* server->queued_output
    history,            \* client->request_history
    request_buf,        \* client->request_buf
    request_tmp_buf,    \* client->request_tmp_buf
    response_buf,       \* client->response_buf
    c_sock, c_fin,      \* unread client data; "open", "fin" or "rst" behind them
    s_sock, s_fin,      \* the same for the server's socket
    c_next, s_next,     \* tokens each peer has sent so far
    c_out,              \* history: everything written to the client
    sent,               \* history: everything written to the current server socket
    got,                \* history: the response tokens read from server sockets
    mishaps             \* history: which of the documented gaps have occurred

queues == <<c_queue, s_queue, history>>
files == <<request_buf, request_tmp_buf, response_buf>>
c_env == <<c_sock, c_fin, c_next>>
s_env == <<s_sock, s_fin, s_next>>
ghosts == <<c_out, sent, got, mishaps>>
control == <<status, mode, parser, ppos, server, pending>>
vars == <<control, queues, files, c_env, s_env, ghosts>>

Malformed == 0          \* a token do_parse accepts nowhere
Page503 == -1           \* the 503 page in c_out
Events == {"c_read", "c_write", "s_read", "s_write"}
Range(s) == {s[i] : i \in 1..Len(s)}
MinOf(a, b) == IF a <= b THEN a ELSE b
First(s, n) == SubSeq(s, 1, n)
Rest(s, n) == SubSeq(s, n + 1, Len(s))

-----------------------------------------------------------------------------
(* Sockets: read_all drains what has arrived up to its limit; only when it *)
(* runs dry below the limit does it see the FIN (has_eof) or consume the   *)
(* one error a reset reports, after which the socket reads as closed.      *)
Readable(sock, fin) == sock # <<>> \/ fin # "open"
ReadAll(sock, max) == First(sock, MinOf(Len(sock), max))
HasEof(sock, fin, max) == Len(sock) < max /\ fin = "fin"
FinAfter(sock, fin, max) == IF Len(sock) < max /\ fin = "rst" THEN "fin" ELSE fin

\* Mutant of remaining_space: forgets that one cell of the circular buffer stays free.
remaining_space_all(q) == BufSize - Len(q)

(* Circularbuf::remaining_space of the queue q. *)
remaining_space(q) == BufSize - 1 - Len(q)

c_read_all(max) ==
    /\ c_sock' = Rest(c_sock, Len(ReadAll(c_sock, max)))
    /\ c_fin' = FinAfter(c_sock, c_fin, max)
    /\ UNCHANGED c_next

s_read_all(max) ==
    /\ s_sock' = Rest(s_sock, Len(ReadAll(s_sock, max)))
    /\ s_fin' = FinAfter(s_sock, s_fin, max)
    /\ UNCHANGED s_next

-----------------------------------------------------------------------------
(* The request parser (llhttp_execute under do_parse): it accepts a block  *)
(* that continues the request it is in, and message_complete_cb records    *)
(* the first and the last end of a message in it.                          *)
ParsesAsRequest(pos, d) ==
    \A i \in 1..Len(d) : d[i] # Malformed /\ (d[i] - 1) % MsgLen = (pos + i - 1) % MsgLen
CompletesMsg(pos, d) == pos + Len(d) >= MsgLen
FirstEnd(pos) == MsgLen - pos
LastEnd(pos, d) == Len(d) - ((pos + Len(d)) % MsgLen)

\* Mutant of keep_track_request_history: does not clear the completed request.
keep_track_request_history_uncleared(pos, h, d) ==
    IF CompletesMsg(pos, d) THEN h \o Rest(d, LastEnd(pos, d)) ELSE h \o d

(* Client::keep_track_request_history: only the incomplete request stays. *)
keep_track_request_history(pos, h, d) ==
    IF CompletesMsg(pos, d) THEN Rest(d, LastEnd(pos, d)) ELSE h \o d

-----------------------------------------------------------------------------
(* ~Connection, ~Client and ~Server: every event is deleted, every buffer  *)
(* freed, both sockets closed.                                             *)
delete_conn ==
    /\ status' = "closed"
    /\ parser' = "none" /\ ppos' = 0 /\ server' = FALSE /\ pending' = {}
    /\ c_queue' = NULL /\ s_queue' = NULL /\ history' = NULL
    /\ request_buf' = EmptyFile /\ request_tmp_buf' = EmptyFile /\ response_buf' = EmptyFile
    /\ c_sock' = <<>> /\ c_fin' = "open" /\ s_sock' = <<>> /\ s_fin' = "open"
    /\ UNCHANGED <<mode, c_next, s_next>>

(* The page goes to the client's socket at once, past what is queued. *)
reply_with_503_unavailable == c_out' = c_out \o <<Page503>>

(* Connection::free_server: what the server's socket still holds is gone. *)
free_server ==
    /\ server' = FALSE /\ s_queue' = NULL
    /\ s_sock' = <<>> /\ s_fin' = "open" /\ UNCHANGED s_next

\* Mutant of reply_only: start_writing is missing.
reply_only_mute ==
    /\ parser' = "none" /\ ppos' = 0
    /\ pending' = {}

(* Connection::free_parser followed by Client::set_reply_only_mode; with   *)
(* the server gone the write event is the only one left.                   *)
reply_only ==
    /\ parser' = "none" /\ ppos' = 0
    /\ pending' = {"c_write"}

(* The callback of event e may run in mode m. *)
Handles(e, m) == status = "open" /\ mode = m /\ e \in pending

(* get_all_connections and the list SIGUSR1 collects find a connection     *)
(* through its added events.                                               *)
Listed == status = "open" /\ pending # {}

-----------------------------------------------------------------------------
(* Fast mode. *)

(* new Server() throws: the client is told 503 and dropped. *)
Client_on_readable_unreachable ==
    /\ Handles("c_read", "fast") /\ Readable(c_sock, c_fin)
    /\ parser = "none"
    /\ delete_conn
    /\ reply_with_503_unavailable
    /\ UNCHANGED <<sent, got, mishaps>>

(* Connection::fast_forward(client, server), given the state that          *)
(* Client::on_readable has prepared: the parser's position, both queues    *)
(* and the added events.                                                   *)
fast_forward_client(pos, cq, sq, evts) ==
    LET max == remaining_space(sq)
        d   == ReadAll(c_sock, max)
        out == sq \o d
    IN  \/ /\ ~ParsesAsRequest(pos, d) /\ cq # <<>>
           /\ free_server /\ reply_only /\ c_read_all(max)
           /\ c_queue' = cq
           /\ UNCHANGED <<status, mode, history, files, ghosts>>
        \/ /\ ~ParsesAsRequest(pos, d) /\ cq = <<>>
           /\ delete_conn
           /\ UNCHANGED ghosts
        \/ /\ ParsesAsRequest(pos, d)
           /\ \E w \in 0..Len(out) :
                /\ sent' = sent \o First(out, w)
                /\ UNCHANGED <<c_out, got, mishaps>>
                /\ IF HasEof(c_sock, c_fin, max)
                   THEN delete_conn
                   ELSE /\ parser' = "request" /\ server' = TRUE
                        /\ ppos' = (pos + Len(d)) % MsgLen
                        /\ c_queue' = cq /\ s_queue' = Rest(out, w)
                        /\ history' = keep_track_request_history(pos, history, d)
                        /\ pending' = IF w = 0 THEN (evts \ {"c_read"}) \union {"s_write"}
                                      ELSE evts
                        /\ c_read_all(max)
                        /\ UNCHANGED <<status, mode, files, s_env>>

(* Client::on_readable: the first data create the parser, the server       *)
(* connection and both queues.                                             *)
Client_on_readable_fast ==
    /\ Handles("c_read", "fast") /\ Readable(c_sock, c_fin)
    /\ \/ parser = "none" /\ fast_forward_client(0, <<>>, <<>>, pending \union {"s_read"})
       \/ parser # "none" /\ fast_forward_client(ppos, c_queue, s_queue, pending)

(* Connection::fast_forward(server, client). *)
Server_on_readable_fast ==
    LET max == remaining_space(c_queue)
        d   == ReadAll(s_sock, max)
        out == c_queue \o d
    IN  /\ Handles("s_read", "fast") /\ Readable(s_sock, s_fin)
        /\ \E w \in 0..Len(out) :
             /\ c_out' = c_out \o First(out, w)
             /\ got' = got \union Range(d)
             /\ UNCHANGED <<sent, mishaps>>
             /\ \/ /\ HasEof(s_sock, s_fin, max) /\ w < Len(out)
                   /\ free_server /\ reply_only
                   /\ c_queue' = Rest(out, w)
                   /\ UNCHANGED <<status, mode, history, files, c_env>>
                \/ HasEof(s_sock, s_fin, max) /\ w = Len(out) /\ delete_conn
                \/ /\ ~HasEof(s_sock, s_fin, max)
                   /\ s_read_all(max)
                   /\ c_queue' = Rest(out, w)
                   /\ pending' = IF w = 0 THEN (pending \ {"s_read"}) \union {"c_write"}
                                 ELSE pending
                   /\ UNCHANGED <<status, mode, parser, ppos, server, s_queue, history,
                                  files, c_env>>

(* Client::on_writable of a reply-only connection: it ends when the queue  *)
(* is empty or the socket reports an error.                                *)
Client_on_writable_reply_only ==
    /\ Handles("c_write", "fast") /\ ~server
    /\ \E w \in 0..Len(c_queue) :
         /\ c_out' = c_out \o First(c_queue, w)
         /\ UNCHANGED <<sent, got, mishaps>>
         /\ \/ delete_conn
            \/ /\ w < Len(c_queue)
               /\ c_queue' = Rest(c_queue, w)
               /\ UNCHANGED <<control, s_queue, history, files, c_env, s_env>>

\* Mutant of Client_on_writable_fast: the server's read event is not added again.
Client_on_writable_fast_oneway ==
    /\ Handles("c_write", "fast") /\ server
    /\ \E w \in 0..Len(c_queue) :
         /\ c_out' = c_out \o First(c_queue, w)
         /\ c_queue' = Rest(c_queue, w)
    /\ pending' = pending \ {"c_write"}
    /\ UNCHANGED <<status, mode, parser, ppos, server, s_queue, history, files,
                   c_env, s_env, sent, got, mishaps>>

(* Client::on_writable: the client takes data again, so does the server's *)
(* read event.                                                            *)
Client_on_writable_fast ==
    /\ Handles("c_write", "fast") /\ server
    /\ \E w \in 0..Len(c_queue) :
         /\ c_out' = c_out \o First(c_queue, w)
         /\ c_queue' = Rest(c_queue, w)
    /\ pending' = (pending \union {"s_read"}) \ {"c_write"}
    /\ UNCHANGED <<status, mode, parser, ppos, server, s_queue, history, files,
                   c_env, s_env, sent, got, mishaps>>

\* Mutant of Server_on_writable_fast: what the socket does not take at once is dropped.
Server_on_writable_fast_drops ==
    /\ Handles("s_write", "fast")
    /\ \E w \in 0..Len(s_queue) : sent' = sent \o First(s_queue, w)
    /\ s_queue' = <<>>
    /\ pending' = (pending \union {"c_read"}) \ {"s_write"}
    /\ UNCHANGED <<status, mode, parser, ppos, server, c_queue, history, files,
                   c_env, s_env, c_out, got, mishaps>>

(* Server::on_writable. *)
Server_on_writable_fast ==
    /\ Handles("s_write", "fast")
    /\ \E w \in 0..Len(s_queue) :
         /\ sent' = sent \o First(s_queue, w)
         /\ s_queue' = Rest(s_queue, w)
    /\ pending' = (pending \union {"c_read"}) \ {"s_write"}
    /\ UNCHANGED <<status, mode, parser, ppos, server, c_queue, history, files,
                   c_env, s_env, c_out, got, mishaps>>
-----------------------------------------------------------------------------
(* Leaving fast mode. *)

(* Connection::set_slow_mode without a parser: no request has been read    *)
(* yet, or the connection is reply-only.                                   *)
set_slow_mode_idle ==
    /\ Listed /\ mode = "fast" /\ parser = "none"
    /\ mode' = "slow"
    /\ parser' = "request" /\ ppos' = 0
    /\ pending' = pending \union {"c_read"}
    /\ history' = NULL
    /\ mishaps' = IF c_queue # NULL THEN mishaps \union {"revived"} ELSE mishaps
    /\ UNCHANGED <<status, server, c_queue, s_queue, files, c_env, s_env, c_out, sent, got>>

\* Mutant of EventsInTransition: the client is not paused.
EventsInTransition_unpaused ==
    pending \union {"s_read"} \union (IF s_queue # <<>> THEN {"s_write"} ELSE {})

(* pause_r, and the server's events as far as they are needed. *)
EventsInTransition ==
    (pending \ {"c_read"}) \union {"s_read"} \union (IF s_queue # <<>> THEN {"s_write"} ELSE {})

\* Mutant of DumpedQueue: the queue is freed without dump_to.
DumpedQueue_lost == EmptyFile

(* dump_to until the fast-mode queue is empty. *)
DumpedQueue == StoreLast(EmptyFile, c_queue)

(* Connection::set_slow_mode with a server: the client is paused, the      *)
(* server gets TRANS_TIMEOUT to finish, the incomplete request and the     *)
(* queued response move to files.                                          *)
set_slow_mode_busy ==
    /\ Listed /\ mode = "fast" /\ parser # "none"
    /\ mode' = "transition"
    /\ pending' = EventsInTransition
    /\ s_queue' = IF s_queue # <<>> THEN s_queue ELSE NULL
    /\ request_buf' = copy_data(history) /\ history' = NULL
    /\ response_buf' = DumpedQueue /\ c_queue' = NULL
    /\ mishaps' = IF c_queue # <<>> /\ "c_write" \notin pending
                  THEN mishaps \union {"stranded"} ELSE mishaps
    /\ UNCHANGED <<status, parser, ppos, server, request_tmp_buf, c_env, s_env,
                   c_out, sent, got>>

\* Mutant of finish_transition: resume_r is missing.
finish_transition_paused ==
    /\ mode' = "slow"
    /\ free_server
    /\ pending' = (pending \ {"s_read", "s_write"})

\* Mutant of finish_transition: free_server is missing.
finish_transition_unfreed ==
    /\ mode' = "slow"
    /\ UNCHANGED <<server, s_queue, s_env>>
    /\ pending' = pending \union {"c_read"}

(* set_transition_done, free_server and resume_r. *)
finish_transition ==
    /\ mode' = "slow"
    /\ free_server
    /\ pending' = (pending \ {"s_read", "s_write"}) \union {"c_read"}

\* Mutant of Server_on_readable_transition: start_writing is missing.
Server_on_readable_transition_unscheduled ==
    /\ Handles("s_read", "transition") /\ Readable(s_sock, s_fin)
    /\ ~HasEof(s_sock, s_fin, BufSize)
    /\ response_buf' = StoreLast(response_buf, ReadAll(s_sock, BufSize))
    /\ got' = got \union Range(ReadAll(s_sock, BufSize))
    /\ s_read_all(BufSize)
    /\ UNCHANGED <<control, queues, request_buf, request_tmp_buf, c_env, c_out, sent, mishaps>>

(* Server::on_readable in transition: more of the response goes to file. *)
Server_on_readable_transition ==
    /\ Handles("s_read", "transition") /\ Readable(s_sock, s_fin)
    /\ ~HasEof(s_sock, s_fin, BufSize)
    /\ response_buf' = StoreLast(response_buf, ReadAll(s_sock, BufSize))
    /\ got' = got \union Range(ReadAll(s_sock, BufSize))
    /\ s_read_all(BufSize)
    /\ pending' = pending \union {"c_write"}
    /\ UNCHANGED <<status, mode, parser, ppos, server, queues, request_buf,
                   request_tmp_buf, c_env, c_out, sent, mishaps>>

(* Server::on_readable in transition when the read meets the FIN: what was *)
(* read with it is not stored.                                             *)
Server_closed_in_transition ==
    /\ Handles("s_read", "transition")
    /\ HasEof(s_sock, s_fin, BufSize)
    /\ got' = got \union Range(ReadAll(s_sock, BufSize))
    /\ mishaps' = IF s_sock # <<>> THEN mishaps \union {"cut"} ELSE mishaps
    /\ finish_transition
    /\ UNCHANGED <<status, parser, ppos, c_queue, history, files, c_env, c_out, sent>>

(* Server::on_readable with EV_TIMEOUT: no packets for TRANS_TIMEOUT.  The *)
(* timer and the data may become active together; the timeout wins.        *)
Transition_timeout ==
    /\ Handles("s_read", "transition")
    /\ finish_transition
    /\ UNCHANGED <<status, parser, ppos, c_queue, history, files, c_env, ghosts>>

(* Server::on_writable in transition: feed the queue to the server.  The   *)
(* queue's pointer is used before the write and, for the LOG2 that ends    *)
(* the handler, after free_queued_output has set it to NULL.               *)
Server_on_writable_transition ==
    /\ Handles("s_write", "transition")
    /\ \/ /\ s_queue = NULL
          /\ status' = "crashed"
          /\ UNCHANGED <<pending, s_queue, sent>>
       \/ /\ s_queue # NULL
          /\ \E w \in 0..Len(s_queue) :
               /\ sent' = sent \o First(s_queue, w)
               /\ IF w = Len(s_queue)
                  THEN /\ pending' = pending \ {"s_write"}
                       /\ s_queue' = NULL
                       /\ status' = IF LOG_LEVEL_2 THEN "crashed" ELSE status
                  ELSE /\ s_queue' = Rest(s_queue, w)
                       /\ UNCHANGED <<pending, status>>
    /\ UNCHANGED <<mode, parser, ppos, server, c_queue, history, files, c_env, s_env,
                   c_out, got, mishaps>>

-----------------------------------------------------------------------------
(* Slow mode. *)

(* Client::recv_to_buffer_slowly meets the client's FIN. *)
Client_closed_slow ==
    /\ Handles("c_read", "slow")
    /\ HasEof(c_sock, c_fin, BufSize)
    /\ delete_conn
    /\ UNCHANGED ghosts

(* Client::recv_to_buffer_slowly: what the parser makes of the block. *)
Client_on_readable_slow ==
    LET d == ReadAll(c_sock, BufSize)
    IN  /\ Handles("c_read", "slow") /\ Readable(c_sock, c_fin)
        /\ ~HasEof(c_sock, c_fin, BufSize)
        /\ \/ \* ParserError with nothing to reply
              /\ ~ParsesAsRequest(ppos, d) /\ response_buf.data = <<>>
              /\ delete_conn /\ UNCHANGED ghosts
           \/ \* ParserError, but a response has been stored
              /\ ~ParsesAsRequest(ppos, d) /\ response_buf.data # <<>>
              /\ reply_only /\ c_read_all(BufSize)
              /\ UNCHANGED <<status, mode, server, queues, files, s_env, ghosts>>
           \/ \* the request is still incomplete
              /\ ParsesAsRequest(ppos, d) /\ ~CompletesMsg(ppos, d)
              /\ request_buf' = Store(request_buf, d)
              /\ ppos' = ppos + Len(d)
              /\ c_read_all(BufSize)
              /\ UNCHANGED <<status, mode, parser, server, pending, queues,
                             request_tmp_buf, response_buf, s_env, ghosts>>
           \/ \* the request is complete, but the server cannot be reached
              /\ ParsesAsRequest(ppos, d) /\ CompletesMsg(ppos, d)
              /\ delete_conn
              /\ reply_with_503_unavailable
              /\ mishaps' = IF Unread(response_buf) # <<>>
                            THEN mishaps \union {"interjected"} ELSE mishaps
              /\ UNCHANGED <<sent, got>>
           \/ \* the request is complete: pause the client, connect
              /\ ParsesAsRequest(ppos, d) /\ CompletesMsg(ppos, d)
              /\ LET e == FirstEnd(ppos)
                 IN  /\ request_buf' = Rewind(Store(request_buf, First(d, e)))
                     /\ request_tmp_buf' = Store(request_tmp_buf, Rest(d, e))
                     /\ mishaps' = IF e < Len(d) THEN mishaps \union {"overflow"}
                                   ELSE mishaps
              /\ parser' = "response" /\ ppos' = 0
              /\ server' = TRUE /\ sent' = <<>>
              /\ pending' = (pending \ {"c_read"}) \union {"s_read", "s_write"}
              /\ c_read_all(BufSize)
              /\ UNCHANGED <<status, mode, queues, response_buf, s_env, c_out, got>>

(* Client::send_response_slowly, in transition too: pass on what a fetch   *)
(* returns; with nothing left the write event is deleted and a reply-only  *)
(* connection ends.                                                        *)
send_response_slowly ==
    LET d == Fetched(response_buf, BufSize)
    IN  /\ status = "open" /\ mode # "fast" /\ "c_write" \in pending
        /\ \/ /\ d # <<>>
              /\ \E w \in 0..Len(d) :
                   /\ response_buf' = Advance(response_buf, Len(d), w)
                   /\ c_out' = c_out \o First(d, w)
              /\ UNCHANGED <<control, queues, request_buf, request_tmp_buf,
                             c_env, s_env, sent, got, mishaps>>
           \/ /\ d = <<>> /\ parser # "none"
              /\ pending' = pending \ {"c_write"}
              /\ UNCHANGED <<status, mode, parser, ppos, server, queues, files,
                             c_env, s_env, ghosts>>
           \/ /\ d = <<>> /\ parser = "none"
              /\ delete_conn /\ UNCHANGED ghosts

(* free_server in slow mode, before the request's last fetch returned 0:   *)
(* request_buf has not been exchanged for the cleared one.                 *)
NoteOutrun ==
    mishaps' = IF "s_write" \in pending THEN mishaps \union {"outrun"} ELSE mishaps

(* Server::recv_to_buffer_slowly.  The response parser's verdict on a      *)
(* non-empty block is the server's choice.                                 *)
Server_on_readable_slow ==
    LET d   == ReadAll(s_sock, BufSize)
        eof == HasEof(s_sock, s_fin, BufSize)
        buf == StoreLast(response_buf, d)
    IN  /\ Handles("s_read", "slow") /\ Readable(s_sock, s_fin)
        /\ got' = got \union Range(d)
        /\ UNCHANGED <<c_out, sent>>
        /\ \E verdict \in IF d = <<>> THEN {"partial"} ELSE {"partial", "complete", "error"} :
             \/ /\ verdict = "error"
                /\ free_server /\ reply_only
                /\ response_buf' = buf
                /\ NoteOutrun
                /\ UNCHANGED <<status, mode, c_queue, history, request_buf,
                               request_tmp_buf, c_env>>
             \/ /\ verdict # "error" /\ (eof \/ verdict = "complete")
                /\ free_server
                /\ parser' = "request" /\ ppos' = 0
                /\ response_buf' = buf
                /\ pending' = (pending \ {"s_read", "s_write"}) \union {"c_read", "c_write"}
                /\ NoteOutrun
                /\ UNCHANGED <<status, mode, c_queue, history, request_buf,
                               request_tmp_buf, c_env>>
             \/ /\ verdict = "partial" /\ ~eof
                /\ s_read_all(BufSize)
                /\ response_buf' = buf
                /\ pending' = pending \union {"c_write"}
                /\ UNCHANGED <<status, mode, parser, ppos, server, queues, request_buf,
                               request_tmp_buf, c_env, mishaps>>

(* Server::send_request_slowly: forward the request; once all of it is     *)
(* written, the overflow becomes the next request's beginning.             *)
send_request_slowly ==
    LET d == Fetched(request_buf, BufSize)
    IN  /\ Handles("s_write", "slow")
        /\ \/ /\ d # <<>>
              /\ \E w \in 0..Len(d) :
                   /\ request_buf' = Advance(request_buf, Len(d), w)
                   /\ sent' = sent \o First(d, w)
              /\ UNCHANGED <<pending, request_tmp_buf>>
           \/ /\ d = <<>>
              /\ pending' = pending \ {"s_write"}
              /\ request_buf' = request_tmp_buf
              /\ request_tmp_buf' = EmptyFile
              /\ UNCHANGED sent
        /\ UNCHANGED <<status, mode, parser, ppos, server, queues, response_buf,
                       c_env, s_env, c_out, got, mishaps>>

(* monitor_data_rates deletes a connection it finds too slow. *)
Monitor_drop ==
    /\ Listed
    /\ delete_conn
    /\ UNCHANGED ghosts

-----------------------------------------------------------------------------
(* The peers. *)

Client_sends ==
    /\ status = "open" /\ c_fin = "open" /\ c_next < MaxRequestTokens
    /\ \E t \in {c_next + 1, Malformed} : c_sock' = c_sock \o <<t>>
    /\ c_next' = c_next + 1
    /\ UNCHANGED <<control, queues, files, c_fin, s_env, ghosts>>

Client_closes ==
    /\ status = "open" /\ c_fin = "open"
    /\ c_fin' \in {"fin", "rst"}
    /\ UNCHANGED <<control, queues, files, c_sock, c_next, s_env, ghosts>>

(* A server may also speak first. *)
Server_sends ==
    /\ status = "open" /\ server /\ s_fin = "open"
    /\ s_next < MaxResponseTokens
    /\ s_sock' = s_sock \o <<s_next + 1>>
    /\ s_next' = s_next + 1
    /\ UNCHANGED <<control, queues, files, s_fin, c_env, ghosts>>

Server_closes ==
    /\ status = "open" /\ server /\ s_fin = "open"
    /\ s_fin' \in {"fin", "rst"}
    /\ UNCHANGED <<control, queues, files, s_sock, s_next, c_env, ghosts>>

-----------------------------------------------------------------------------
(* What accept_new leaves behind. *)
Init ==
    /\ status = "open" /\ mode = "fast"
    /\ parser = "none" /\ ppos = 0
    /\ server = FALSE /\ pending = {"c_read"}
    /\ c_queue = NULL /\ s_queue = NULL /\ history = <<>>
    /\ request_buf = EmptyFile /\ request_tmp_buf = EmptyFile /\ response_buf = EmptyFile
    /\ c_sock = <<>> /\ c_fin = "open" /\ c_next = 0
    /\ s_sock = <<>> /\ s_fin = "open" /\ s_next = 0
    /\ c_out = <<>> /\ sent = <<>> /\ got = {} /\ mishaps = {}

FastNext ==
    \/ Client_on_readable_unreachable
    \/ Client_on_readable_fast
    \/ Server_on_readable_fast
    \/ Client_on_writable_reply_only
    \/ Client_on_writable_fast
    \/ Server_on_writable_fast

TransitionNext ==
    \/ set_slow_mode_idle
    \/ set_slow_mode_busy
    \/ Server_on_readable_transition
    \/ Server_closed_in_transition
    \/ Transition_timeout
    \/ Server_on_writable_transition

SlowNext ==
    \/ Client_closed_slow
    \/ Client_on_readable_slow
    \/ send_response_slowly
    \/ Server_on_readable_slow
    \/ send_request_slowly

PeerNext == Client_sends \/ Client_closes \/ Server_sends \/ Server_closes

Next == FastNext \/ TransitionNext \/ SlowNext \/ Monitor_drop \/ PeerNext

Spec == Init /\ [][Next]_vars

(* Fairness.  libevent keeps running the callback of an event that stays   *)
(* ready, the transition timer expires once the server is silent, and the  *)
(* protected server ends every connection sooner or later.                 *)
FairSpec ==
    /\ Spec
    /\ WF_vars(Server_on_writable_fast)
    /\ WF_vars(Transition_timeout)
    /\ WF_vars(Server_on_readable_slow)
    /\ WF_vars(Server_closes)

-----------------------------------------------------------------------------
(* Properties. *)

Files == {f \in [data : Seq(Int), pos : Nat] : f.pos <= Len(f.data)}
Queues == {s \in Seq(Int) : Len(s) <= BufSize - 1} \union {NULL}

(* Every variable keeps its type: a queue never holds more than the        *)
(* circular buffer's capacity, and a file offset never passes the file's   *)
(* end.                                                                    *)
ControlType ==
    /\ status \in {"open", "closed", "crashed"}
    /\ mode \in {"fast", "transition", "slow"}
    /\ parser \in {"none", "request", "response"}
    /\ ppos \in 0..(MsgLen - 1)
    /\ server \in BOOLEAN
    /\ pending \in SUBSET Events
QueueType == c_queue \in Queues /\ s_queue \in Queues /\ history \in Seq(Int) \union {NULL}
FileType == request_buf \in Files /\ request_tmp_buf \in Files /\ response_buf \in Files
ClientType == c_sock \in Seq(Int) /\ c_fin \in {"open", "fin", "rst"} /\ c_next \in Nat
ServerType == s_sock \in Seq(Int) /\ s_fin \in {"open", "fin", "rst"} /\ s_next \in Nat
GhostType ==
    /\ c_out \in Seq(Int) /\ sent \in Seq(Int)
    /\ got \in SUBSET Int
    /\ mishaps \in SUBSET {"stranded", "revived", "overflow", "outrun", "cut", "interjected"}
TypeOK == ControlType /\ QueueType /\ FileType /\ ClientType /\ ServerType /\ GhostType

(* The client tokens the proxy has read, and the run of tokens a..b. *)
Consumed == c_next - Len(c_sock)
Run(a, b) == [i \in 1..(b - a + 1) |-> a + i - 1]

(* An open connection always has an event added, and none of an object     *)
(* that is gone.  A connection without events would never run again, and   *)
(* get_all_connections, through which the monitor and the shutdown find    *)
(* connections, would not list it.                                         *)
Watched ==
    status = "open" =>
        /\ pending # {}
        /\ pending \intersect {"s_read", "s_write"} # {} => server

(* Fast mode's flow control: in each direction exactly one of "read from   *)
(* the source" and "wait until the sink is writable" is added, through     *)
(* every interleaving of the four callbacks.                               *)
Backpressure ==
    status = "open" /\ mode = "fast" /\ server =>
        /\ "c_read" \in pending <=> "s_write" \notin pending
        /\ "s_read" \in pending <=> "c_write" \notin pending

(* The assertion of recv_to_buffer_slowly (client.cpp:51): out of fast     *)
(* mode a server exists only while the client is paused, and then its read *)
(* event is added, so something can resume the client.                     *)
ServerOnlyWhenClientPaused ==
    status = "open" /\ mode # "fast" /\ server =>
        "c_read" \notin pending /\ "s_read" \in pending

(* Until the transition ends, what the server received and what is queued  *)
(* for it are exactly the client's stream: nothing lost, doubled or        *)
(* reordered across pauses, partial writes and the mode switch.            *)
RequestStream ==
    status = "open" /\ server /\ mode # "slow" =>
        sent \o (IF s_queue = NULL THEN <<>> ELSE s_queue) = Run(1, Consumed)

(* The history is the incomplete request at the end of that stream, and    *)
(* set_slow_mode hands exactly this to request_buf (keep_track_request_    *)
(* history, copy_history_to).                                              *)
HistoryIsIncompleteRequest ==
    /\ status = "open" /\ mode = "fast" /\ server =>
         ppos = Consumed % MsgLen /\ history = Run(Consumed - ppos + 1, Consumed)
    /\ status = "open" /\ mode = "transition" =>
         /\ ppos = Consumed % MsgLen
         /\ request_buf = Store(EmptyFile, Run(Consumed - ppos + 1, Consumed))

(* What the proxy keeps of the response. *)
Held == IF mode = "fast" THEN (IF c_queue = NULL THEN <<>> ELSE c_queue)
        ELSE Unread(response_buf)

(* The response on its way: written, kept, and not yet read. *)
Stream == c_out \o Held \o s_sock

(* The client receives the server's tokens in order and never twice,       *)
(* whatever mode switches, reconnects and partial writes happen.           *)
ResponseInOrder ==
    \A i, j \in 1..Len(Stream) :
        i < j /\ Stream[i] # Page503 /\ Stream[j] # Page503 => Stream[i] < Stream[j]

(* What has been read from the server was passed on or is still held. *)
NothingReadIsLost == status = "open" => got = Range(c_out) \union Range(Held)

(* A transition buffers the remaining response before it closes the server *)
(* connection (ls_proxy.h:124): through mode switches, partial writes and  *)
(* reconnects nothing is lost, unless the FIN came in one read with data   *)
(* (server.cpp:98) or a reply-only connection was put into slow mode       *)
(* (connection.cpp:8).                                                     *)
KeptUnlessCut == mishaps \intersect {"cut", "revived"} = {} => NothingReadIsLost

(* The 503 page is the last thing a client receives, and no response that  *)
(* the proxy has read is missing before it, unless one was still in        *)
(* response_buf when the next server could not be reached (client.cpp:75). *)
PageComesLast ==
    \A i \in 1..Len(c_out) : c_out[i] = Page503 =>
        /\ i = Len(c_out) /\ status = "closed"
        /\ mishaps \intersect {"cut", "revived", "interjected"} = {} => got \subseteq Range(c_out)

(* Slow mode's core promise, where neither the response outran the request *)
(* nor a pipelined request overflowed: the parser is where the client's    *)
(* stream is, request_buf is exactly the incomplete request, and what a    *)
(* server connection receives is exactly the one complete request.         *)
SlowRequestIntact ==
    status = "open" /\ mode = "slow" /\ mishaps \subseteq {"stranded"} =>
        /\ parser = "request" =>
             /\ ppos = Consumed % MsgLen
             /\ request_buf = Store(EmptyFile, Run(Consumed - ppos + 1, Consumed))
        /\ server /\ "s_write" \in pending =>
             /\ request_buf.data = Run(Consumed - MsgLen + 1, Consumed)
             /\ sent = First(request_buf.data, request_buf.pos)
        /\ server /\ "s_write" \notin pending =>
             /\ request_buf = EmptyFile
             /\ sent = Run(Consumed - MsgLen + 1, Consumed)

(* A response that waits in response_buf has the client's write event      *)
(* added, so it will be sent.                                              *)
UnsentIsScheduled ==
    status = "open" /\ mode # "fast" /\ Unread(response_buf) # <<>> => "c_write" \in pending

(* UnsentIsScheduled, except for the data set_slow_mode itself moves there *)
(* without adding the event.                                               *)
UnsentIsScheduledOnceStored == "stranded" \notin mishaps => UnsentIsScheduled

(* Every object a callback of an added event dereferences exists, and the  *)
(* states of parser, server, queues and events fit together in each mode.  *)
(* Server::on_writable in transition is the one exception: its queue may   *)
(* be gone (see NoCrash).                                                  *)
WiredFast ==
    /\ history # NULL
    /\ parser \in {"none", "request"}
    /\ server <=> parser # "none"
    /\ server <=> s_queue # NULL
    /\ server => c_queue # NULL
    /\ ~server => \/ c_queue = NULL /\ pending = {"c_read"}
                  \/ c_queue # NULL /\ c_queue # <<>> /\ pending = {"c_write"}
WiredTransition ==
    /\ server /\ parser = "request"
    /\ history = NULL /\ c_queue = NULL
    /\ s_queue # NULL => s_queue # <<>> /\ "s_write" \in pending
WiredSlow ==
    /\ history = NULL /\ s_queue = NULL
    /\ server <=> parser = "response"
    /\ parser = "request" => "c_read" \in pending
    /\ parser = "none" => pending = {"c_write"}
Wired ==
    status = "open" =>
        /\ mode = "fast" => WiredFast
        /\ mode = "transition" => WiredTransition
        /\ mode = "slow" => WiredSlow

(* The control invariant: with TypeOK it is inductive. *)
Wiring == Wired /\ Watched /\ Backpressure /\ ServerOnlyWhenClientPaused

(* The process never dereferences a NULL queue (test/test_bugs.cpp expects *)
(* the proxy to stay alive).                                               *)
NoCrash == status # "crashed"

(* A paused client is eventually read again, unless its connection ends or *)
(* becomes reply-only.                                                     *)
PausedClientResumes ==
    (status = "open" /\ parser # "none" /\ "c_read" \notin pending)
        ~> ("c_read" \in pending \/ parser = "none" \/ status # "open")
=============================================================================
