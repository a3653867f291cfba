# TLA+ models of LSProxy

LSProxy is a reverse proxy that shields a web server from clients that send or
receive very slowly.  It is one process with one thread: libevent calls back
when a socket is readable or writable or a timer expires, and each callback
runs to its end.  The concurrency is in the order of these callbacks and in
what the two peers and the kernel do between them.

This directory models the proxy's own logic (`src/src/*.cpp`, `*.h`) and that
of the speed limit proxy kept beside it (`src/utils/speed_limit_proxy.*`),
checks small instances with TLC and proves theorems about all instances with
TLAPS.

## 1. The system

| Part | State | Operations | Talks to |
|------|-------|------------|----------|
| `Connection` | `fast_mode`, `in_transition`, pointers to client, server, parser | `accept_new`, `fast_forward` (both directions), `set_slow_mode`, destructor | Client, Server, HttpParser |
| `Client` | two events, `queued_output` (fast), `request_buf`, `request_tmp_buf`, `response_buf` (slow), `request_history`, two byte counters | `on_readable`, `on_writable`, `recv_to_buffer_slowly`, `send_response_slowly`, `keep_track_request_history`, `set_reply_only_mode`, `pause_r`, `resume_r` | Connection, buffers, pool |
| `Server` | two events, `queued_output` (fast) | constructor (connects), `on_readable`, `on_writable`, `recv_to_buffer_slowly`, `send_request_slowly` | Connection, Client's buffers |
| `Circularbuf` | array, two pointers | `copy_from`, `read_all_from`, `write_all_to`, `dump_to` | sockets, Filebuf |
| `Filebuf`, `FIFOfilebuf` | temporary file, one or two offsets, `data_size` | `store`, `fetch`, `rewind`, `clear`, `copy_data` | disk |
| `Hybridbuf` | array, cursor, then a file | the same | disk |
| `HttpParser` | llhttp state, first and last end of message, `last_method` | `do_parse`, `switch_to_*_mode`, `message_complete_cb`, `headers_complete_cb` | llhttp |
| process | connection count, history pool, event base, monitor timer | `main`, `monitor_data_rates`, SIGUSR1 and SIGINT handlers, `get_all_connections` | every connection |
| `connect_TCP`, `next_local_addr` | last local address and port | probing for a free local address | kernel |
| `utils/speed_limit_proxy` | per connection a quota and a queue per direction, four events | `accept_new`, `forward_*`, `on_writable` (both), `main`, SIGINT | a program of its own; shares only the buffer's design |

A connection begins in **fast mode**: bytes are copied between the sockets
through one circular buffer per direction, and the incomplete request at the
end of the client's stream is kept as *history*.  When the monitor finds the
connection slow, or on SIGUSR1, `set_slow_mode` starts the **transition**: the
client is paused, history and queued response move to files, the server has
`TRANS_TIMEOUT` seconds of silence to finish.  Then comes **slow mode**: a
request is collected in a file until it is complete, a server connection is
opened for it alone, the response is collected at full speed and passed on at
the client's pace.  A connection whose server is gone but which still owes the
client data is **reply-only**.

What is hard here: the four callbacks of a connection add and delete each
other's events, so that a missed `add_event` in one order of callbacks hangs
the connection; the mode switch can come between any two callbacks; sockets
take part of a block or nothing; a FIN or reset may come with data or
without; a response may outrun its request; the transition timeout races late
data; and pipelined requests end and begin within one read.  `PROJECT.json`
lists these hazards, each at its line with the properties that watch it.

## 2. Modules

    ByteQueue          abstract bounded FIFO queue
      ^ implemented by
    Circularbuf        the array and its two pointers
      CircularbufProofs    theorems;  MCCircularbuf: TLC instance
    Tape               abstract buffer file: content and cursor
      ^ implemented by
    Hybridbuf          memory first, then a file
      HybridbufProofs      theorems;  MCHybridbuf: TLC instance
    Filebuf            operators on the slow-mode file buffers
      ^ used by
    Connection         one connection: modes, callbacks, peers
      ConnectionProofs     theorems about control, response and request;
                           MCConnection: TLC instances
      ^ extended by
    Signals            SIGUSR1's list of events on top of it;  MCSignals
    Rates              the byte counters and the monitor's verdicts
      RatesProofs          theorems;  MCRates: TLC instances
    Proxy              what connections share: count, pool, descriptors
      ProxyProofs          theorems;  MCProxy: TLC instances
    LocalAddr          connect_TCP's search for a local address
      LocalAddrProofs      theorems;  MCLocalAddr: TLC instance
    HttpParser         the one parser of a slow connection
      MCHttpParser         TLC instance
    SpeedLimit         utils/speed_limit_proxy: quotas and flow control
      SpeedLimitProofs     theorems;  MCSpeedLimit: TLC instance

### Circularbuf and ByteQueue

`buffer`, `start`, `end` are the class's members (pointers as offsets);
`given`, `count` and `taken` record what the last call was given, returned and
handed out, so that the abstract queue has to put and take the same bytes.  There
is one action per member function.  `copy_from(d)` has the three branches of
the code; `Consume(n)` is the pointer movement `write_all_to` and `dump_to`
share.  `ByteQueue` says what users rely on: `Put` keeps the longest prefix
that fits and reports its length, `Take` hands out the oldest bytes.  The
refinement mapping takes the cells from `start` to `end`, with wrap-around, as
the queue.

### Filebuf

A file is a record of content and fetch offset.  A `Filebuf` has one offset for
reading and writing, so `Store` overwrites from there; a `FIFOfilebuf` has a
second descriptor for reading, so `StoreLast` appends.  `Advance` is a fetch
followed by the caller's `rewind(count - n)`.  Disk failures abort the process
or are reported and ignored; they are not modelled.

### Hybridbuf and Tape

`buffer`, `next_pos`, `data_size` are the members, `file` the temporary file
with its single offset, `given` and `result` what the last call stored and
fetched.  `store` and `fetch` (with `_buf_write` and
`_buf_read`), `rewind`, and `clear` are actions.  A store is guarded by
`AtEnd`: the class writes where its cursors are, and its users store only where
the data end (`keep_track_request_history` after a clear or another store).
`rewind_by` is `rewind` with an amount; it takes its target from `data_size`,
so it is modelled where that is the cursor, and nobody calls it for a
`Hybridbuf` yet.  `Tape` is a content with a cursor whose `Fetch` may return
less than asked for, but nothing only at the end.

### Connection

| Variable | Code |
|----------|------|
| `status` | does the object exist; `"crashed"`: the process died |
| `mode` | `fast_mode`, `in_transition` |
| `parser`, `ppos` | `conn->parser`, its settings, and how much of the current request it has consumed |
| `server` | `conn->server` |
| `pending` | which of the four events are added to the event base |
| `c_queue`, `s_queue`, `history`, `request_buf`, `request_tmp_buf`, `response_buf` | the buffers, `NULL` when freed |
| `c_sock`, `c_fin`, `s_sock`, `s_fin` | what the kernel holds unread, and a FIN or reset behind it |
| `c_next`, `s_next` | how much each peer has sent |
| `c_out`, `sent`, `got`, `mishaps` | history variables for the properties |

Data are tokens.  The client's stream is 1, 2, 3, ...; `MsgLen` tokens are a
request, and a token may be `Malformed`.  The parser accepts a block that
continues the request it is in and reports the first and the last end of a
message in it, as `message_complete_cb` does.  The server's stream is 1, 2,
3, ... too; whether a block completes or breaks a response is a free choice.

Each callback is an action, or one action per branch where the branches share
nothing: `Client_on_readable_fast` (with `fast_forward_client`),
`Server_on_readable_fast`, `Client_on_writable_fast`,
`Client_on_writable_reply_only`, `Server_on_writable_fast`, the transition's
`Server_on_readable_transition`, `Server_closed_in_transition`,
`Transition_timeout`, `Server_on_writable_transition`, and slow mode's
`Client_on_readable_slow`, `Client_closed_slow`, `send_response_slowly`,
`Server_on_readable_slow`, `send_request_slowly`.  `set_slow_mode_idle` and
`set_slow_mode_busy` are the branches of `set_slow_mode`, which the monitor
and the SIGUSR1 timer call at any time; `Monitor_drop` is the monitor's
`delete`.  A write takes any number of bytes from none to all.  `read_all`
sees a FIN only when it runs dry below its limit; a reset is one failed read,
after which the socket reads as closed.

Section 4 lists behaviours of the code that contradict its own comments or
tests, or lose data.  Where such a behaviour would drown the other properties,
the history variable `mishaps` records that it has happened, and a property
says for which of them it makes an exception.  The mishaps are `"revived"`,
`"stranded"`, `"overflow"`, `"outrun"`, `"cut"` and `"interjected"`.

### Signals

`put_all_connection_slow_mode` only collects the events that are added
(`evt_list`); `put_events_slow_mode` uses the list one second later.  Between
the two, any steps of `Connection` happen, and `freed` follows which listed
events `~Client` and `~Server` have freed.  Reading a freed event is undefined:
the model lets it be ignored, be taken for a connection's, or fault.

### Rates

One connection, reduced to `mode` and the bytes that pass its client's socket.
`read_count` and `write_count` are the code's; `up` and `down` are what was
really read and written since the last inspection.  Each callback is an action
that moves `n` bytes and counts them or, as `Client::on_writable` and
`recv_to_buffer_slowly`, does not.  `monitor_drops` and `monitor_keeps` are the
two ends of the monitor's loop body, the second with its mode switch and reset.

### Proxy

`main_starts` is `main` up to the event loop: it fills the pool and runs, or
ends on the command line, the descriptor limit or a socket it cannot bind.
Several connections, each reduced to the `phase` that decides which descriptors
it holds (`new`, `fast`, `reply`, `transition`, `idle`, `busy`, `final`);
`hybridbuf_pool` and `request_history` with buffer identities and `dirty` for
those that hold data; `connection_count`; and the descriptors: `Fds` adds up
the table of `ls_proxy.h:135`, plus `lingering` (sockets that
`close_socket_gracefully` leaves to its timer) and `leaked` (those nobody
closes: `connect_TCP`'s on failure, `response_buf`'s reader).  When an
operation needs more than `MAX_FILE_DSC` allows, `ERROR_EXIT` aborts
the process.  `proc` and `todo` are the loops over `get_all_connections` in the
monitor and at shutdown.  Which callback outcome happens is a free choice here;
`Connection` says when.  `Conn` and `Buf` are identities (addresses), more of
them than can be in use, so that deleted objects' identities are reused.

### LocalAddr

`next_local_addr`'s static host and port, `connect_TCP`'s loop and its counter.
`used` is what `bind` refuses; other sockets bind and release at any time.
`tried` and `free` record what this search has tried and what has been free
all along.

### HttpParser

`Connection` needs only positions of the parser; this module has the object
itself.  `parser` is the record of llhttp's state (`left`, what the message
still lacks; `method`; `error`; which settings) and of the class's members
(`first_eom`, `last_eom`, `last_method`).  `reset_parser` forgets the former
and keeps the latter.  `do_parse` clears the two pointers and runs `llhttp_step`
over the tokens of a block (a recursive function over its prefixes, which the
proofs unfold); llhttp is external and appears by what it does with
well-formed messages.  Behind a request that leaves HTTP (method CONNECT or an
Upgrade header; both are `CONNECT` here) it stops with `HPE_PAUSED_UPGRADE`,
after `message_complete_cb`, and `do_parse` takes that for an error
(`ls_proxy.cpp:22`): `llhttp_request` sets `error`, and the reading action
records mishap `"upgrade"` because such a request is among the tokens read, not
because an error occurred.  The two `recv_to_buffer_slowly` functions and the
end of `send_request_slowly` are the actions, with reads of every length.  The
server answers what it received: with a body, with status 304, to HEAD with a length
but no body, with a body that lasts until it closes, and perhaps with an
interim response first.  It has no reason to answer 101, as no request that
leaves HTTP reaches it.  After a message with "Connection: close" llhttp ignores
what follows, so such a request is taken to be the client's last.  `cut` records
that a server was freed before the response's last token.

### SpeedLimit

A connection of `speed_limit_proxy` has two alike directions, so each operation
takes the direction: `forward` is the body of both `forward_*` callbacks,
`on_writable` that of both write callbacks.  `reading` and `writing` are the
added events, `quota` is `c2s_quota` and `s2c_quota`, `queue` the number of
bytes queued, `passed` what the sink took.  Connections do not influence each
other and one is followed at a time.  At the end of its source `forward`
only deletes: what the code writes before that, in the same callback, is gone
with the connection.

The source is marked as under construction (`src/TODO`: "Verify that speed
limit proxy does function correctly"): two callbacks name a quota without its
connection, which does not compile and is read as the connection's own, and the
timer that would refill the quotas every second is a comment.  The model has
what is there, without a refill.

## 3. Passing runs

**circularbuf** (`MCCircularbuf.cfg`): 4 cells, blocks of up to 4 bytes, two
byte values, symmetric.  4 cells allow an empty, a partly filled, a full and a
wrapped buffer at every pointer position, and blocks that are too long.
`TypeOK`; `ImplementsByteQueue`.

**hybridbuf** (`MCHybridbuf.cfg`): 2 memory cells, up to 5 bytes, fetches of up
to 3, so that content ends before, at and after the border between memory and
file.  `TypeOK`; `Layout` (the file holds what the memory does not, is read
only behind the last cell, and the unsigned `_buf_unread_data_size` does not
wrap); `ImplementsTape`.

**connection** (`MCConnection.cfg`): requests of 2 tokens, buffers of 3 (a
queue holds 2), 4 client tokens, 3 server tokens.  A read can end a request
and bring a part of the next; there are two requests, so that one can come
before, across or after the mode switch and another one after it; responses
exceed a queue.

- `TypeOK`: queues within capacity, offsets within files.
- `Watched`: an open connection has an event added, and none of a freed server.
- `Backpressure`: in each direction exactly one of "read" and "wait for the
  sink" is added.
- `ServerOnlyWhenClientPaused`: the assertion in `client.cpp:51`.
- `RequestStream`: what the server got and what is queued for it is the
  client's stream.
- `HistoryIsIncompleteRequest`: the history, and after the switch
  `request_buf`, is exactly the incomplete request.
- `ResponseInOrder`: the client gets the server's bytes in order and once.
- `KeptUnlessCut`: while the connection is open, what was read from the server
  was passed on or is held, except for a read cut off by the FIN in transition.
- `PageComesLast`: the 503 page is the end of what the client gets and does not
  interrupt a response, except for the path of `client.cpp:75`.
- `SlowRequestIntact`: in slow mode `request_buf` is the incomplete request, and
  a server connection receives exactly one complete request.
- `UnsentIsScheduledOnceStored`: a stored response has a write event.
- `Wired`: what a callback dereferences exists.
- `PausedClientResumes`: a paused client is read again, unless its connection
  ends or becomes reply-only.

The run is under `FairSpec`.  Fairness: libevent runs the callback of an event
that stays ready (`Server_on_writable_fast`, `Server_on_readable_slow`), the
timer that `add_event_with_timeout` sets expires once the server is silent
(`Transition_timeout`; the server's data are finite), and the protected server
ends each connection sooner or later (`Server_closes`).  The last is an
assumption on the server, not on the code: in slow mode the proxy has no
timeout of its own for an answer.  Nothing is assumed of the client.

**rates** (`MCRates.cfg`): thresholds 2 and 5, up to 4 bytes per direction and
interval, so that counters are below, at and above each threshold.
`CountersSound` (no unearned credit; in fast mode `read_count` is exact),
`FirstPass` (the "newbie first pass guarantee"), `UploaderKept` (fast mode
never drops an uploader), and `QuietIsDropped`, under weak fairness of
`monitor_data_rates`: its timer is persistent, and `Watched` guarantees that
`get_all_connections` finds the connection.  The types of `Rates` are part of
the inductive invariant of its proofs and have no run.

**proxy** (`MCProxy.cfg`): limit 3, pool of 1, four connection and four buffer
identities (symmetric), one lingering socket and one leaked descriptor at most.
The pool can be empty, full and refilled by a connection other than the one
that emptied it, the limit can be hit, and a deleted connection's identity
returns.  `TypeOK` (the loops hold no deleted connection; exactly the fast-mode
connections own a history), `CountExact`, `HistoryIsPrivate`,
`HistoryIsClean`, `HistoryBudget`, and `BudgetCoversConnections`: `7n + 7`
descriptors are enough unless sockets linger or descriptors leak, also for the
transient needs (the 503 page; four slow-mode files before the history goes).
The bound on leaks keeps slow-mode connections from being deleted once it is
reached; the history properties do not depend on those.

**local_addr** (`MCLocalAddr.cfg`): three hosts, two ports.  Both wrap, and a
search begins anywhere in the circle.  `TypeOK` (the documented range),
`NoneTriedTwice`, `FailsOnlyWhenFull`.  Deadlock is checked.

**http_parser** (`MCHttpParser.cfg`): three requests of two tokens, bodies of
up to one token, blocks of up to four.  A block can hold one request, the end of
one with the beginning of the next, or two; three requests put each of GET,
HEAD and CONNECT before and after the others; header and body come in one read or two.
`TypeOK` (the ends of message lie in the last block), `ResponseWhole` (a server
is freed only at its response's end), `EndNoticed` (the proxy waits only when
the response lasts until the server closes), `NoSpuriousError` (well-formed
peers cause no `ParserError`).  The three make exceptions for the mishaps
`"pipelined"`, `"interim"` and `"outrun"`, and `NoSpuriousError` for
`"upgrade"`; the connection is closed then, so the other two lose nothing by it.

**speed_limit** (`MCSpeedLimit.cfg`): speeds 0, 1 and 3, queues of up to 2
bytes, 2 unread bytes.  Speed 3 exceeds a queue, so that both the quota and the
space can be the limit of a read; speed 0 is what `atoi` makes of nonsense.
`TypeOK`, `QuotaRespected` (passed on, queued and left always add up to
`max_speed`), `Attended` (a direction with a quota has exactly one of its two
events), `FoundAtShutdown`, and `TransferGoesOn` under `FairSpec`: libevent
runs the callback of an event that stays ready (weak fairness of the four
callbacks), and a peer that is offered bytes again and again takes some of them
(strong fairness of `Drains`); the latter is an assumption on the peers.

A connection's life and the process end, so the other runs do not check
deadlock; a connection that is open but has no event is what `Watched` excludes.

Every property of a passing run has a mutant in `PROJECT.json`: a plausible slip in the code,
under which TLC finds the property violated.

## 4. Where the code and its documentation disagree

Each is a run in which TLC finds the documented property violated.

| Run | Property | What happens |
|-----|----------|--------------|
| `crash` | `NoCrash` | `Server::on_writable` in transition logs the size of the queue it just freed (`server.cpp:133`) |
| `rates_dropped` | `OnlySlowDropped` | only `fast_forward` counts bytes; the monitor drops connections that moved enough otherwise (`ls_proxy.cpp:245`) |
| `fd_budget` | `NeverOutOfDescriptors` | failed connects and deleted slow-mode connections leave a descriptor open each (`ls_proxy.cpp:133`) |
| `signal_dangling` | `NoDanglingEvent` | the list SIGUSR1 made is used after some of its events were freed (`ls_proxy.cpp:226`) |

The models contain more, without a run of their own; no document denies them,
or the exception of a property names them:

- `set_slow_mode` frees an empty server queue but leaves the server's write
  event added (`connection.cpp:31`): `crash` without `LOG_LEVEL_2` finds it;
- `set_slow_mode` takes a reply-only connection for a new one
  (`connection.cpp:15`): mishap `"revived"`;
- the queue it dumps to `response_buf` has no write event (`connection.cpp:38`):
  mishap `"stranded"`;
- the parser is reset while a pipelined request has begun in `request_tmp_buf`
  (`client.cpp:66`, `client.cpp:71`): mishap `"overflow"`;
- a response that completes before the request's last fetch leaves
  `request_buf` uncleared, and the next server connection gets two requests
  (`server.cpp:57`): mishap `"outrun"`;
- in transition, data read together with the FIN are dropped (`server.cpp:98`):
  mishap `"cut"`;
- when the server cannot be reached in slow mode, the 503 page is written amid
  a stored response (`client.cpp:75`): mishap `"interjected"`;
- when a read brings bytes of a further request, `last_method` may be that of
  the further one, and the response's end is misjudged (`ls_proxy.cpp:308`):
  mishap `"pipelined"` of `HttpParser`;
- an interim response is taken for the response (`server.cpp:55`): mishap
  `"interim"` of `HttpParser`;
- a well-formed request that leaves HTTP ends as a `ParserError`, in either mode,
  and complete requests in the same read remain unanswered (`ls_proxy.cpp:22`):
  mishap `"upgrade"` of `HttpParser`;
- SIGUSR1 passes over a connection all of whose listed events have been
  exchanged by flow control (`ls_proxy.cpp:227`): action `put_events_missed`;
- SIGINT before the event loop begins is lost (`ls_proxy.cpp:391`);
- a connection of the speed limit proxy that has used up both quotas has no
  event, and shutdown does not find it (`speed_limit_proxy.cpp:361`).

`LOG_LEVEL_2` is a constant: it is defined by default, and the passing run
clears it so that exploration goes on behind the crash of `crash`.

## 5. Proofs

`CircularbufProofs`, for every `BufSize >= 1`, every `Byte` and `MaxOffer`:

- `TypeCorrect`: `TypeOK` is inductive; the cases are the three branches of
  `copy_from` and of `Consume`.
- `Refinement`: `Spec => ImplementsByteQueue`.  `CopyFromEffect` and
  `ConsumeEffect` describe the content after a step element by element;
  `CopyFromPuts` and `ConsumeTakes` turn this into `Put` and `Take`.  The one
  free cell is needed here: it makes `data_size` and the content depend on
  the pointers alone.

`ConnectionProofs`, for every `MsgLen >= 1`, `BufSize >= 2`, both values of
`LOG_LEVEL_2`, and every bound on the peers:

- `TypeCorrect`, `WiredCorrect`, `WatchedCorrect`, `BackpressureCorrect`,
  `PausedCorrect`: consequences of one inductive invariant
  `Inv == TypeOK /\ Wiring`, `Wiring == Wired /\ Watched /\ Backpressure /\
  ServerOnlyWhenClientPaused`.  None of the four is inductive alone: an open
  connection keeps an event because flow control keeps one per direction;
  flow control holds because queues exist exactly while the server does; the
  server exists out of fast mode only while the client is paused because slow
  mode's parser is a request parser exactly when the client is read.  There
  is one lemma per action (`...Keeps`), `StepInv` combines them.
- What happens to the response: `KeptCorrect` (`KeptUnlessCut`),
  `ScheduledCorrect` (`UnsentIsScheduledOnceStored`) and `PageCorrect`
  (`PageComesLast`).
  The actions are sorted into eight kinds by what they do to the response
  (`DataStep`): it ends, it is refused with the page, nothing happens to it, some
  of it is forwarded, the two branches of `set_slow_mode`, some of it is stored,
  some of the stored is written.  `StepKind` shows from `Inv` that every action
  is of such a kind; `Inv` is needed because a handler uses a queue only while it
  exists.
  The inductive invariant `DataInv` adds two facts to the three properties:
  `FastEmpty` (in fast mode nothing is in `response_buf`, so that `set_slow_mode`
  starts from an empty file) and `NoPageHeld` (no token read from a server and no
  token held is the page, so that a page in `c_out` is one the proxy wrote).
  The lemmas under it say where tokens are: what is unread after a store is what
  was unread and the block (`UnreadStoreLast`), and a partial write moves exactly
  the written part from unread to the client (`UnreadAdvance`, which is where
  fetch and the rewind over the unwritten part have to agree).
- Its order: `OrderCorrect` (`ResponseInOrder`).  `Stream` is what the client
  got, what the proxy holds and what is in the server's socket, one after the
  other.  `OrderInv` says that it is increasing but for the page, that nothing in
  it is newer than the server's counter, and that a freed server has an empty
  socket; the last two are needed because the server appends the next number.
  Every step moves tokens along the stream or drops its end, appends the page
  after dropping the rest, or lets the server append one (`StreamStep`).
- The request: `StreamCorrect` (`RequestStream`), `HistoryCorrect`
  (`HistoryIsIncompleteRequest`) and `SlowRequestCorrect` (`SlowRequestIntact`),
  action by action from `ReqInv`, which adds: the client's socket holds the
  tokens that follow the consumed ones (`Arriving`; without it a read could
  bring anything); before the first read nothing has been sent, and fast mode
  leaves the request files alone (`Untouched`; `set_slow_mode` stores the history
  in an empty file); the overflow file is empty as long as nothing has overflowed
  (`TmpEmpty`; its content becomes the next request); and without an overflow a
  server is connected only at a request's end (`AtRequestEnd`; so what was stored
  is one whole request and not the beginning of the next).

`HttpParserProofs`, for every number of requests, every body length and buffer
size: `TypeCorrect`, `ServedToTheEnd` (`ResponseWhole`), `EndIsNoticed`
(`EndNoticed`), `ErrorsAreReal` (`NoSpuriousError`).

- What `do_parse` does with a block of any length needs induction over the
  block.  `Induct` states induction as a fact about sets, so that it needs no
  operator parameter; it follows from the library's `WFMin` for the order of the
  naturals.  With it `RunExists` and `ServingExists` show that the two recursive
  functions of the module exist, and `ExecuteRuns` and `RepliesServing` unfold
  them.
- `RequestParse`: over a block of a request stream it is in step with
  (`InStep`), the parser reports the end of the first request, ends in step with
  the rest, and if the block ends there `last_method` is that request's
  (`After`); or the block completes a request that leaves HTTP and the parser
  reports an error (`Upgraded`).  `ResponseParse`: over a block of a response whose rest it expects
  (`Awaiting`) it reports an end exactly at the response's end or expects what is
  left (`Located`).  `ResponseStep` is where HEAD matters.
- The inductive invariant `IInv` says that as long as no gap has occurred
  (`mishaps = {}`) the parser is in step with what it reads next, the buffers hold
  no rest of an earlier request, and `last_method` belongs to the request that is
  being answered.  The types hold whatever has happened.

`HybridbufProofs`, for every cache size and every set of bytes: `TypeCorrect`,
`LayoutCorrect`, and `Refinement`: `Spec => ImplementsTape`, the plain file with
one cursor.  The inductive invariant is `TypeOK`, `Layout` and `Passed` (what the
last call stored or fetched lies before the cursor); the last is needed because a
rewind with the cursor at the beginning may only stutter.  `StoreEffect`,
`FetchEffect` and `RewindByEffect` say what a call does to the cells and both
cursors on either side of the border; `StoreExtends` and `FetchFetches` turn this
into the content of the tape.

`RatesProofs`, for all thresholds (`MinDown >= 1`): `CountersAreSound`,
`UploadersAreKept`, `FirstPassGuaranteed`.  The inductive invariant adds to
`CountersSound` that until the first inspection both counters are at least
`COUNTER_INIT` and the connection has not been dropped.

`ProxyProofs`, for every finite `Conn` and `Buf` and every pool size up to
`MAX_CONNECTION`: `TypeCorrect`, `CountIsExact`, `HistoriesArePrivate`,
`HistoriesAreClean`, `HistoriesWithinBudget`, from `IInv`.  Its parts need each
other: a buffer is pushed once because exactly the fast-mode connections own
one (`TypeOK`) and owners differ (`Ownership`); a new buffer is clean because
every dirty one has an owner (`Cleanness`); the budget holds because a buffer
is made only when the pool is empty and the number of owners is then below
the exact count (`CountExact`).  Start-up (`StartStep`) fills the pool with as
many distinct clean buffers as it may hold.  `BudgetIsEnough`
(`BudgetCoversConnections`): `Fds` counts the connections that have a server and
those in slow mode, so the sum is bounded by cardinalities of subsets of the open
connections, whose number `CountExact` bounds; an abort therefore needs lingering
or leaked sockets.  It assumes `PoolAssumption`, `MAX_HYBRID_POOL + 2 <=
MAX_CONNECTION`: with a larger pool, idle buffers leave no room for the two
descriptors of a connection that is about to be refused, and the property is
false.  In the code the pool is a quarter of `MAX_CONNECTION`.

`LocalAddrProofs`, for every octet size of at least 2 and every port range:
`AddressInRange`, and `FailureIsReal`.  For the latter the addresses are
numbered along the circle; the invariant says that the addresses tried are the
last `i` numbers before the current one, so after `total_local_addr` probes
every address has been found used.  `EachTriedOnce` (`NoneTriedTwice`) needs the
converse: every address tried is one of those numbers (`Behind`), so the next one
is new and the number of addresses is that of the tries (`Counted`).

`SpeedLimitProofs`, for all speeds, buffers of at least 2 cells and every
bound: `TypeCorrect`, `QuotaIsRespected`, `EveryDirectionAttended`,
`ShutdownFindsActive`.  The inductive invariant is the conjunction of the four
properties and of `Clean` (without a connection, queues, counts of passed bytes
and events are empty, and there is none before start-up).  They need each other: a quota stays non-negative because the read
limit is at most the quota, shutdown misses only exhausted connections because
every other direction is attended, and the sum is right for the next connection
because the last one left nothing behind.

The assumptions are the named `ASSUME`s of the modules; `NullAssumption` says
that `NULL` is not a sequence.

Every invariant and every refinement that a passing run checks is also proved.
Only model-checked, because fairness and `ENABLED` are out of TLAPS's reach: the
liveness properties `PausedClientResumes`, `QuietIsDropped` and `TransferGoesOn`.

## 6. Not modelled, and what is left

Not modelled: llhttp (vendored; only its verdicts, and in `Connection` only
whether a block parses: a request that leaves HTTP is one of its `Malformed`
tokens), `utils/simple_attack` (a load
generator), the shell scripts, `test/`, logging, disk failures, exhaustion of
memory.
A signal that interrupts a callback or libevent half-way, and `get_fd()` after
`free_event` (`client.cpp:32`), are below the grain of the models: their steps
are whole callbacks, and the allocator is not part of the code.

What could still be done: proofs about the compositions.  `HttpParser` justifies
the positions that `Connection` takes from the parser, and `Connection` the phases
of `Proxy`; both are now arguments between modules and not refinements.
