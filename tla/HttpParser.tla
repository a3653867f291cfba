----------------------------- MODULE HttpParser -----------------------------
(***************************************************************************)
(* How slow mode uses the one HttpParser of a connection.  The same object *)
(* finds the end of the client's requests and, reset in between, the end   *)
(* of the server's responses; last_method is what it carries over, because *)
(* a response to HEAD has no body whatever its header says.                *)
(*                                                                         *)
(* The peers speak well-formed HTTP.  A request is two tokens, "first"     *)
(* (with its method) and "last".  A response is a "head" token with status *)
(* and announced length, then its body tokens; the length Forever stands   *)
(* for a body that ends where the server closes.                           *)
(*                                                                         *)
(* The method CONNECT stands for every request that asks to leave HTTP: a  *)
(* CONNECT or one with an Upgrade header.  A server agrees (status 101)    *)
(* only to a request that it received, and slow mode forwards none of this *)
(* kind.  A request that announces "Connection: close" is the client's     *)
(* last one: llhttp ignores what follows it.                               *)
(***************************************************************************)
EXTENDS Integers, Sequences

CONSTANTS
    NULL,           \* no end of message
    MaxRequests,    \* bound: requests the client sends
    MaxBody,        \* bound: tokens of a body
    BufSize         \* SOCK_IO_BUF_SIZE, in tokens

ASSUME ParserAssumption ==
    /\ NULL \notin Nat
    /\ MaxRequests \in Nat /\ MaxBody \in Nat /\ BufSize \in Nat \ {0}

VARIABLES
    parser,             \* conn->parser, see NewParser
    phase,              \* "collect" (a request), "exchange" (with a server) or "closed"
    unread,             \* what the client will send
    request_buf, request_tmp_buf,   \* the tokens stored in them
    exchanged,          \* has send_request_slowly exchanged the two buffers
    response,           \* what the server will still send
    cut,                \* history: was a server freed before its last token
    mishaps             \* history: which of the documented gaps have occurred

vars == <<parser, phase, unread, request_buf, request_tmp_buf, exchanged, response,
          cut, mishaps>>

Forever == -1
HTTP_HEAD == "HEAD"
CONNECT == "CONNECT"
MethodZero == "DELETE"      \* what llhttp_init leaves in parser->method
Methods == {"GET", HTTP_HEAD, CONNECT}
First(s, n) == SubSeq(s, 1, n)
Rest(s, n) == SubSeq(s, n + 1, Len(s))

-----------------------------------------------------------------------------
\* Mutant of reset_parser: llhttp_init is missing.
reset_parser_not(p, settings) == p

(* HttpParser::reset_parser: llhttp forgets everything; last_method and    *)
(* the two pointers are members of HttpParser and stay.                    *)
reset_parser(p, settings) ==
    [p EXCEPT !.settings = settings, !.method = MethodZero, !.left = 0, !.error = FALSE]

switch_to_request_mode(p) == reset_parser(p, "request")
switch_to_response_mode(p) == reset_parser(p, "response")

NewParser ==
    [settings |-> "request", method |-> MethodZero, left |-> 0, error |-> FALSE, at |-> 0,
     first_eom |-> NULL, last_eom |-> NULL, last_method |-> MethodZero]

\* Mutant of message_complete_cb: the method of the first request is kept.
message_complete_cb_once(p) ==
    [p EXCEPT !.first_eom = IF @ = NULL THEN p.at ELSE @, !.last_eom = p.at,
              !.last_method = IF @ = MethodZero THEN p.method ELSE @]

(* message_complete_cb: at is the position behind the message. *)
message_complete_cb(p) ==
    [p EXCEPT !.first_eom = IF @ = NULL THEN p.at ELSE @, !.last_eom = p.at,
              !.last_method = p.method]

\* Mutant of headers_complete_cb: only the status counts.
headers_complete_cb_status(p, t) == t.status = 304

(* headers_complete_cb: does it tell llhttp that there is no body. *)
headers_complete_cb(p, t) == t.status = 304 \/ p.last_method = HTTP_HEAD

(* The token that completes a request to leave HTTP. *)
Upgrades(t) == t.kind = "last" /\ t.method = CONNECT

(* llhttp itself: left is what the current message still lacks.  Behind a  *)
(* request to leave HTTP it calls message_complete_cb and then stops for   *)
(* good with HPE_PAUSED_UPGRADE, an error for do_parse as every other.  An *)
(* interim response is a complete message for it.                          *)
llhttp_request(p, t) ==
    IF t.kind = "first" /\ p.left = 0 THEN [p EXCEPT !.left = 1, !.method = t.method]
    ELSE IF t.kind = "last" /\ p.left = 1
         THEN message_complete_cb([p EXCEPT !.left = 0, !.error = Upgrades(t)])
    ELSE [p EXCEPT !.error = TRUE]

llhttp_response(p, t) ==
    IF t.kind = "head" /\ p.left = 0
    THEN IF t.status = 100 \/ t.len = 0 \/ headers_complete_cb(p, t)
         THEN message_complete_cb(p) ELSE [p EXCEPT !.left = t.len]
    ELSE IF t.kind = "body" /\ p.left > 1 THEN [p EXCEPT !.left = @ - 1]
    ELSE IF t.kind = "body" /\ p.left = 1 THEN message_complete_cb([p EXCEPT !.left = 0])
    ELSE [p EXCEPT !.error = ~(t.kind = "body" /\ p.left = Forever)]

(* The settings of init_all_settings decide which callbacks run; after an  *)
(* error llhttp does nothing any more.                                     *)
llhttp_step(p, t) ==
    IF p.error THEN p
    ELSE LET q == [p EXCEPT !.at = @ + 1]
         IN  IF p.settings = "request" THEN llhttp_request(q, t) ELSE llhttp_response(q, t)

llhttp_execute(p, d) ==
    LET run[i \in 0..Len(d)] == IF i = 0 THEN p ELSE llhttp_step(run[i - 1], d[i])
    IN  run[Len(d)]

\* Mutant of do_parse: the pointers of the last run stay.
do_parse_stale(p, d) == llhttp_execute([p EXCEPT !.at = 0], d)

(* HttpParser::do_parse. *)
do_parse(p, d) ==
    llhttp_execute([p EXCEPT !.at = 0, !.first_eom = NULL, !.last_eom = NULL], d)

-----------------------------------------------------------------------------
(* The server's answers to the complete requests it receives. *)
Body(n) == [i \in 1..n |-> [kind |-> "body"]]
Head_(status, len) == <<[kind |-> "head", status |-> status, len |-> len]>>
Lengths == 0..MaxBody \union {Forever}

(* A final response to method m: with status 304 or to HEAD the header     *)
(* announces a length, but no body follows.                                *)
FinalAnswers(m) ==
    {Head_(304, n) : n \in 0..MaxBody}
    \union (IF m = HTTP_HEAD THEN {Head_(200, n) : n \in Lengths}
            ELSE {Head_(200, n) \o Body(n) : n \in 0..MaxBody}
                 \union {Head_(200, Forever) \o Body(n) : n \in 0..MaxBody})
Answers(m) == FinalAnswers(m) \union {Head_(100, 0) \o a : a \in FinalAnswers(m)}

(* What the server may answer to the complete requests in b, in order. *)
Complete(b, i) == i > 1 /\ b[i - 1].kind = "first" /\ b[i].kind = "last"
Replies(b) ==
    LET to[i \in 0..Len(b)] ==
          IF i = 0 THEN {<<>>}
          ELSE IF Complete(b, i) THEN {r \o a : r \in to[i - 1], a \in Answers(b[i - 1].method)}
          ELSE to[i - 1]
    IN  to[Len(b)]
Interim(r) == \E i \in 1..Len(r) : r[i].kind = "head" /\ r[i].status = 100

-----------------------------------------------------------------------------
(* Client::recv_to_buffer_slowly with a block of k tokens: a ParserError   *)
(* ends the receiving, an incomplete request is stored, and a complete one *)
(* gets a server, for which the parser changes its mode.                   *)
Client_recv_to_buffer_slowly(k) ==
    LET d == First(unread, k)
        p == do_parse(parser, d)
        e == p.first_eom
    IN  /\ phase = "collect"
        /\ unread' = Rest(unread, k)
        /\ UNCHANGED cut
        /\ \/ /\ p.error
              /\ parser' = p /\ phase' = "closed"
              /\ mishaps' = mishaps \union
                              (IF \E i \in 1..k : Upgrades(d[i]) THEN {"upgrade"} ELSE {})
              /\ UNCHANGED <<request_buf, request_tmp_buf, exchanged, response>>
           \/ /\ ~p.error /\ e = NULL
              /\ parser' = p
              /\ request_buf' = request_buf \o d
              /\ UNCHANGED <<phase, request_tmp_buf, exchanged, response, mishaps>>
           \/ \* the server cannot be reached
              /\ ~p.error /\ e # NULL
              /\ parser' = switch_to_response_mode(p) /\ phase' = "closed"
              /\ UNCHANGED <<request_buf, request_tmp_buf, exchanged, response, mishaps>>
           \/ /\ ~p.error /\ e # NULL
              /\ parser' = switch_to_response_mode(p) /\ phase' = "exchange"
              /\ request_buf' = request_buf \o First(d, e)
              /\ request_tmp_buf' = request_tmp_buf \o Rest(d, e)
              /\ exchanged' = FALSE
              /\ response' \in Replies(request_buf')
              /\ mishaps' = mishaps \union (IF e < k THEN {"pipelined"} ELSE {})
                                    \union (IF Interim(response') THEN {"interim"} ELSE {})

(* Server::send_request_slowly, on the write event after the last byte. *)
send_request_slowly_ends ==
    /\ phase = "exchange" /\ ~exchanged
    /\ exchanged' = TRUE
    /\ request_buf' = request_tmp_buf /\ request_tmp_buf' = <<>>
    /\ UNCHANGED <<parser, phase, unread, response, cut, mishaps>>

ResponseCompleted(p, eof) == eof \/ p.last_eom # NULL

(* Server::recv_to_buffer_slowly with a block of k tokens and perhaps the  *)
(* FIN: a ParserError or the end of the message frees the server.          *)
Server_recv_to_buffer_slowly(k, eof) ==
    LET p == do_parse(parser, First(response, k))
        rest == Rest(response, k)
    IN  /\ phase = "exchange"
        /\ eof => rest = <<>>
        /\ UNCHANGED <<unread, request_buf, request_tmp_buf>>
        /\ IF p.error \/ ResponseCompleted(p, eof)
           THEN /\ parser' = IF p.error THEN p ELSE switch_to_request_mode(p)
                /\ phase' = IF p.error THEN "closed" ELSE "collect"
                /\ exchanged' = FALSE /\ response' = <<>>
                /\ cut' = (cut \/ rest # <<>>)
                /\ mishaps' = IF exchanged THEN mishaps ELSE mishaps \union {"outrun"}
           ELSE /\ parser' = p /\ response' = rest
                /\ UNCHANGED <<phase, exchanged, cut, mishaps>>

(* The client's stream: any methods. *)
Requests(ms) ==
    [i \in 1..(2 * Len(ms)) |-> [kind |-> IF i % 2 = 1 THEN "first" ELSE "last",
                                 method |-> ms[(i + 1) \div 2]]]

Init ==
    /\ parser = NewParser /\ phase = "collect"
    /\ unread \in {Requests(ms) : ms \in [1..MaxRequests -> Methods]}
    /\ request_buf = <<>> /\ request_tmp_buf = <<>> /\ exchanged = FALSE
    /\ response = <<>> /\ cut = FALSE /\ mishaps = {}

Next ==
    \/ \E k \in 1..BufSize : k <= Len(unread) /\ Client_recv_to_buffer_slowly(k)
    \/ send_request_slowly_ends
    \/ \E k \in 0..BufSize, eof \in BOOLEAN :
         k <= Len(response) /\ (k > 0 \/ eof) /\ Server_recv_to_buffer_slowly(k, eof)

Spec == Init /\ [][Next]_vars

-----------------------------------------------------------------------------
(* Types: the ends of message the callers subtract the buffer's address    *)
(* from lie in the block that was parsed last.                             *)
Eoms == Nat \union {NULL}
Parsers ==
    [settings : {"request", "response"}, method : Methods \union {MethodZero},
     left : Nat \union {Forever}, error : BOOLEAN, at : Nat,
     first_eom : Eoms, last_eom : Eoms, last_method : Methods \union {MethodZero}]
RequestTokens == [kind : {"first", "last"}, method : Methods]
ResponseTokens == [kind : {"head"}, status : {100, 200, 304}, len : Lengths] \union [kind : {"body"}]

TypeOK ==
    /\ parser \in Parsers
    /\ parser.first_eom = NULL <=> parser.last_eom = NULL
    /\ parser.last_eom # NULL => /\ parser.first_eom <= parser.last_eom
                                 /\ parser.last_eom <= parser.at
    /\ phase \in {"collect", "exchange", "closed"}
    /\ unread \in Seq(RequestTokens) /\ response \in Seq(ResponseTokens)
    /\ request_buf \in Seq(RequestTokens) /\ request_tmp_buf \in Seq(RequestTokens)
    /\ exchanged \in BOOLEAN /\ cut \in BOOLEAN
    /\ mishaps \subseteq {"pipelined", "interim", "outrun", "upgrade"}

(* A server is freed only when its response has been read to the end,      *)
(* unless bytes of a further request came in the same read (last_method is *)
(* then that of the last one, client.cpp:71), an interim response came     *)
(* first (server.cpp:55), or the response outran the request.              *)
ResponseWhole == mishaps = {} => ~cut

(* The converse: the proxy waits for more only when the response really    *)
(* lasts until the server closes.  A missed end leaves the client paused   *)
(* until the server's keep-alive timeout.                                  *)
EndNoticed ==
    phase = "exchange" /\ response = <<>> /\ mishaps = {} => parser.left = Forever

(* With well-formed peers, a ParserError comes from one of the gaps: the   *)
(* resets keep the parser in step with the two streams, however they are   *)
(* cut into reads.  The fourth gap is a request that leaves HTTP: do_parse *)
(* accepts HPE_OK only (ls_proxy.cpp:22), so such a request ends as a      *)
(* ParserError, together with the complete requests of the same read.      *)
NoSpuriousError == parser.error => mishaps # {}
=============================================================================
