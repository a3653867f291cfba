-------------------------- MODULE HttpParserProofs --------------------------
(***************************************************************************)
(* Proofs about HttpParser, for every number of requests, every body       *)
(* length and every buffer size.                                           *)
(*                                                                         *)
(* What do_parse does with a block is proved by induction over the block.  *)
(* Induct is that principle as a statement about sets: the claim about the *)
(* first i tokens becomes the set of the i it holds for.                   *)
(***************************************************************************)
EXTENDS HttpParser, SequenceTheorems, WellFoundedInduction, TLAPS

-----------------------------------------------------------------------------
(* Induction over the naturals. *)

LEMMA LeastNat ==
    ASSUME NEW T \in SUBSET Nat, T # {}
    PROVE  \E n \in T : \A m \in T : n <= m
  <1> DEFINE R == OpToRel(<, Nat)
  <1>1. IsWellFoundedOn(R, Nat)
    BY NatLessThanWellFounded
  <1> HIDE DEF R
  <1>2. PICK n \in T : \A m \in T : ~(<<m, n>> \in R)
    BY <1>1, WFMin
  <1>3. ASSUME NEW m \in T PROVE n <= m
    <2>1. ~(<<m, n>> \in OpToRel(<, Nat))
      BY <1>2 DEF R
    <2>2. m \in Nat /\ n \in Nat
      OBVIOUS
    <2>3. ~(m < n)
      BY <2>1, <2>2 DEF OpToRel
    <2> QED
      BY <2>2, <2>3
  <1> QED
    BY <1>3

LEMMA Induct ==
    ASSUME NEW S, 0 \in S, \A n \in Nat : n \in S => n + 1 \in S
    PROVE  Nat \subseteq S
  <1> SUFFICES ASSUME ~(Nat \subseteq S) PROVE FALSE
    OBVIOUS
  <1> DEFINE T == Nat \ S
  <1>1. PICK n \in T : \A m \in T : n <= m
    BY LeastNat
  <1>2. n \in Nat /\ n # 0 /\ n - 1 \in Nat /\ (n - 1) + 1 = n /\ ~(n <= n - 1)
    BY <1>1
  <1>3. n - 1 \in S
    BY <1>1, <1>2
  <1> QED
    BY <1>1, <1>2, <1>3

-----------------------------------------------------------------------------
(* The run of llhttp over a block: its existence, and the parser's states. *)
Run(g, p, d, n) ==
    g = [i \in 0..n |-> IF i = 0 THEN p ELSE llhttp_step(g[i - 1], d[i])]

LEMMA RunStates ==
    ASSUME NEW g, NEW p, NEW d, NEW n \in Nat, Run(g, p, d, n)
    PROVE  /\ g[0] = p
           /\ \A i \in 1..n : g[i] = llhttp_step(g[i - 1], d[i])
  <1>1. g = [i \in 0..n |-> IF i = 0 THEN p ELSE llhttp_step(g[i - 1], d[i])]
    BY DEF Run
  <1>2. ASSUME NEW i \in 0..n PROVE g[i] = IF i = 0 THEN p ELSE llhttp_step(g[i - 1], d[i])
    BY <1>1, Zenon
  <1>3. 0 \in 0..n /\ \A i \in 1..n : i \in 0..n /\ i # 0
    OBVIOUS
  <1> QED
    BY <1>2, <1>3, Zenon

LEMMA RunLonger ==
    ASSUME NEW g, NEW p, NEW d, NEW n \in Nat, Run(g, p, d, n)
    PROVE  \E h : Run(h, p, d, n + 1)
  <1> DEFINE h == [i \in 0..(n + 1) |-> IF i = n + 1 THEN llhttp_step(g[n], d[n + 1]) ELSE g[i]]
  <1>1. ASSUME NEW i \in 0..(n + 1)
        PROVE  h[i] = IF i = 0 THEN p ELSE llhttp_step(h[i - 1], d[i])
    <2>1. CASE i = n + 1
      <3>1. n \in 0..(n + 1) /\ n # n + 1 /\ i # 0 /\ i - 1 = n
        BY <2>1
      <3>2. h[n] = g[n] /\ h[i] = llhttp_step(g[n], d[n + 1])
        BY <2>1, <3>1
      <3> QED
        BY <2>1, <3>1, <3>2
    <2>2. CASE i # n + 1 /\ i # 0
      <3>1. i \in 1..n /\ i - 1 \in 0..(n + 1) /\ i - 1 # n + 1
        BY <2>2
      <3>2. h[i] = g[i] /\ h[i - 1] = g[i - 1]
        BY <2>2, <3>1
      <3> QED
        BY <2>2, <3>1, <3>2, RunStates
    <2>3. CASE i = 0
      <3>1. i # n + 1
        BY <2>3
      <3>2. h[i] = g[i]
        BY <3>1
      <3> QED
        BY <2>3, <3>2, RunStates
    <2> QED
      BY <2>1, <2>2, <2>3
  <1>2. h = [i \in 0..(n + 1) |-> h[i]]
    BY Zenon
  <1> HIDE DEF h
  <1>3. Run(h, p, d, n + 1)
    BY <1>1, <1>2, Zenon DEF Run
  <1> QED
    BY <1>3

LEMMA RunExists ==
    ASSUME NEW p, NEW d, NEW n \in Nat
    PROVE  \E g : Run(g, p, d, n)
  <1> DEFINE S == {k \in Nat : \E g : Run(g, p, d, k)}
  <1>1. 0 \in S
    <2> DEFINE g == [i \in 0..0 |-> p]
    <2>1. \A i \in 0..0 : i = 0
      OBVIOUS
    <2>2. Run(g, p, d, 0)
      BY <2>1 DEF Run
    <2> QED
      BY <2>2
  <1>2. ASSUME NEW k \in Nat, k \in S PROVE k + 1 \in S
    <2>1. PICK g : Run(g, p, d, k)
      BY <1>2
    <2> QED
      BY <2>1, RunLonger
  <1>3. Nat \subseteq S
    <2> HIDE DEF S
    <2> QED
      BY <1>1, <1>2, Induct
  <1> QED
    BY <1>3

(* llhttp_execute is the last state of a run. *)
LEMMA ExecuteRuns ==
    ASSUME NEW p, NEW d, Len(d) \in Nat
    PROVE  \E g : Run(g, p, d, Len(d)) /\ llhttp_execute(p, d) = g[Len(d)]
  <1> DEFINE g == CHOOSE g : Run(g, p, d, Len(d))
  <1>1. Run(g, p, d, Len(d))
    BY RunExists
  <1>2. llhttp_execute(p, d) = g[Len(d)]
    BY DEF llhttp_execute, Run
  <1> QED
    BY <1>1, <1>2

-----------------------------------------------------------------------------
(* The same for the recursion over a request buffer in Replies. *)
Served(s, b, i) ==
    IF Complete(b, i) THEN {r \o a : r \in s, a \in Answers(b[i - 1].method)} ELSE s
Serving(g, b, n) == g = [i \in 0..n |-> IF i = 0 THEN {<<>>} ELSE Served(g[i - 1], b, i)]

LEMMA ServingStates ==
    ASSUME NEW g, NEW b, NEW n \in Nat, Serving(g, b, n)
    PROVE  /\ g[0] = {<<>>}
           /\ \A i \in 1..n : g[i] = Served(g[i - 1], b, i)
  <1>1. g = [i \in 0..n |-> IF i = 0 THEN {<<>>} ELSE Served(g[i - 1], b, i)]
    BY DEF Serving
  <1>2. ASSUME NEW i \in 0..n PROVE g[i] = IF i = 0 THEN {<<>>} ELSE Served(g[i - 1], b, i)
    BY <1>1, Zenon
  <1>3. 0 \in 0..n /\ \A i \in 1..n : i \in 0..n /\ i # 0
    OBVIOUS
  <1> QED
    BY <1>2, <1>3, Zenon

LEMMA ServingLonger ==
    ASSUME NEW g, NEW b, NEW n \in Nat, Serving(g, b, n)
    PROVE  \E h : Serving(h, b, n + 1)
  <1> DEFINE h == [i \in 0..(n + 1) |-> IF i = n + 1 THEN Served(g[n], b, n + 1) ELSE g[i]]
  <1>1. ASSUME NEW i \in 0..(n + 1)
        PROVE  h[i] = IF i = 0 THEN {<<>>} ELSE Served(h[i - 1], b, i)
    <2>1. CASE i = n + 1
      <3>1. n \in 0..(n + 1) /\ n # n + 1 /\ i # 0 /\ i - 1 = n
        BY <2>1
      <3>2. h[n] = g[n] /\ h[i] = Served(g[n], b, n + 1)
        BY <2>1, <3>1
      <3> QED
        BY <2>1, <3>1, <3>2
    <2>2. CASE i # n + 1 /\ i # 0
      <3>1. i \in 1..n /\ i - 1 \in 0..(n + 1) /\ i - 1 # n + 1
        BY <2>2
      <3>2. h[i] = g[i] /\ h[i - 1] = g[i - 1]
        BY <2>2, <3>1
      <3> QED
        BY <2>2, <3>1, <3>2, ServingStates
    <2>3. CASE i = 0
      <3>1. i # n + 1
        BY <2>3
      <3>2. h[i] = g[i]
        BY <3>1
      <3> QED
        BY <2>3, <3>2, ServingStates
    <2> QED
      BY <2>1, <2>2, <2>3
  <1>2. h = [i \in 0..(n + 1) |-> h[i]]
    BY Zenon
  <1> HIDE DEF h
  <1>3. Serving(h, b, n + 1)
    BY <1>1, <1>2, Zenon DEF Serving
  <1> QED
    BY <1>3

LEMMA ServingExists ==
    ASSUME NEW b, NEW n \in Nat
    PROVE  \E g : Serving(g, b, n)
  <1> DEFINE S == {k \in Nat : \E g : Serving(g, b, k)}
  <1>1. 0 \in S
    <2> DEFINE g == [i \in 0..0 |-> {<<>>}]
    <2>1. \A i \in 0..0 : i = 0
      OBVIOUS
    <2>2. Serving(g, b, 0)
      BY <2>1 DEF Serving
    <2> QED
      BY <2>2
  <1>2. ASSUME NEW k \in Nat, k \in S PROVE k + 1 \in S
    <2>1. PICK g : Serving(g, b, k)
      BY <1>2
    <2> QED
      BY <2>1, ServingLonger
  <1>3. Nat \subseteq S
    <2> HIDE DEF S
    <2> QED
      BY <1>1, <1>2, Induct
  <1> QED
    BY <1>3

LEMMA RepliesServing ==
    ASSUME NEW b, Len(b) \in Nat
    PROVE  \E g : Serving(g, b, Len(b)) /\ Replies(b) = g[Len(b)]
  <1> DEFINE g == CHOOSE g : Serving(g, b, Len(b))
  <1>1. Serving(g, b, Len(b))
    BY ServingExists
  <1>2. Replies(b) = g[Len(b)]
    BY DEF Replies, Serving, Served
  <1> QED
    BY <1>1, <1>2

-----------------------------------------------------------------------------
(* What a server sends. *)

LEMMA AnswerTypes ==
    ASSUME NEW m
    PROVE  Answers(m) \subseteq Seq(ResponseTokens)
  <1>1. ASSUME NEW len \in Lengths
        PROVE  /\ Head_(100, len) \in Seq(ResponseTokens) /\ Head_(200, len) \in Seq(ResponseTokens)
               /\ Head_(304, len) \in Seq(ResponseTokens)
    BY DEF Head_, ResponseTokens
  <1>2. ASSUME NEW n \in Nat PROVE Body(n) \in Seq(ResponseTokens)
    BY DEF Body, ResponseTokens
  <1>3. 0..MaxBody \subseteq Lengths /\ Forever \in Lengths /\ 0 \in Lengths /\ 0..MaxBody \subseteq Nat
    BY ParserAssumption DEF Lengths
  <1>4. ASSUME NEW s \in Seq(ResponseTokens), NEW t \in Seq(ResponseTokens)
        PROVE  s \o t \in Seq(ResponseTokens)
    OBVIOUS
  <1>5. ASSUME NEW a \in FinalAnswers(m) PROVE a \in Seq(ResponseTokens)
    <2>1. CASE a \in {Head_(304, n) : n \in 0..MaxBody}
      <3>1. PICK n \in 0..MaxBody : a = Head_(304, n)
        BY <2>1, Zenon
      <3>2. n \in Lengths
        BY <1>3, Zenon
      <3> QED
        BY <1>1, <3>1, <3>2, Zenon
    <2>2. CASE a \in {Head_(200, n) : n \in Lengths}
      <3>1. PICK n \in Lengths : a = Head_(200, n)
        BY <2>2, Zenon
      <3> QED
        BY <1>1, <3>1
    <2>3. CASE a \in {Head_(200, n) \o Body(n) : n \in 0..MaxBody}
      <3>1. PICK n \in 0..MaxBody : a = Head_(200, n) \o Body(n)
        BY <2>3
      <3>2. Head_(200, n) \in Seq(ResponseTokens)
        <4>1. n \in Lengths
          BY <1>3, Zenon
        <4> QED
          BY <1>1, <4>1, Zenon
      <3>3. Body(n) \in Seq(ResponseTokens)
        BY <1>2, <1>3
      <3> QED
        BY <3>1, <3>2, <3>3, <1>4
    <2>4. CASE a \in {Head_(200, Forever) \o Body(n) : n \in 0..MaxBody}
      <3>1. PICK n \in 0..MaxBody : a = Head_(200, Forever) \o Body(n)
        BY <2>4
      <3>2. Head_(200, Forever) \in Seq(ResponseTokens)
        BY <1>1, <1>3
      <3>3. Body(n) \in Seq(ResponseTokens)
        BY <1>2, <1>3
      <3> QED
        BY <3>1, <3>2, <3>3, <1>4
    <2> QED
      BY <2>1, <2>2, <2>3, <2>4, Zenon DEF FinalAnswers
  <1>6. ASSUME NEW a \in Answers(m) PROVE a \in Seq(ResponseTokens)
    <2>1. CASE a \in FinalAnswers(m)
      BY <2>1, <1>5
    <2>2. CASE a \in {Head_(100, 0) \o f : f \in FinalAnswers(m)}
      <3>1. PICK f \in FinalAnswers(m) : a = Head_(100, 0) \o f
        BY <2>2
      <3> QED
        <4>1. Head_(100, 0) \in Seq(ResponseTokens) /\ f \in Seq(ResponseTokens)
          BY <1>1, <1>3, <1>5
        <4> QED
          BY <3>1, <4>1, <1>4
    <2> QED
      BY <2>1, <2>2, Zenon DEF Answers
  <1> QED
    BY <1>6

LEMMA ReplyTypes ==
    ASSUME NEW b, Len(b) \in Nat
    PROVE  Replies(b) \subseteq Seq(ResponseTokens)
  <1>1. PICK g : Serving(g, b, Len(b)) /\ Replies(b) = g[Len(b)]
    BY RepliesServing
  <1>2. g[0] = {<<>>} /\ \A i \in 1..Len(b) : g[i] = Served(g[i - 1], b, i)
    BY <1>1, ServingStates
  <1> DEFINE S == {i \in Nat : i <= Len(b) => g[i] \subseteq Seq(ResponseTokens)}
  <1>3. 0 \in S
    <2>1. <<>> \in Seq(ResponseTokens)
      OBVIOUS
    <2> QED
      BY <1>2, <2>1
  <1>4. ASSUME NEW i \in Nat, i \in S PROVE i + 1 \in S
    <2> SUFFICES ASSUME i + 1 <= Len(b) PROVE g[i + 1] \subseteq Seq(ResponseTokens)
      OBVIOUS
    <2>1. i + 1 \in 1..Len(b) /\ (i + 1) - 1 = i /\ i <= Len(b)
      OBVIOUS
    <2>2. g[i] \subseteq Seq(ResponseTokens)
      BY <1>4, <2>1
    <2>3. g[i + 1] = Served(g[i], b, i + 1)
      BY <1>2, <2>1
    <2>4. ASSUME NEW r \in g[i], NEW a \in Answers(b[(i + 1) - 1].method)
          PROVE  r \o a \in Seq(ResponseTokens)
      <3>1. r \in Seq(ResponseTokens) /\ a \in Seq(ResponseTokens)
        BY <2>2, AnswerTypes
      <3> QED
        BY <3>1
    <2>5. CASE Complete(b, i + 1)
      <3>1. g[i + 1] = {r \o a : r \in g[i], a \in Answers(b[(i + 1) - 1].method)}
        BY <2>3, <2>5 DEF Served
      <3>2. ASSUME NEW x \in g[i + 1] PROVE x \in Seq(ResponseTokens)
        <4> DEFINE A == Answers(b[(i + 1) - 1].method)
        <4>0. g[i + 1] = {r \o a : r \in g[i], a \in A}
          BY <3>1
        <4> HIDE DEF A
        <4>1. PICK r \in g[i], a \in A : x = r \o a
          BY <4>0
        <4> QED
          BY <2>4, <4>1 DEF A
      <3> QED
        BY <3>2
    <2>6. CASE ~Complete(b, i + 1)
      BY <2>2, <2>3, <2>6 DEF Served
    <2> QED
      BY <2>5, <2>6
  <1>5. Nat \subseteq S
    <2> HIDE DEF S
    <2> QED
      BY <1>3, <1>4, Induct
  <1>6. Len(b) \in S /\ Len(b) <= Len(b)
    BY <1>5
  <1> QED
    BY <1>1, <1>6

(* A buffer with one request is answered as that request. *)
LEMMA OneRequest ==
    ASSUME NEW b, Len(b) = 2, b[1].kind = "first", b[2].kind = "last"
    PROVE  Replies(b) = Answers(b[1].method)
  <1>0. Len(b) \in Nat
    OBVIOUS
  <1>1. PICK g : Serving(g, b, Len(b)) /\ Replies(b) = g[Len(b)]
    BY <1>0, RepliesServing
  <1>2. g[0] = {<<>>} /\ \A i \in 1..2 : g[i] = Served(g[i - 1], b, i)
    BY <1>1, ServingStates
  <1>3. 1 \in 1..2 /\ 2 \in 1..2 /\ 1 - 1 = 0 /\ 2 - 1 = 1 /\ ~(1 > 1) /\ 2 > 1
    OBVIOUS
  <1>4. g[1] = Served(g[0], b, 1) /\ g[2] = Served(g[1], b, 2)
    BY <1>2, <1>3
  <1>5. ~Complete(b, 1) /\ Complete(b, 2)
    BY <1>3 DEF Complete
  <1>6. g[1] = {<<>>}
    BY <1>2, <1>4, <1>5 DEF Served
  <1>7. g[2] = {r \o a : r \in {<<>>}, a \in Answers(b[1].method)}
    <2>1. g[2] = {r \o a : r \in g[1], a \in Answers(b[2 - 1].method)}
      BY <1>4, <1>5 DEF Served
    <2> QED
      BY <2>1, <1>3, <1>6
  <1>8. ASSUME NEW a \in Answers(b[1].method) PROVE <<>> \o a = a
    <2>1. a \in Seq(ResponseTokens)
      BY AnswerTypes
    <2> QED
      BY <2>1
  <1>9. g[2] = Answers(b[1].method)
    BY <1>7, <1>8
  <1> QED
    BY <1>1, <1>9

-----------------------------------------------------------------------------
(* Types.  The ends of message stay in the part of the block parsed so far. *)
Bounded(p) ==
    /\ p.first_eom = NULL <=> p.last_eom = NULL
    /\ p.last_eom # NULL => p.first_eom <= p.last_eom /\ p.last_eom <= p.at
Tokens(settings) == IF settings = "request" THEN RequestTokens ELSE ResponseTokens
Typed(p) == p \in Parsers /\ Bounded(p)

LEMMA CompleteTyped ==
    ASSUME NEW p \in Parsers, Bounded(p)
    PROVE  /\ message_complete_cb(p) \in Parsers /\ Bounded(message_complete_cb(p))
           /\ message_complete_cb(p).settings = p.settings /\ message_complete_cb(p).at = p.at
           /\ message_complete_cb(p).last_eom # NULL
  <1> DEFINE q == message_complete_cb(p)
             e == IF p.first_eom = NULL THEN p.at ELSE p.first_eom
  <1>1. q = [p EXCEPT !.first_eom = e, !.last_eom = p.at, !.last_method = p.method]
    BY DEF message_complete_cb
  <1>2. p.at \in Nat /\ p.at # NULL /\ p.first_eom \in Nat \union {NULL} /\ e \in Nat /\ e # NULL
    BY ParserAssumption DEF Parsers, Eoms
  <1>3. e <= p.at
    <2>1. CASE p.first_eom = NULL
      BY <1>2, <2>1
    <2>2. CASE p.first_eom # NULL
      <3>1. p.last_eom # NULL /\ p.last_eom \in Nat
        BY <2>2 DEF Bounded, Parsers, Eoms
      <3> QED
        BY <3>1, <2>2, <1>2 DEF Bounded
    <2> QED
      BY <2>1, <2>2
  <1> HIDE DEF e
  <1>4. q \in Parsers
    BY <1>1, <1>2 DEF Parsers, Eoms
  <1>5. q.first_eom = e /\ q.last_eom = p.at /\ q.at = p.at /\ q.settings = p.settings
    BY <1>1 DEF Parsers
  <1> HIDE DEF q
  <1>6. Bounded(q)
    BY <1>2, <1>3, <1>5 DEF Bounded
  <1> QED
    BY <1>2, <1>4, <1>5, <1>6 DEF q

LEMMA RequestTyped ==
    ASSUME NEW p \in Parsers, Bounded(p), NEW t \in RequestTokens
    PROVE  /\ llhttp_request(p, t) \in Parsers /\ Bounded(llhttp_request(p, t))
           /\ llhttp_request(p, t).settings = p.settings /\ llhttp_request(p, t).at = p.at
  <1>1. CASE t.kind = "first" /\ p.left = 0
    <2>1. llhttp_request(p, t) = [p EXCEPT !.left = 1, !.method = t.method]
      BY <1>1 DEF llhttp_request
    <2>2. t.method \in Methods
      BY DEF RequestTokens
    <2> DEFINE q == [p EXCEPT !.left = 1, !.method = t.method]
    <2>3. q \in Parsers
      BY <2>2 DEF Parsers
    <2>4. q.settings = p.settings /\ q.first_eom = p.first_eom /\ q.last_eom = p.last_eom
          /\ q.at = p.at
      BY DEF Parsers
    <2> HIDE DEF q
    <2>5. Bounded(q)
      BY <2>4 DEF Bounded
    <2> QED
      BY <2>1, <2>3, <2>4, <2>5 DEF q
  <1>2. CASE t.kind = "last" /\ p.left = 1
    <2> DEFINE u == Upgrades(t)
               q == [p EXCEPT !.left = 0, !.error = u]
    <2>0. u \in BOOLEAN
      BY DEF Upgrades
    <2>2. llhttp_request(p, t) = message_complete_cb(q)
      BY <1>2 DEF llhttp_request
    <2> HIDE DEF u
    <2>1. q \in Parsers /\ Bounded(q) /\ q.settings = p.settings /\ q.at = p.at
      BY <2>0 DEF Parsers, Bounded
    <2> HIDE DEF q
    <2> QED
      BY <2>1, <2>2, CompleteTyped
  <1>3. CASE ~(t.kind = "first" /\ p.left = 0) /\ ~(t.kind = "last" /\ p.left = 1)
    <2>1. llhttp_request(p, t) = [p EXCEPT !.error = TRUE]
      BY <1>3 DEF llhttp_request
    <2> QED
      BY <2>1 DEF Parsers, Bounded
  <1> QED
    BY <1>1, <1>2, <1>3

LEMMA ResponseTyped ==
    ASSUME NEW p \in Parsers, Bounded(p), NEW t \in ResponseTokens
    PROVE  /\ llhttp_response(p, t) \in Parsers /\ Bounded(llhttp_response(p, t))
           /\ llhttp_response(p, t).settings = p.settings /\ llhttp_response(p, t).at = p.at
  <1>1. CASE t.kind = "head" /\ p.left = 0
    <2>1. CASE t.status = 100 \/ t.len = 0 \/ headers_complete_cb(p, t)
      <3>1. llhttp_response(p, t) = message_complete_cb(p)
        BY <1>1, <2>1 DEF llhttp_response
      <3> QED
        BY <3>1, CompleteTyped
    <2>2. CASE ~(t.status = 100 \/ t.len = 0 \/ headers_complete_cb(p, t))
      <3>1. llhttp_response(p, t) = [p EXCEPT !.left = t.len]
        BY <1>1, <2>2 DEF llhttp_response
      <3>2. t.len \in Nat \union {Forever}
        BY <1>1 DEF ResponseTokens, Lengths
      <3> QED
        BY <3>1, <3>2 DEF Parsers, Bounded
    <2> QED
      BY <2>1, <2>2
  <1>2. CASE t.kind = "body" /\ p.left > 1
    <2>1. llhttp_response(p, t) = [p EXCEPT !.left = p.left - 1]
      BY <1>2 DEF llhttp_response
    <2>2. p.left - 1 \in Nat
      BY <1>2 DEF Parsers, Forever
    <2> QED
      BY <2>1, <2>2 DEF Parsers, Bounded
  <1>3. CASE t.kind = "body" /\ p.left = 1
    <2> DEFINE q == [p EXCEPT !.left = 0]
    <2>1. q \in Parsers /\ Bounded(q) /\ q.settings = p.settings /\ q.at = p.at
      BY DEF Parsers, Bounded
    <2>2. llhttp_response(p, t) = message_complete_cb(q)
      BY <1>3 DEF llhttp_response
    <2> HIDE DEF q
    <2> QED
      BY <2>1, <2>2, CompleteTyped
  <1>4. CASE /\ ~(t.kind = "head" /\ p.left = 0)
             /\ ~(t.kind = "body" /\ p.left > 1) /\ ~(t.kind = "body" /\ p.left = 1)
    <2>1. llhttp_response(p, t) = [p EXCEPT !.error = ~(t.kind = "body" /\ p.left = Forever)]
      BY <1>4 DEF llhttp_response
    <2> QED
      BY <2>1 DEF Parsers, Bounded
  <1> QED
    BY <1>1, <1>2, <1>3, <1>4

LEMMA StepTyped ==
    ASSUME NEW p, Typed(p), NEW t \in Tokens(p.settings)
    PROVE  /\ Typed(llhttp_step(p, t)) /\ llhttp_step(p, t).settings = p.settings
           /\ llhttp_step(p, t).at <= p.at + 1
  <1>1. CASE p.error
    <2>1. llhttp_step(p, t) = p /\ p.at \in Nat
      BY <1>1 DEF llhttp_step, Typed, Parsers
    <2> QED
      BY <2>1
  <1>2. CASE ~p.error
    <2> DEFINE q == [p EXCEPT !.at = p.at + 1]
    <2>0. p.at \in Nat /\ p.at + 1 \in Nat
      BY DEF Typed, Parsers
    <2>1. q \in Parsers /\ q.settings = p.settings /\ q.first_eom = p.first_eom
          /\ q.last_eom = p.last_eom /\ q.at = p.at + 1
      BY <2>0 DEF Typed, Parsers
    <2>2. p.last_eom \in Nat \union {NULL}
      BY DEF Typed, Parsers, Eoms
    <2>3. llhttp_step(p, t) = IF p.settings = "request" THEN llhttp_request(q, t)
                              ELSE llhttp_response(q, t)
      BY <1>2 DEF llhttp_step
    <2> HIDE DEF q
    <2>4. Bounded(q)
      BY <2>0, <2>1, <2>2 DEF Typed, Bounded
    <2>5. CASE p.settings = "request"
      BY <2>0, <2>1, <2>3, <2>4, <2>5, RequestTyped DEF Tokens, Typed
    <2>6. CASE p.settings # "request"
      BY <2>0, <2>1, <2>3, <2>4, <2>6, ResponseTyped DEF Tokens, Typed
    <2> QED
      BY <2>5, <2>6
  <1> QED
    BY <1>1, <1>2

LEMMA ParseTyped ==
    ASSUME NEW p \in Parsers, NEW d \in Seq(Tokens(p.settings))
    PROVE  /\ Typed(do_parse(p, d)) /\ do_parse(p, d).settings = p.settings
           /\ do_parse(p, d).at <= Len(d)
  <1> DEFINE q == [p EXCEPT !.at = 0, !.first_eom = NULL, !.last_eom = NULL]
  <1>1. Typed(q) /\ q.settings = p.settings /\ q.at = 0
    BY DEF Typed, Parsers, Bounded, Eoms
  <1>2. do_parse(p, d) = llhttp_execute(q, d)
    BY DEF do_parse
  <1> HIDE DEF q
  <1>3. Len(d) \in Nat /\ \A i \in 1..Len(d) : d[i] \in Tokens(p.settings)
    OBVIOUS
  <1>4. PICK g : Run(g, q, d, Len(d)) /\ llhttp_execute(q, d) = g[Len(d)]
    BY <1>3, ExecuteRuns
  <1>5. g[0] = q /\ \A i \in 1..Len(d) : g[i] = llhttp_step(g[i - 1], d[i])
    BY <1>3, <1>4, RunStates
  <1> DEFINE S == {i \in Nat : i <= Len(d) => Typed(g[i]) /\ g[i].settings = p.settings /\ g[i].at <= i}
  <1>6. 0 \in S
    BY <1>1, <1>5
  <1>7. ASSUME NEW i \in Nat, i \in S PROVE i + 1 \in S
    <2> SUFFICES ASSUME i + 1 <= Len(d)
                 PROVE  Typed(g[i + 1]) /\ g[i + 1].settings = p.settings /\ g[i + 1].at <= i + 1
      OBVIOUS
    <2>1. i + 1 \in 1..Len(d) /\ (i + 1) - 1 = i /\ i <= Len(d)
      BY <1>3
    <2>2. Typed(g[i]) /\ g[i].settings = p.settings /\ g[i].at <= i
      BY <1>7, <2>1
    <2>3. g[i + 1] = llhttp_step(g[i], d[i + 1]) /\ d[i + 1] \in Tokens(p.settings)
      BY <1>3, <1>5, <2>1
    <2>4. /\ Typed(g[i + 1]) /\ g[i + 1].settings = p.settings
          /\ g[i + 1].at <= g[i].at + 1
      BY <2>2, <2>3, StepTyped
    <2>5. g[i].at \in Nat /\ g[i + 1].at \in Nat
      BY <2>2, <2>4 DEF Typed, Parsers
    <2> QED
      BY <2>2, <2>4, <2>5
  <1>8. Nat \subseteq S
    <2> HIDE DEF S
    <2> QED
      BY <1>6, <1>7, Induct
  <1>9. Len(d) \in S /\ Len(d) <= Len(d)
    BY <1>3, <1>8
  <1> QED
    BY <1>2, <1>4, <1>9

-----------------------------------------------------------------------------
(* A block of a well-formed request stream.  The parser is in step with    *)
(* the tokens s it has not seen: it is inside a request exactly when the   *)
(* next token is a "last".                                                 *)
Expected(p) == IF p.left = 0 THEN "first" ELSE "last"
InStep(p, s) ==
    /\ p.left \in {0, 1}
    /\ Len(s) > 0 => s[1].kind = Expected(p)
    /\ \A i \in 1..(Len(s) - 1) : s[i].kind # s[i + 1].kind

(* Where the current request ends in s, and its method. *)
End(p) == 2 - p.left
Method(p, s) == IF p.left = 0 THEN s[1].method ELSE p.method

LEMMA RequestStep ==
    ASSUME NEW p, Typed(p), p.settings = "request", ~p.error, p.left \in {0, 1},
           NEW t \in RequestTokens, t.kind = Expected(p), ~Upgrades(t)
    PROVE  /\ ~llhttp_step(p, t).error /\ llhttp_step(p, t).at = p.at + 1
           /\ llhttp_step(p, t).left = 1 - p.left
           /\ p.left = 0 => /\ llhttp_step(p, t).method = t.method
                            /\ llhttp_step(p, t).first_eom = p.first_eom
                            /\ llhttp_step(p, t).last_method = p.last_method
           /\ p.left = 1 => /\ llhttp_step(p, t).last_method = p.method
                            /\ llhttp_step(p, t).first_eom =
                                 IF p.first_eom = NULL THEN p.at + 1 ELSE p.first_eom
  <1> DEFINE q == [p EXCEPT !.at = p.at + 1]
  <1>1. llhttp_step(p, t) = llhttp_request(q, t)
    BY DEF llhttp_step
  <1>2. p \in Parsers /\ p.at \in Nat
    BY DEF Typed, Parsers
  <1>3. /\ q \in Parsers /\ q.at = p.at + 1 /\ q.left = p.left /\ q.error = p.error
        /\ q.method = p.method /\ q.first_eom = p.first_eom /\ q.last_method = p.last_method
    BY <1>2 DEF Parsers
  <1> HIDE DEF q
  <1>4. CASE p.left = 0
    <2> DEFINE r == [q EXCEPT !.left = 1, !.method = t.method]
    <2>1. llhttp_request(q, t) = r
      BY <1>3, <1>4 DEF llhttp_request, Expected
    <2>2. /\ r.at = q.at /\ r.left = 1 /\ r.error = q.error /\ r.method = t.method
          /\ r.first_eom = q.first_eom /\ r.last_method = q.last_method
      BY <1>3 DEF Parsers
    <2> QED
      BY <1>1, <1>3, <1>4, <2>1, <2>2
  <1>5. CASE p.left = 1
    <2> DEFINE u == Upgrades(t)
               r == [q EXCEPT !.left = 0, !.error = u]
    <2>1. llhttp_request(q, t) = message_complete_cb(r)
      BY <1>3, <1>5 DEF llhttp_request, Expected
    <2>0. u = FALSE
      BY DEF Upgrades
    <2> HIDE DEF u
    <2>2. /\ r \in Parsers /\ r.at = q.at /\ r.left = 0 /\ ~r.error
          /\ r.method = q.method /\ r.first_eom = q.first_eom
      BY <1>3, <2>0 DEF Parsers
    <2> HIDE DEF r
    <2>3. /\ message_complete_cb(r).at = r.at /\ message_complete_cb(r).left = r.left
          /\ message_complete_cb(r).error = r.error
          /\ message_complete_cb(r).last_method = r.method
          /\ message_complete_cb(r).first_eom = IF r.first_eom = NULL THEN r.at ELSE r.first_eom
      BY <2>2 DEF Parsers, message_complete_cb
    <2> QED
      BY <1>1, <1>3, <1>5, <2>1, <2>2, <2>3
  <1> QED
    BY <1>4, <1>5

(* A request that leaves HTTP ends in an error. *)
LEMMA UpgradeStep ==
    ASSUME NEW p, Typed(p), p.settings = "request", ~p.error, p.left \in {0, 1},
           NEW t \in RequestTokens, t.kind = Expected(p), Upgrades(t)
    PROVE  llhttp_step(p, t).error
  <1> DEFINE q == [p EXCEPT !.at = p.at + 1]
  <1>1. llhttp_step(p, t) = llhttp_request(q, t)
    BY DEF llhttp_step
  <1>2. p \in Parsers /\ p.at \in Nat
    BY DEF Typed, Parsers
  <1>3. q \in Parsers /\ q.left = p.left
    BY <1>2 DEF Parsers
  <1> HIDE DEF q
  <1>4. t.kind = "last" /\ p.left = 1
    BY DEF Upgrades, Expected
  <1> DEFINE u == Upgrades(t)
             r == [q EXCEPT !.left = 0, !.error = u]
  <1>5. llhttp_request(q, t) = message_complete_cb(r)
    BY <1>3, <1>4 DEF llhttp_request
  <1>6. u = TRUE
    BY DEF Upgrades
  <1> HIDE DEF u
  <1>7. r \in Parsers /\ r.error
    BY <1>3, <1>6 DEF Parsers
  <1> HIDE DEF r
  <1>8. message_complete_cb(r).error = r.error
    BY <1>7 DEF Parsers, message_complete_cb
  <1> QED
    BY <1>1, <1>5, <1>7, <1>8

(* After i tokens of s, q is the parser that was p. *)
After(p, s, i, q) ==
    /\ Typed(q) /\ q.settings = "request" /\ ~q.error /\ q.left \in {0, 1} /\ q.at = i
    /\ i < Len(s) => s[i + 1].kind = Expected(q)
    /\ i < End(p) => /\ q.first_eom = NULL /\ q.left = p.left + i
                     /\ q.left = 1 => q.method = Method(p, s)
    /\ i >= End(p) => q.first_eom = End(p)
    /\ i = End(p) => q.left = 0 /\ q.last_method = Method(p, s)

LEMMA AfterNext ==
    ASSUME NEW p \in Parsers, NEW s \in Seq(RequestTokens), InStep(p, s),
           NEW i \in Nat, i < Len(s), NEW q, After(p, s, i, q), ~Upgrades(s[i + 1])
    PROVE  After(p, s, i + 1, llhttp_step(q, s[i + 1]))
  <1> DEFINE t == s[i + 1]
             r == llhttp_step(q, t)
  <1>0. Len(s) \in Nat /\ i + 1 \in 1..Len(s)
    OBVIOUS
  <1>1. /\ t \in RequestTokens /\ t.kind = Expected(q)
        /\ Typed(q) /\ q.settings = "request" /\ ~q.error /\ q.left \in {0, 1} /\ q.at = i
        /\ ~Upgrades(t)
    BY <1>0 DEF After
  <1>2. t \in Tokens(q.settings)
    BY <1>1 DEF Tokens
  <1>3. i + 1 < Len(s) => s[(i + 1) + 1] \in RequestTokens /\ s[(i + 1) + 1].kind # t.kind
    <2> SUFFICES ASSUME i + 1 < Len(s)
                 PROVE  s[(i + 1) + 1] \in RequestTokens /\ s[(i + 1) + 1].kind # t.kind
      OBVIOUS
    <2>1. i + 1 \in 1..(Len(s) - 1) /\ (i + 1) + 1 \in 1..Len(s)
      BY <1>0
    <2> QED
      BY <2>1 DEF InStep
  <1> HIDE DEF t
  <1>4. Typed(r) /\ r.settings = "request"
    BY <1>1, <1>2, StepTyped
  <1>5. /\ ~r.error /\ r.at = i + 1 /\ r.left = 1 - q.left
        /\ q.left = 0 => r.method = t.method /\ r.first_eom = q.first_eom
        /\ q.left = 1 => /\ r.last_method = q.method
                         /\ r.first_eom = IF q.first_eom = NULL THEN i + 1 ELSE q.first_eom
    BY <1>1, RequestStep
  <1> HIDE DEF r
  <1>6. i + 1 < Len(s) => s[(i + 1) + 1].kind = Expected(r)
    <2>1. \A u \in RequestTokens : u.kind \in {"first", "last"}
      BY DEF RequestTokens
    <2> QED
      BY <1>1, <1>3, <1>5, <2>1 DEF Expected
  <1>7. p.left \in {0, 1} /\ End(p) = 2 - p.left /\ End(p) \in Nat /\ End(p) # NULL
    BY ParserAssumption DEF InStep, End
  <1>8. /\ i < End(p) => /\ q.first_eom = NULL /\ q.left = p.left + i
                         /\ q.left = 1 => q.method = Method(p, s)
        /\ i >= End(p) => q.first_eom = End(p)
    BY DEF After
  <1>9. CASE q.left = 0
    <2>1. CASE i < End(p)
      <3>1. i = 0 /\ p.left = 0 /\ End(p) = 2
        BY <1>7, <1>8, <1>9, <2>1
      <3>2. t.method = Method(p, s)
        BY <3>1 DEF Method, t
      <3> QED
        BY <1>4, <1>5, <1>6, <1>8, <1>9, <3>1, <3>2 DEF After, r, t
    <2>2. CASE ~(i < End(p))
      <3>1. i >= End(p) /\ i + 1 >= End(p) /\ i + 1 # End(p) /\ ~(i + 1 < End(p))
        BY <1>7, <2>2
      <3> QED
        BY <1>4, <1>5, <1>6, <1>8, <1>9, <3>1 DEF After, r, t
    <2> QED
      BY <2>1, <2>2
  <1>10. CASE q.left = 1
    <2>1. CASE i < End(p)
      <3>1. i + 1 = End(p) /\ ~(i + 1 < End(p)) /\ i + 1 >= End(p)
        BY <1>7, <1>8, <1>10, <2>1
      <3> QED
        BY <1>4, <1>5, <1>6, <1>8, <1>10, <2>1, <3>1 DEF After, r, t
    <2>2. CASE ~(i < End(p))
      <3>1. i >= End(p) /\ i + 1 >= End(p) /\ i + 1 # End(p) /\ ~(i + 1 < End(p))
        BY <1>7, <2>2
      <3> QED
        BY <1>4, <1>5, <1>6, <1>7, <1>8, <1>10, <3>1 DEF After, r, t
    <2> QED
      BY <2>1, <2>2
  <1> QED
    BY <1>1, <1>9, <1>10

LEMMA FirstRest ==
    ASSUME NEW T, NEW s \in Seq(T), NEW k \in 0..Len(s)
    PROVE  /\ First(s, k) \in Seq(T) /\ Len(First(s, k)) = k
           /\ Rest(s, k) \in Seq(T) /\ Len(Rest(s, k)) = Len(s) - k
           /\ \A i \in 1..k : First(s, k)[i] = s[i]
           /\ \A i \in 1..(Len(s) - k) : Rest(s, k)[i] = s[k + i]
  BY DEF First, Rest

(* do_parse finds the end of the first request and stays in step, unless   *)
(* one of the requests leaves HTTP.                                        *)
Upgraded(s, i, q) == q.error /\ \E j \in 1..i : Upgrades(s[j])

LEMMA UpgradedNext ==
    ASSUME NEW s \in Seq(RequestTokens), NEW i \in Nat, i < Len(s), NEW p, NEW q,
           Upgraded(s, i, q) \/ (After(p, s, i, q) /\ Upgrades(s[i + 1]))
    PROVE  Upgraded(s, i + 1, llhttp_step(q, s[i + 1]))
  <1>1. CASE Upgraded(s, i, q)
    <2>1. llhttp_step(q, s[i + 1]) = q
      BY <1>1 DEF Upgraded, llhttp_step
    <2>2. 1..i \subseteq 1..(i + 1)
      OBVIOUS
    <2> QED
      BY <1>1, <2>1, <2>2, Zenon DEF Upgraded
  <1>2. CASE After(p, s, i, q) /\ Upgrades(s[i + 1])
    <2>0. Len(s) \in Nat /\ i + 1 \in 1..Len(s) /\ i + 1 \in 1..(i + 1)
      OBVIOUS
    <2>1. /\ s[i + 1] \in RequestTokens /\ s[i + 1].kind = Expected(q)
          /\ Typed(q) /\ q.settings = "request" /\ ~q.error /\ q.left \in {0, 1}
      BY <1>2, <2>0 DEF After
    <2>2. llhttp_step(q, s[i + 1]).error
      BY <1>2, <2>1, UpgradeStep
    <2> QED
      BY <1>2, <2>0, <2>2, Zenon DEF Upgraded
  <1> QED
    BY <1>1, <1>2

LEMMA RequestParse ==
    ASSUME NEW p \in Parsers, p.settings = "request", ~p.error,
           NEW s \in Seq(RequestTokens), InStep(p, s), NEW k \in 1..Len(s)
    PROVE  \/ Upgraded(s, k, do_parse(p, First(s, k)))
           \/ /\ After(p, s, k, do_parse(p, First(s, k)))
              /\ InStep(do_parse(p, First(s, k)), Rest(s, k))
  <1> DEFINE q == [p EXCEPT !.at = 0, !.first_eom = NULL, !.last_eom = NULL]
             d == First(s, k)
  <1>0. Len(s) \in Nat /\ k \in 0..Len(s) /\ k \in Nat /\ 0 <= k /\ p.left \in {0, 1}
    BY DEF InStep
  <1>1. /\ Typed(q) /\ q.settings = "request" /\ q.error = p.error /\ q.left = p.left
        /\ q.at = 0 /\ q.first_eom = NULL /\ q.method = p.method
    BY DEF Typed, Parsers, Bounded, Eoms
  <1>2. do_parse(p, d) = llhttp_execute(q, d)
    BY DEF do_parse
  <1>3. Len(d) = k /\ \A i \in 1..k : d[i] = s[i]
    BY <1>0, FirstRest
  <1> HIDE DEF q, d
  <1>4. PICK g : Run(g, q, d, k) /\ llhttp_execute(q, d) = g[k]
    BY <1>0, <1>3, ExecuteRuns
  <1>5. g[0] = q /\ \A i \in 1..k : g[i] = llhttp_step(g[i - 1], d[i])
    BY <1>0, <1>4, RunStates
  <1> DEFINE S == {i \in Nat : i <= k => Upgraded(s, i, g[i]) \/ After(p, s, i, g[i])}
  <1>6. 0 \in S
    <2>1. End(p) \in {1, 2} /\ 0 < End(p) /\ ~(0 >= End(p)) /\ 0 # End(p)
      BY <1>0 DEF End
    <2>2. 0 < Len(s) => s[0 + 1].kind = Expected(q)
      BY <1>1 DEF InStep, Expected
    <2>3. q.left = p.left + 0 /\ (q.left = 1 => q.method = Method(p, s))
      BY <1>0, <1>1 DEF Method
    <2>4. After(p, s, 0, q)
      BY <1>0, <1>1, <2>1, <2>2, <2>3 DEF After
    <2> QED
      BY <1>5, <2>4
  <1>7. ASSUME NEW i \in Nat, i \in S PROVE i + 1 \in S
    <2> SUFFICES ASSUME i + 1 <= k PROVE Upgraded(s, i + 1, g[i + 1]) \/ After(p, s, i + 1, g[i + 1])
      OBVIOUS
    <2>1. i + 1 \in 1..k /\ (i + 1) - 1 = i /\ i <= k /\ i < Len(s)
      BY <1>0
    <2>2. Upgraded(s, i, g[i]) \/ After(p, s, i, g[i])
      BY <1>7, <2>1
    <2>3. g[i + 1] = llhttp_step(g[i], s[i + 1])
      BY <1>3, <1>5, <2>1
    <2>4. CASE Upgraded(s, i, g[i]) \/ (After(p, s, i, g[i]) /\ Upgrades(s[i + 1]))
      BY <2>1, <2>3, <2>4, UpgradedNext, Zenon
    <2>5. CASE After(p, s, i, g[i]) /\ ~Upgrades(s[i + 1])
      BY <2>1, <2>3, <2>5, AfterNext, Zenon
    <2> QED
      BY <2>2, <2>4, <2>5
  <1>8. Nat \subseteq S
    <2> HIDE DEF S
    <2> QED
      BY <1>6, <1>7, Induct
  <1>9. k \in S /\ k <= k
    BY <1>0, <1>8
  <1> DEFINE r == do_parse(p, d)
             u == Rest(s, k)
  <1>10. Upgraded(s, k, r) \/ After(p, s, k, r)
    BY <1>2, <1>4, <1>9
  <1>11. Len(u) = Len(s) - k /\ \A i \in 1..(Len(s) - k) : u[i] = s[k + i]
    BY <1>0, FirstRest
  <1> HIDE DEF r, u
  <1>12. ASSUME After(p, s, k, r) PROVE InStep(r, u)
    <2>1. r.left \in {0, 1}
      BY <1>12 DEF After
    <2>2. Len(u) > 0 => u[1].kind = Expected(r)
      <3> SUFFICES ASSUME Len(u) > 0 PROVE u[1].kind = Expected(r)
        OBVIOUS
      <3>1. 1 \in 1..(Len(s) - k) /\ k < Len(s)
        BY <1>0, <1>11
      <3> QED
        BY <1>11, <1>12, <3>1 DEF After
    <2>3. ASSUME NEW i \in 1..(Len(u) - 1) PROVE u[i].kind # u[i + 1].kind
      <3>1. /\ i \in 1..(Len(s) - k) /\ i + 1 \in 1..(Len(s) - k)
            /\ k + i \in 1..(Len(s) - 1) /\ k + (i + 1) = (k + i) + 1
        BY <1>0, <1>11
      <3>2. u[i] = s[k + i] /\ u[i + 1] = s[(k + i) + 1]
        <4>1. u[i] = s[k + i] /\ u[i + 1] = s[k + (i + 1)]
          BY <1>11, <3>1, Zenon
        <4> QED
          BY <3>1, <4>1, Zenon
      <3> QED
        BY <3>1, <3>2 DEF InStep
    <2> QED
      BY <2>1, <2>2, <2>3 DEF InStep
  <1> QED
    BY <1>10, <1>12 DEF r, u, d

-----------------------------------------------------------------------------
(* A block of a well-formed response.  Final is the shape of the final     *)
(* answers to method m.                                                    *)
Bodyless(m, t) == t.status = 304 \/ m = HTTP_HEAD \/ t.len = 0
Bodies(r, i) == \A j \in (i + 1)..Len(r) : r[j].kind = "body"
Final(m, r) ==
    /\ Len(r) >= 1 /\ r[1].kind = "head" /\ r[1].status # 100 /\ Bodies(r, 1)
    /\ Bodyless(m, r[1]) => Len(r) = 1
    /\ ~Bodyless(m, r[1]) /\ r[1].len # Forever => Len(r) = 1 + r[1].len

LEMMA Prepended ==
    ASSUME NEW T, NEW h \in Seq(T), Len(h) = 1, NEW s \in Seq(T)
    PROVE  /\ h \o s \in Seq(T) /\ Len(h \o s) = 1 + Len(s) /\ 1 \in 1..Len(h \o s)
           /\ (h \o s)[1] = h[1]
           /\ \A i \in 1..Len(s) : (h \o s)[1 + i] = s[i]
  <1>1. Len(s) \in Nat /\ h \o s \in Seq(T) /\ Len(h \o s) = 1 + Len(s)
    <2>1. h \o s \in Seq(T) /\ Len(h \o s) = Len(h) + Len(s)
      BY ConcatProperties, Zenon
    <2>2. Len(s) \in Nat
      BY LenProperties, Zenon
    <2> QED
      BY <2>1, <2>2
  <1>2. \A i \in 1..(Len(h) + Len(s)) : (h \o s)[i] = IF i <= Len(h) THEN h[i] ELSE s[i - Len(h)]
    BY ConcatProperties, Zenon
  <1>3. 1 \in 1..(1 + Len(s)) /\ 1 <= 1
    BY <1>1
  <1>4. ASSUME NEW i \in 1..Len(s) PROVE (h \o s)[1 + i] = s[i]
    <2>1. 1 + i \in 1..(1 + Len(s)) /\ ~(1 + i <= 1) /\ (1 + i) - 1 = i
      BY <1>1
    <2> QED
      BY <1>2, <2>1
  <1> QED
    BY <1>1, <1>2, <1>3, <1>4

Shape(r, t, n) == Len(r) = 1 + n /\ r[1] = t /\ Bodies(r, 1)

LEMMA HeadBody ==
    ASSUME NEW status, NEW len, NEW n \in Nat
    PROVE  Shape(Head_(status, len) \o Body(n), [kind |-> "head", status |-> status, len |-> len], n)
  <1> DEFINE h == Head_(status, len)
             b == Body(n)
             r == h \o b
             T == {h[1]} \union {[kind |-> "body"]}
  <1>1. h = <<[kind |-> "head", status |-> status, len |-> len]>>
    BY DEF Head_
  <1>2. Len(b) = n /\ \A i \in 1..n : b[i] = [kind |-> "body"]
    BY DEF Body
  <1>3. h \in Seq(T) /\ Len(h) = 1 /\ h[1] = [kind |-> "head", status |-> status, len |-> len]
    BY <1>1
  <1>4. b \in Seq(T)
    BY DEF Body
  <1> HIDE DEF h, b, T
  <1>5. /\ Len(r) = 1 + n /\ r[1] = h[1]
        /\ \A i \in 1..n : r[1 + i] = b[i]
    BY <1>2, <1>3, <1>4, Prepended
  <1> HIDE DEF r
  <1>6. ASSUME NEW j \in (1 + 1)..Len(r) PROVE r[j].kind = "body"
    <2>1. j - 1 \in 1..n /\ 1 + (j - 1) = j
      BY <1>5
    <2>2. r[j] = [kind |-> "body"]
      BY <1>2, <1>5, <2>1
    <2> QED
      BY <2>2
  <1> QED
    BY <1>3, <1>5, <1>6 DEF Shape, Bodies, r, h, b

LEMMA FinalShape ==
    ASSUME NEW m, NEW r \in FinalAnswers(m)
    PROVE  Final(m, r)
  <1>1. 0..MaxBody \subseteq Nat /\ Forever \notin 0..MaxBody
    BY ParserAssumption DEF Forever
  <1>2. ASSUME NEW status \in {200, 304}, NEW len, Bodyless(m, [kind |-> "head", status |-> status, len |-> len])
        PROVE  Final(m, Head_(status, len))
    <2> DEFINE t == [kind |-> "head", status |-> status, len |-> len]
               h == Head_(status, len)
    <2>1. t.kind = "head" /\ t.status # 100
      OBVIOUS
    <2>2. Len(h) = 1 /\ h[1] = t /\ \A j \in (1 + 1)..Len(h) : h[j].kind = "body"
      BY DEF Head_
    <2> HIDE DEF t, h
    <2>3. Bodyless(m, t)
      BY <1>2 DEF t
    <2> QED
      BY <2>1, <2>2, <2>3 DEF Final, Bodies, h
  <1>3. CASE r \in {Head_(304, n) : n \in 0..MaxBody}
    <2>1. PICK n \in 0..MaxBody : r = Head_(304, n)
      BY <1>3
    <2>2. Bodyless(m, [kind |-> "head", status |-> 304, len |-> n])
      BY DEF Bodyless
    <2> QED
      BY <1>2, <2>1, <2>2
  <1>4. CASE m = HTTP_HEAD /\ r \in {Head_(200, n) : n \in Lengths}
    <2>1. PICK n \in Lengths : r = Head_(200, n)
      BY <1>4
    <2>2. Bodyless(m, [kind |-> "head", status |-> 200, len |-> n])
      BY <1>4 DEF Bodyless
    <2> QED
      BY <1>2, <2>1, <2>2
  <1>5. CASE m # HTTP_HEAD /\ r \in {Head_(200, n) \o Body(n) : n \in 0..MaxBody}
    <2>1. PICK n \in 0..MaxBody : r = Head_(200, n) \o Body(n)
      BY <1>5
    <2> DEFINE t == [kind |-> "head", status |-> 200, len |-> n]
    <2>2. t.kind = "head" /\ t.status = 200 /\ t.len = n /\ n \in Nat
      BY <1>1
    <2>3. Len(r) = 1 + n /\ r[1] = t /\ Bodies(r, 1)
      <3>1. Shape(Head_(200, n) \o Body(n), t, n)
        BY <2>2, HeadBody
      <3> QED
        BY <2>1, <3>1 DEF Shape
    <2> HIDE DEF t
    <2> QED
      BY <1>5, <2>2, <2>3 DEF Final, Bodyless
  <1>6. CASE m # HTTP_HEAD /\ r \in {Head_(200, Forever) \o Body(n) : n \in 0..MaxBody}
    <2>1. PICK n \in 0..MaxBody : r = Head_(200, Forever) \o Body(n)
      BY <1>6
    <2> DEFINE t == [kind |-> "head", status |-> 200, len |-> Forever]
    <2>2. t.kind = "head" /\ t.status = 200 /\ t.len = Forever /\ n \in Nat /\ Forever # 0
      BY <1>1 DEF Forever
    <2>3. Len(r) = 1 + n /\ r[1] = t /\ Bodies(r, 1)
      <3>1. Shape(Head_(200, Forever) \o Body(n), t, n)
        BY <2>2, HeadBody
      <3> QED
        BY <2>1, <3>1 DEF Shape
    <2> HIDE DEF t
    <2> QED
      BY <1>6, <2>2, <2>3 DEF Final, Bodyless
  <1> QED
    BY <1>3, <1>4, <1>5, <1>6, Zenon DEF FinalAnswers

(* An answer without an interim response is a final one. *)
LEMMA NotInterim ==
    ASSUME NEW m, NEW r \in Answers(m), ~Interim(r)
    PROVE  Final(m, r)
  <1>1. CASE r \in FinalAnswers(m)
    BY <1>1, FinalShape
  <1>2. CASE r \in {Head_(100, 0) \o a : a \in FinalAnswers(m)}
    <2>1. PICK a \in FinalAnswers(m) : r = Head_(100, 0) \o a
      BY <1>2
    <2>2. a \in Seq(ResponseTokens)
      BY AnswerTypes DEF Answers
    <2> DEFINE h == Head_(100, 0)
    <2>3. h = <<[kind |-> "head", status |-> 100, len |-> 0]>>
      BY DEF Head_
    <2> DEFINE t == [kind |-> "head", status |-> 100, len |-> 0]
    <2>7. t \in ResponseTokens /\ t.kind = "head" /\ t.status = 100
      BY ParserAssumption DEF ResponseTokens, Lengths
    <2>8. h = <<t>>
      BY <2>3
    <2> HIDE DEF h, t
    <2>4. h \in Seq(ResponseTokens) /\ Len(h) = 1 /\ h[1].kind = "head" /\ h[1].status = 100
      BY <2>7, <2>8
    <2>5. 1 \in 1..Len(h \o a) /\ (h \o a)[1] = h[1]
      BY <2>2, <2>4, Prepended
    <2>6. Interim(r)
      BY <2>1, <2>4, <2>5 DEF Interim, h
    <2> QED
      BY <2>6
  <1> QED
    BY <1>1, <1>2 DEF Answers

(* The parser expects exactly what is left of the response r after i tokens. *)
Awaiting(p, r, i) ==
    \/ p.left = 0 /\ i = 0 /\ Final(p.last_method, r)
    \/ p.left \in Nat \ {0} /\ Len(r) = i + p.left /\ Bodies(r, i)
    \/ p.left = Forever /\ Bodies(r, i)

(* Either that, or it has found the end where it is. *)
Located(p, r, i) ==
    /\ Typed(p) /\ p.settings = "response" /\ ~p.error
    /\ p.last_eom # NULL => i = Len(r)
    /\ p.last_eom = NULL => Awaiting(p, r, i)

LEMMA CompleteKeepsError ==
    ASSUME NEW p \in Parsers PROVE message_complete_cb(p).error = p.error
  BY DEF message_complete_cb, Parsers

(* The one place where HEAD matters: headers_complete_cb and the server    *)
(* agree on which final responses have no body.                            *)
LEMMA ResponseStep ==
    ASSUME NEW p, NEW r \in Seq(ResponseTokens), NEW i \in Nat, i < Len(r),
           Located(p, r, i)
    PROVE  Located(llhttp_step(p, r[i + 1]), r, i + 1)
  <1> DEFINE t == r[i + 1]
             q == [p EXCEPT !.at = p.at + 1]
             u == llhttp_step(p, t)
  <1>1. /\ Len(r) \in Nat /\ i + 1 \in 1..Len(r) /\ i + 1 \in (i + 1)..Len(r)
        /\ i # Len(r) /\ t \in ResponseTokens
    OBVIOUS
  <1>2. Typed(p) /\ p.settings = "response" /\ ~p.error /\ p.last_eom = NULL /\ Awaiting(p, r, i)
    BY <1>1 DEF Located
  <1>3. t \in Tokens(p.settings)
    BY <1>1, <1>2 DEF Tokens
  <1>4. u = llhttp_response(q, t)
    BY <1>2 DEF llhttp_step
  <1>5. p.at \in Nat /\ p \in Parsers /\ p.left \in Nat \union {Forever} /\ Bounded(p)
    BY <1>2 DEF Typed, Parsers
  <1>6. /\ q \in Parsers /\ q.left = p.left /\ q.error = p.error /\ q.last_eom = NULL
        /\ q.last_method = p.last_method /\ q.first_eom = p.first_eom
    BY <1>2, <1>5 DEF Parsers
  <1> HIDE DEF t, q
  <1>7. Typed(u) /\ u.settings = "response"
    BY <1>2, <1>3, StepTyped
  <1> HIDE DEF u
  <1>8. Bounded(q)
    BY <1>2, <1>5, <1>6 DEF Bounded
  <1>9. CASE p.left = 0 /\ i = 0 /\ Final(p.last_method, r)
    <2>1. t = r[1] /\ t.kind = "head" /\ t.status # 100 /\ Bodies(r, 1) /\ i + 1 = 1
      BY <1>9 DEF Final, t
    <2>2. CASE Bodyless(p.last_method, t)
      <3>1. u = message_complete_cb(q)
        BY <1>4, <1>6, <1>9, <2>1, <2>2 DEF llhttp_response, headers_complete_cb, Bodyless
      <3>2. u.last_eom # NULL /\ ~u.error
        BY <1>2, <1>6, <1>8, <3>1, CompleteTyped, CompleteKeepsError
      <3>3. i + 1 = Len(r)
        BY <1>9, <2>1, <2>2 DEF Final
      <3> QED
        BY <1>7, <3>2, <3>3 DEF Located, u, t
    <2>3. CASE ~Bodyless(p.last_method, t)
      <3>1. u = [q EXCEPT !.left = t.len]
        BY <1>4, <1>6, <1>9, <2>1, <2>3 DEF llhttp_response, headers_complete_cb, Bodyless
      <3>2. u.last_eom = NULL /\ ~u.error /\ u.left = t.len
        BY <1>2, <1>6, <3>1 DEF Parsers
      <3>3. t.len # 0 /\ t.len \in Nat \union {Forever}
        BY <1>1, <2>1, <2>3 DEF Bodyless, ResponseTokens, Lengths
      <3>4. t.len # Forever => Len(r) = 1 + t.len
        BY <1>9, <2>1, <2>3 DEF Final
      <3>5. Awaiting(u, r, i + 1)
        BY <2>1, <3>2, <3>3, <3>4 DEF Awaiting
      <3> QED
        BY <1>7, <3>2, <3>5 DEF Located, u, t
    <2> QED
      BY <2>2, <2>3
  <1>10. ASSUME Bodies(r, i) PROVE t.kind = "body" /\ Bodies(r, i + 1)
    <2>1. \A j \in ((i + 1) + 1)..Len(r) : j \in (i + 1)..Len(r)
      BY <1>1
    <2> QED
      BY <1>1, <1>10, <2>1 DEF Bodies, t
  <1>11. CASE p.left \in Nat \ {0} /\ Len(r) = i + p.left /\ Bodies(r, i)
    <2>1. t.kind = "body" /\ Bodies(r, i + 1)
      BY <1>10, <1>11
    <2>2. CASE p.left = 1
      <3> DEFINE v == [q EXCEPT !.left = 0]
      <3>1. v \in Parsers /\ v.error = q.error /\ v.first_eom = q.first_eom
            /\ v.last_eom = q.last_eom /\ v.at = q.at
        BY <1>6 DEF Parsers
      <3>2. u = message_complete_cb(v)
        BY <1>4, <1>6, <2>1, <2>2 DEF llhttp_response
      <3> HIDE DEF v
      <3>3. Bounded(v)
        BY <1>8, <3>1 DEF Bounded
      <3>4. u.last_eom # NULL /\ ~u.error
        BY <1>2, <1>6, <3>1, <3>2, <3>3, CompleteTyped, CompleteKeepsError
      <3>5. i + 1 = Len(r)
        BY <1>11, <2>2
      <3> QED
        BY <1>7, <3>4, <3>5 DEF Located, u, t
    <2>3. CASE p.left # 1
      <3>1. p.left > 1 /\ p.left - 1 \in Nat \ {0} /\ Len(r) = (i + 1) + (p.left - 1)
        BY <1>1, <1>11, <2>3
      <3>2. u = [q EXCEPT !.left = p.left - 1]
        BY <1>4, <1>6, <2>1, <3>1 DEF llhttp_response
      <3>3. u.last_eom = NULL /\ ~u.error /\ u.left = p.left - 1
        BY <1>2, <1>6, <3>2 DEF Parsers
      <3>4. Awaiting(u, r, i + 1)
        BY <2>1, <3>1, <3>3 DEF Awaiting
      <3> QED
        BY <1>7, <3>3, <3>4 DEF Located, u, t
    <2> QED
      BY <2>2, <2>3
  <1>12. CASE p.left = Forever /\ Bodies(r, i)
    <2>1. t.kind = "body" /\ Bodies(r, i + 1)
      BY <1>10, <1>12
    <2>2. ~(p.left > 1) /\ p.left # 1
      BY <1>12 DEF Forever
    <2>3. u = [q EXCEPT !.error = FALSE]
      BY <1>4, <1>6, <1>12, <2>1, <2>2 DEF llhttp_response
    <2>4. u.last_eom = NULL /\ ~u.error /\ u.left = Forever
      BY <1>6, <1>12, <2>3 DEF Parsers
    <2>5. Awaiting(u, r, i + 1)
      BY <2>1, <2>4 DEF Awaiting
    <2> QED
      BY <1>7, <2>4, <2>5 DEF Located, u, t
  <1> QED
    BY <1>2, <1>9, <1>11, <1>12 DEF Awaiting

(* do_parse finds the end of the response exactly at its end. *)
LEMMA ResponseParse ==
    ASSUME NEW p \in Parsers, p.settings = "response", ~p.error,
           NEW r \in Seq(ResponseTokens), Awaiting(p, r, 0), NEW k \in 0..Len(r)
    PROVE  Located(do_parse(p, First(r, k)), r, k)
  <1> DEFINE q == [p EXCEPT !.at = 0, !.first_eom = NULL, !.last_eom = NULL]
             d == First(r, k)
  <1>0. Len(r) \in Nat /\ k \in Nat /\ k <= Len(r)
    OBVIOUS
  <1>1. /\ Typed(q) /\ q.settings = "response" /\ q.error = p.error /\ q.left = p.left
        /\ q.last_eom = NULL /\ q.last_method = p.last_method
    BY DEF Typed, Parsers, Bounded, Eoms
  <1>2. do_parse(p, d) = llhttp_execute(q, d)
    BY DEF do_parse
  <1>3. Len(d) = k /\ \A i \in 1..k : d[i] = r[i]
    BY FirstRest
  <1> HIDE DEF q, d
  <1>4. PICK g : Run(g, q, d, k) /\ llhttp_execute(q, d) = g[k]
    BY <1>0, <1>3, ExecuteRuns
  <1>5. g[0] = q /\ \A i \in 1..k : g[i] = llhttp_step(g[i - 1], d[i])
    BY <1>0, <1>4, RunStates
  <1> DEFINE S == {i \in Nat : i <= k => Located(g[i], r, i)}
  <1>6. 0 \in S
    <2>1. Awaiting(q, r, 0)
      BY <1>1 DEF Awaiting
    <2>2. Located(q, r, 0)
      BY <1>1, <2>1 DEF Located
    <2> QED
      BY <1>5, <2>2
  <1>7. ASSUME NEW i \in Nat, i \in S PROVE i + 1 \in S
    <2> SUFFICES ASSUME i + 1 <= k PROVE Located(g[i + 1], r, i + 1)
      OBVIOUS
    <2>1. i + 1 \in 1..k /\ (i + 1) - 1 = i /\ i <= k /\ i < Len(r)
      BY <1>0
    <2>2. Located(g[i], r, i)
      BY <1>7, <2>1
    <2>3. g[i + 1] = llhttp_step(g[i], r[i + 1])
      BY <1>3, <1>5, <2>1
    <2> QED
      BY <2>1, <2>2, <2>3, ResponseStep
  <1>8. Nat \subseteq S
    <2> HIDE DEF S
    <2> QED
      BY <1>6, <1>7, Induct
  <1>9. k \in S /\ k <= k
    BY <1>0, <1>8
  <1> QED
    BY <1>2, <1>4, <1>9 DEF d

(* What is left of a response is itself such a rest. *)
LEMMA AwaitingRest ==
    ASSUME NEW p, NEW r \in Seq(ResponseTokens), NEW k \in 0..Len(r), Awaiting(p, r, k)
    PROVE  Awaiting(p, Rest(r, k), 0)
  <1> DEFINE u == Rest(r, k)
  <1>0. Len(r) \in Nat /\ k \in Nat
    OBVIOUS
  <1>1. Len(u) = Len(r) - k /\ \A i \in 1..(Len(r) - k) : u[i] = r[k + i]
    BY FirstRest, Zenon
  <1>2. CASE p.left = 0 /\ k = 0 /\ Final(p.last_method, r)
    <2>1. u = r
      BY <1>2 DEF Rest
    <2> QED
      BY <1>2, <2>1 DEF Awaiting
  <1> HIDE DEF u
  <1>3. ASSUME Bodies(r, k) PROVE Bodies(u, 0)
    <2> SUFFICES ASSUME NEW j \in (0 + 1)..Len(u) PROVE u[j].kind = "body"
      BY DEF Bodies
    <2>1. j \in 1..(Len(r) - k) /\ k + j \in (k + 1)..Len(r)
      BY <1>0, <1>1
    <2> QED
      BY <1>1, <1>3, <2>1 DEF Bodies
  <1>4. CASE p.left \in Nat \ {0} /\ Len(r) = k + p.left /\ Bodies(r, k)
    <2>1. Len(u) = 0 + p.left
      BY <1>0, <1>1, <1>4
    <2> QED
      BY <1>3, <1>4, <2>1 DEF Awaiting, u
  <1>5. CASE p.left = Forever /\ Bodies(r, k)
    BY <1>3, <1>5 DEF Awaiting, u
  <1> QED
    BY <1>2, <1>4, <1>5 DEF Awaiting

-----------------------------------------------------------------------------
(* The inductive invariant.  As long as none of the gaps has occurred, the *)
(* parser is in step with what it is read next: between the messages the   *)
(* buffers hold no rest, and last_method is that of the request the server *)
(* is answering.                                                           *)
Collecting ==
    /\ InStep(parser, unread) /\ request_tmp_buf = <<>>
    /\ parser.left = 0 => request_buf = <<>>
    /\ parser.left = 1 => /\ Len(request_buf) = 1 /\ request_buf[1].kind = "first"
                          /\ request_buf[1].method = parser.method
Exchanging ==
    /\ InStep(NewParser, unread) /\ request_tmp_buf = <<>>
    /\ exchanged => request_buf = <<>>
    /\ Awaiting(parser, response, 0)

IInv ==
    /\ TypeOK /\ ResponseWhole /\ NoSpuriousError
    /\ phase = "collect" => parser.settings = "request"
    /\ phase = "exchange" => parser.settings = "response"
    /\ phase = "collect" /\ mishaps = {} => Collecting
    /\ phase = "exchange" /\ mishaps = {} => Exchanging

LEMMA InitIInv == Init => IInv
  <1> SUFFICES ASSUME Init PROVE IInv
    OBVIOUS
  <1>1. PICK ms \in [1..MaxRequests -> Methods] : unread = Requests(ms)
    BY DEF Init
  <1>2. Len(ms) = MaxRequests /\ MaxRequests \in Nat
    BY ParserAssumption
  <1> DEFINE N == 2 * MaxRequests
             tok(i) == [kind |-> IF i % 2 = 1 THEN "first" ELSE "last",
                        method |-> ms[(i + 1) \div 2]]
  <1>3. unread = [i \in 1..N |-> tok(i)] /\ N \in Nat
    BY <1>1, <1>2 DEF Requests
  <1>4. ASSUME NEW i \in 1..N
        PROVE  /\ tok(i) \in RequestTokens
               /\ tok(i).kind = IF i % 2 = 1 THEN "first" ELSE "last"
    <2>1. (i + 1) \div 2 \in 1..MaxRequests
      BY <1>2
    <2>2. ms[(i + 1) \div 2] \in Methods
      BY <2>1
    <2> QED
      BY <2>2 DEF RequestTokens
  <1> HIDE DEF tok, N
  <1>5. unread \in Seq(RequestTokens) /\ Len(unread) = N /\ \A i \in 1..N : unread[i] = tok(i)
    BY <1>3, <1>4
  <1>6. InStep(NewParser, unread)
    <2>1. NewParser.left = 0
      BY DEF NewParser
    <2>2. Len(unread) > 0 => unread[1].kind = "first"
      <3>1. 1 % 2 = 1 /\ (N > 0 => 1 \in 1..N)
        BY <1>3
      <3> QED
        BY <1>4, <1>5, <3>1
    <2>3. ASSUME NEW i \in 1..(Len(unread) - 1) PROVE unread[i].kind # unread[i + 1].kind
      <3>1. i \in 1..N /\ i + 1 \in 1..N /\ (i % 2 = 1 <=> ~((i + 1) % 2 = 1))
        BY <1>3, <1>5
      <3> QED
        BY <1>4, <1>5, <3>1
    <2> QED
      BY <2>1, <2>2, <2>3 DEF InStep, Expected
  <1>7. NewParser \in Parsers /\ Bounded(NewParser)
    BY DEF NewParser, Parsers, Eoms, Bounded, Forever
  <1>8. /\ parser = NewParser /\ phase = "collect" /\ request_buf = <<>> /\ request_tmp_buf = <<>>
        /\ exchanged = FALSE /\ response = <<>> /\ cut = FALSE /\ mishaps = {}
    BY DEF Init
  <1>9. parser.left = 0 /\ ~parser.error /\ parser.settings = "request"
    BY <1>8 DEF NewParser
  <1>10. TypeOK
    <2>1. <<>> \in Seq(RequestTokens) /\ <<>> \in Seq(ResponseTokens)
      OBVIOUS
    <2>2. Typed(parser)
      BY <1>7, <1>8 DEF Typed
    <2> QED
      BY <1>5, <1>8, <2>1, <2>2 DEF TypeOK, Typed, Bounded
  <1>11. Collecting
    BY <1>6, <1>8, <1>9 DEF Collecting
  <1> QED
    BY <1>8, <1>9, <1>10, <1>11 DEF IInv, ResponseWhole, NoSpuriousError

LEMMA ResetTyped ==
    ASSUME NEW p \in Parsers, Bounded(p), NEW settings \in {"request", "response"}
    PROVE  /\ reset_parser(p, settings) \in Parsers /\ Bounded(reset_parser(p, settings))
           /\ reset_parser(p, settings).settings = settings
           /\ reset_parser(p, settings).left = 0 /\ ~reset_parser(p, settings).error
           /\ reset_parser(p, settings).last_method = p.last_method
  <1> DEFINE q == reset_parser(p, settings)
  <1>1. q = [p EXCEPT !.settings = settings, !.method = MethodZero, !.left = 0, !.error = FALSE]
    BY DEF reset_parser
  <1>2. q \in Parsers
    <2> DEFINE r == [p EXCEPT !.settings = settings, !.left = 0]
    <2>1. r \in Parsers
      BY DEF Parsers
    <2>2. q = [r EXCEPT !.method = MethodZero, !.error = FALSE]
      BY <1>1 DEF Parsers
    <2> HIDE DEF r
    <2> QED
      BY <2>1, <2>2 DEF Parsers
  <1>3. /\ q.settings = settings /\ q.left = 0 /\ q.error = FALSE /\ q.last_method = p.last_method
        /\ q.first_eom = p.first_eom /\ q.last_eom = p.last_eom /\ q.at = p.at
    <2>1. q.settings = settings /\ q.left = 0 /\ q.error = FALSE
      BY <1>1 DEF Parsers
    <2>2. q.last_method = p.last_method /\ q.at = p.at
      BY <1>1 DEF Parsers
    <2>3. q.first_eom = p.first_eom /\ q.last_eom = p.last_eom
      BY <1>1 DEF Parsers
    <2> QED
      BY <2>1, <2>2, <2>3
  <1> HIDE DEF q
  <1>4. Bounded(q)
    BY <1>3 DEF Bounded
  <1> QED
    BY <1>2, <1>3, <1>4 DEF q

(* InStep looks at the parser's left alone. *)
LEMMA InStepLeft ==
    ASSUME NEW p, NEW q, p.left = q.left, NEW s, InStep(p, s)
    PROVE  InStep(q, s)
  BY DEF InStep, Expected

LEMMA ExchangeEnds ==
    ASSUME IInv, send_request_slowly_ends
    PROVE  IInv'
  <1>1. /\ phase = "exchange" /\ ~exchanged /\ exchanged' = TRUE
        /\ request_buf' = request_tmp_buf /\ request_tmp_buf' = <<>>
        /\ parser' = parser /\ phase' = phase /\ unread' = unread /\ response' = response
        /\ cut' = cut /\ mishaps' = mishaps
    BY DEF send_request_slowly_ends
  <1>2. TypeOK'
    BY <1>1 DEF IInv, TypeOK
  <1>3. ResponseWhole' /\ NoSpuriousError'
    BY <1>1 DEF IInv, ResponseWhole, NoSpuriousError
  <1>4. mishaps' = {} => Exchanging'
    <2> SUFFICES ASSUME mishaps = {} PROVE Exchanging'
      BY <1>1
    <2>1. Exchanging
      BY <1>1 DEF IInv
    <2> QED
      BY <1>1, <2>1 DEF Exchanging
  <1> QED
    BY <1>1, <1>2, <1>3, <1>4 DEF IInv

LEMMA ServerReads ==
    ASSUME IInv, NEW k \in 0..BufSize, NEW eof \in BOOLEAN, k <= Len(response),
           Server_recv_to_buffer_slowly(k, eof)
    PROVE  IInv'
  <1> DEFINE d == First(response, k)
             p == do_parse(parser, d)
             rest == Rest(response, k)
             done == p.error \/ ResponseCompleted(p, eof)
  <1>1. /\ phase = "exchange" /\ parser.settings = "response" /\ parser \in Parsers
        /\ response \in Seq(ResponseTokens)
    BY DEF IInv, TypeOK, Server_recv_to_buffer_slowly
  <1>2. Len(response) \in Nat /\ k \in 0..Len(response)
    BY <1>1, ParserAssumption
  <1>3. d \in Seq(ResponseTokens) /\ rest \in Seq(ResponseTokens) /\ Len(rest) = Len(response) - k
    BY <1>1, <1>2, FirstRest
  <1>4. Typed(p) /\ p.settings = "response"
    BY <1>1, <1>3, ParseTyped DEF Tokens
  <1>5. /\ eof => rest = <<>>
        /\ unread' = unread /\ request_buf' = request_buf /\ request_tmp_buf' = request_tmp_buf
        /\ done => /\ parser' = IF p.error THEN p ELSE switch_to_request_mode(p)
                   /\ phase' = IF p.error THEN "closed" ELSE "collect"
                   /\ exchanged' = FALSE /\ response' = <<>>
                   /\ cut' = (cut \/ rest # <<>>)
                   /\ mishaps' = IF exchanged THEN mishaps ELSE mishaps \union {"outrun"}
        /\ ~done => /\ parser' = p /\ response' = rest
                    /\ phase' = phase /\ exchanged' = exchanged /\ cut' = cut
                    /\ mishaps' = mishaps
    BY DEF Server_recv_to_buffer_slowly
  <1>6. ASSUME mishaps = {} PROVE ~parser.error /\ Exchanging /\ Located(p, response, k)
    <2>1. Exchanging /\ ~parser.error
      BY <1>1, <1>6 DEF IInv, NoSpuriousError
    <2>2. Awaiting(parser, response, 0)
      BY <2>1 DEF Exchanging
    <2> QED
      BY <1>1, <1>2, <2>1, <2>2, ResponseParse
  <1> HIDE DEF p, d, rest
  <1>7. CASE done
    <2> DEFINE q == switch_to_request_mode(p)
    <2>1. /\ q \in Parsers /\ Bounded(q) /\ q.settings = "request" /\ q.left = 0 /\ ~q.error
      BY <1>4, ResetTyped DEF switch_to_request_mode, Typed
    <2> HIDE DEF q
    <2>2. parser' = (IF p.error THEN p ELSE q) /\ Typed(parser')
      BY <1>4, <1>5, <1>7, <2>1 DEF Typed, q
    <2>3. /\ phase' = (IF p.error THEN "closed" ELSE "collect") /\ exchanged' = FALSE
          /\ response' = <<>> /\ cut' = (cut \/ rest # <<>>)
          /\ mishaps' = IF exchanged THEN mishaps ELSE mishaps \union {"outrun"}
      BY <1>5, <1>7
    <2>4. TypeOK'
      <3>1. <<>> \in Seq(ResponseTokens)
        OBVIOUS
      <3>2. mishaps' \subseteq {"pipelined", "interim", "outrun", "upgrade"}
        BY <2>3 DEF IInv, TypeOK
      <3>3. phase' \in {"collect", "exchange", "closed"} /\ exchanged' \in BOOLEAN /\ cut' \in BOOLEAN
        BY <2>3 DEF IInv, TypeOK
      <3> QED
        BY <1>5, <2>2, <2>3, <3>1, <3>2, <3>3 DEF IInv, TypeOK, Typed, Bounded
    <2>5. ASSUME mishaps' = {}
          PROVE  /\ exchanged /\ ~p.error /\ parser' = q /\ phase' = "collect" /\ ~cut'
                 /\ Collecting'
      <3>1. exchanged /\ mishaps = {}
        BY <2>3, <2>5
      <3>2. Exchanging /\ Located(p, response, k) /\ ~cut
        BY <1>6, <3>1 DEF IInv, ResponseWhole
      <3>3. ~p.error /\ (p.last_eom # NULL => k = Len(response))
        BY <3>2 DEF Located
      <3>4. rest = <<>>
        <4>1. CASE eof
          BY <1>5, <4>1
        <4>2. CASE p.last_eom # NULL
          BY <1>2, <1>3, <3>3, <4>2
        <4> QED
          BY <1>7, <3>3, <4>1, <4>2 DEF ResponseCompleted
      <3>5. parser' = q /\ phase' = "collect" /\ ~cut'
        BY <2>2, <2>3, <3>2, <3>3, <3>4
      <3>6. InStep(q, unread)
        <4>1. InStep(NewParser, unread) /\ NewParser.left = 0
          BY <3>2 DEF Exchanging, NewParser
        <4> QED
          BY <2>1, <4>1, InStepLeft
      <3>7. Collecting'
        BY <1>5, <2>1, <3>1, <3>2, <3>5, <3>6 DEF Collecting, Exchanging
      <3> QED
        BY <3>1, <3>3, <3>5, <3>7
    <2>6. ResponseWhole' /\ NoSpuriousError'
      BY <2>1, <2>5 DEF ResponseWhole, NoSpuriousError
    <2>7. phase' = "collect" => parser'.settings = "request"
      BY <2>1, <2>2, <2>3
    <2>8. phase' # "exchange"
      BY <2>3
    <2> QED
      BY <2>4, <2>5, <2>6, <2>7, <2>8 DEF IInv
  <1>8. CASE ~done
    <2>1. /\ parser' = p /\ response' = rest /\ phase' = "exchange" /\ exchanged' = exchanged
          /\ cut' = cut /\ mishaps' = mishaps
      BY <1>1, <1>5, <1>8
    <2>2. ~p.error /\ p.last_eom = NULL
      BY <1>8 DEF ResponseCompleted
    <2>3. TypeOK'
      BY <1>3, <1>4, <1>5, <2>1 DEF IInv, TypeOK, Typed, Bounded
    <2>4. ResponseWhole' /\ NoSpuriousError'
      BY <2>1, <2>2 DEF IInv, ResponseWhole, NoSpuriousError
    <2>5. mishaps' = {} => Exchanging'
      <3> SUFFICES ASSUME mishaps = {} PROVE Exchanging'
        BY <2>1
      <3>1. Exchanging /\ Located(p, response, k)
        BY <1>6
      <3>2. Awaiting(p, response, k)
        BY <2>2, <3>1 DEF Located
      <3>3. Awaiting(p, rest, 0)
        BY <1>1, <1>2, <3>2, AwaitingRest DEF rest
      <3> QED
        BY <1>5, <2>1, <3>1, <3>3 DEF Exchanging
    <2> QED
      BY <1>4, <2>1, <2>3, <2>4, <2>5 DEF IInv
  <1> QED
    BY <1>7, <1>8

(* The block that completes a request, without a token of a further one:   *)
(* the buffer then holds that request, and its method is last_method.      *)
LEMMA RequestStored ==
    ASSUME IInv, phase = "collect", mishaps = {}, NEW k \in 1..Len(unread), k = End(parser)
    PROVE  /\ Len(request_buf \o First(unread, k)) = 2
           /\ (request_buf \o First(unread, k))[1].kind = "first"
           /\ (request_buf \o First(unread, k))[2].kind = "last"
           /\ (request_buf \o First(unread, k))[1].method = Method(parser, unread)
  <1> DEFINE d == First(unread, k)
             b == request_buf \o d
  <1>1. Collecting /\ unread \in Seq(RequestTokens) /\ request_buf \in Seq(RequestTokens)
    BY DEF IInv, TypeOK
  <1>2. InStep(parser, unread) /\ parser.left \in {0, 1}
    BY <1>1 DEF Collecting, InStep
  <1>3. k \in 0..Len(unread) /\ Len(unread) \in Nat /\ Len(unread) > 0
    BY <1>1
  <1>4. d \in Seq(RequestTokens) /\ Len(d) = k /\ \A i \in 1..k : d[i] = unread[i]
    BY <1>1, <1>3, FirstRest
  <1> HIDE DEF d
  <1>5. unread[1].kind = Expected(parser)
    BY <1>2, <1>3 DEF InStep
  <1>6. CASE parser.left = 0
    <2>1. k = 2 /\ request_buf = <<>> /\ 1 \in 1..k /\ 2 \in 1..k /\ 1 \in 1..(Len(unread) - 1)
      BY <1>1, <1>3, <1>6 DEF End, Collecting
    <2>2. b = d
      BY <1>4, <2>1
    <2>3. unread[1].kind = "first" /\ unread[1].kind # unread[1 + 1].kind
      BY <1>2, <1>5, <1>6, <2>1 DEF InStep, Expected
    <2>4. unread[2].kind \in {"first", "last"}
      <3>1. 2 \in 1..Len(unread)
        BY <1>3, <2>1
      <3>2. unread[2] \in RequestTokens
        BY <1>1, <3>1
      <3> QED
        BY <3>2 DEF RequestTokens
    <2>5. d[1] = unread[1] /\ d[2] = unread[2]
      BY <1>4, <2>1
    <2>6. unread[2].kind = "last"
      BY <2>3, <2>4
    <2> QED
      BY <1>4, <1>6, <2>1, <2>2, <2>3, <2>5, <2>6 DEF Method, d
  <1>7. CASE parser.left = 1
    <2>1. /\ k = 1 /\ Len(request_buf) = 1 /\ request_buf[1].kind = "first"
          /\ request_buf[1].method = parser.method /\ 1 \in 1..k
      BY <1>1, <1>7 DEF End, Collecting
    <2>2. Len(b) = 2 /\ b[1] = request_buf[1] /\ b[2] = d[1]
      <3> HIDE DEF b
      <3>1. /\ Len(b) = 1 + Len(d) /\ b[1] = request_buf[1]
            /\ \A i \in 1..Len(d) : b[1 + i] = d[i]
        BY <1>1, <1>4, <2>1, Prepended DEF b
      <3>2. b[1 + 1] = d[1]
        BY <1>4, <2>1, <3>1
      <3>3. Len(d) = 1 /\ 1 + 1 = 2
        BY <1>4, <2>1
      <3> QED
        BY <3>1, <3>2, <3>3, Zenon
    <2>3. d[1].kind = "last"
      BY <1>4, <1>5, <1>7, <2>1 DEF Expected
    <2> QED
      BY <1>7, <2>1, <2>2, <2>3 DEF Method, d
  <1> QED
    BY <1>2, <1>6, <1>7

LEMMA ClientReads ==
    ASSUME IInv, NEW k \in 1..BufSize, k <= Len(unread), Client_recv_to_buffer_slowly(k)
    PROVE  IInv'
  <1> DEFINE d == First(unread, k)
             p == do_parse(parser, d)
             e == p.first_eom
             rest == Rest(unread, k)
             q == switch_to_response_mode(p)
             Fails == p.error /\ parser' = p /\ phase' = "closed"
                      /\ mishaps' = mishaps \union
                           (IF \E i \in 1..k : Upgrades(d[i]) THEN {"upgrade"} ELSE {})
                      /\ UNCHANGED <<request_buf, request_tmp_buf, exchanged, response>>
             Stores == ~p.error /\ e = NULL /\ parser' = p /\ request_buf' = request_buf \o d
                       /\ UNCHANGED <<phase, request_tmp_buf, exchanged, response, mishaps>>
             Alone == ~p.error /\ e # NULL /\ parser' = q /\ phase' = "closed"
                      /\ UNCHANGED <<request_buf, request_tmp_buf, exchanged, response, mishaps>>
             Sends == /\ ~p.error /\ e # NULL /\ parser' = q /\ phase' = "exchange"
                      /\ request_buf' = request_buf \o First(d, e)
                      /\ request_tmp_buf' = request_tmp_buf \o Rest(d, e)
                      /\ exchanged' = FALSE
                      /\ response' \in Replies(request_buf')
                      /\ mishaps' = mishaps \union (IF e < k THEN {"pipelined"} ELSE {})
                                    \union (IF Interim(response') THEN {"interim"} ELSE {})
  <1>1. /\ phase = "collect" /\ parser.settings = "request" /\ parser \in Parsers
        /\ unread \in Seq(RequestTokens)
    BY DEF IInv, TypeOK, Client_recv_to_buffer_slowly
  <1>2. Len(unread) \in Nat /\ k \in 1..Len(unread) /\ k \in 0..Len(unread) /\ k \in Nat
    BY <1>1, ParserAssumption
  <1>3. d \in Seq(RequestTokens) /\ rest \in Seq(RequestTokens) /\ Len(d) = k
    BY <1>1, <1>2, FirstRest
  <1>4. Typed(p) /\ p.settings = "request" /\ p.at <= Len(d)
    BY <1>1, <1>3, ParseTyped DEF Tokens
  <1>5. unread' = rest /\ cut' = cut /\ (Fails \/ Stores \/ Alone \/ Sends)
    BY DEF Client_recv_to_buffer_slowly
  <1>6. ASSUME mishaps = {}
        PROVE  /\ ~cut /\ Collecting /\ parser.left \in {0, 1}
               /\ Upgraded(unread, k, p) \/ (After(parser, unread, k, p) /\ InStep(p, rest))
    <2>1. Collecting /\ ~parser.error /\ ~cut
      BY <1>1, <1>6 DEF IInv, NoSpuriousError, ResponseWhole
    <2>2. InStep(parser, unread) /\ parser.left \in {0, 1}
      BY <2>1 DEF Collecting, InStep
    <2> QED
      BY <1>1, <1>2, <2>1, <2>2, RequestParse
  <1>7. q \in Parsers /\ Bounded(q) /\ q.settings = "response" /\ q.left = 0 /\ ~q.error
        /\ q.last_method = p.last_method
    BY <1>4, ResetTyped DEF switch_to_response_mode, Typed
  <1>8. p \in Parsers /\ Bounded(p) /\ e \in Nat \union {NULL}
    BY <1>4 DEF Typed, Parsers, Eoms
  <1>9. CASE Fails
    <2>1. mishaps' # {}
      <3>1. CASE mishaps # {}
        BY <1>9, <3>1
      <3>2. CASE mishaps = {}
        <4>1. Upgraded(unread, k, p)
          BY <1>6, <1>9, <3>2 DEF After
        <4>2. \A i \in 1..k : d[i] = unread[i]
          BY <1>1, <1>2, FirstRest
        <4>3. \E i \in 1..k : Upgrades(d[i])
          BY <4>1, <4>2, Zenon DEF Upgraded
        <4>4. "upgrade" \in mishaps'
          BY <1>9, <4>3
        <4> QED
          BY <4>4
      <3> QED
        BY <3>1, <3>2
    <2> HIDE DEF p, d, rest, q
    <2>2. mishaps' \subseteq {"pipelined", "interim", "outrun", "upgrade"}
      BY <1>9 DEF IInv, TypeOK
    <2>3. TypeOK'
      BY <1>3, <1>5, <1>8, <1>9, <2>2 DEF IInv, TypeOK, Bounded
    <2> QED
      BY <1>5, <1>9, <2>1, <2>3 DEF IInv, ResponseWhole, NoSpuriousError
  <1>10. CASE Stores
    <2> HIDE DEF p, d, rest, q
    <2>1. request_buf \o d \in Seq(RequestTokens)
      BY <1>3, ConcatProperties DEF IInv, TypeOK
    <2>2. TypeOK'
      BY <1>3, <1>5, <1>8, <1>10, <2>1 DEF IInv, TypeOK, Bounded
    <2>3. ResponseWhole' /\ NoSpuriousError'
      BY <1>5, <1>10 DEF IInv, ResponseWhole, NoSpuriousError
    <2>4. mishaps' = {} => Collecting'
      <3> SUFFICES ASSUME mishaps = {} PROVE Collecting'
        BY <1>10
      <3>1. Collecting /\ After(parser, unread, k, p) /\ InStep(p, rest) /\ parser.left \in {0, 1}
        BY <1>6, <1>10 DEF Upgraded
      <3>2. k < End(parser)
        <4>1. End(parser) \in Nat /\ End(parser) # NULL
          BY <3>1, ParserAssumption DEF End
        <4>2. ~(k >= End(parser))
          BY <1>10, <3>1, <4>1 DEF After
        <4> QED
          BY <1>2, <4>1, <4>2
      <3>3. k = 1 /\ parser.left = 0
        BY <1>2, <3>1, <3>2 DEF End
      <3>4. p.left = 1 /\ p.method = unread[1].method
        BY <3>1, <3>2, <3>3 DEF After, Method
      <3>5. unread[1].kind = "first"
        BY <1>2, <3>1, <3>3 DEF Collecting, InStep, Expected
      <3>6. request_buf = <<>> /\ request_buf \o d = d /\ Len(d) = 1
        <4>1. request_buf = <<>> /\ Len(d) = 1
          BY <1>3, <3>1, <3>3 DEF Collecting
        <4>2. <<>> \o d = d
          BY <1>3
        <4> QED
          BY <4>1, <4>2
      <3>7. d[1] = unread[1]
        <4>1. \A i \in 1..k : d[i] = unread[i]
          BY <1>1, <1>2, FirstRest DEF d
        <4> QED
          BY <3>3, <4>1
      <3> QED
        BY <1>5, <1>10, <3>1, <3>4, <3>5, <3>6, <3>7 DEF Collecting
    <2> QED
      BY <1>1, <1>4, <1>10, <2>2, <2>3, <2>4 DEF IInv
  <1>11. CASE Alone
    <2> HIDE DEF p, d, rest, q
    <2>1. TypeOK'
      BY <1>3, <1>5, <1>7, <1>11 DEF IInv, TypeOK, Bounded
    <2> QED
      BY <1>5, <1>7, <1>11, <2>1 DEF IInv, ResponseWhole, NoSpuriousError
  <1>12. CASE Sends
    <2> HIDE DEF p, d, rest, q
    <2>0. e \in Nat /\ e <= Len(d) /\ e \in 0..Len(d)
      <3>1. e \in Nat /\ p.at \in Nat /\ p.last_eom \in Nat
        BY <1>8, <1>12 DEF Bounded, Parsers, Eoms
      <3>2. e <= p.last_eom /\ p.last_eom <= p.at /\ p.at <= Len(d)
        BY <1>4, <1>8, <1>12 DEF Bounded
      <3> QED
        BY <1>2, <1>3, <3>1, <3>2
    <2>1. First(d, e) \in Seq(RequestTokens) /\ Rest(d, e) \in Seq(RequestTokens)
      BY <1>3, <2>0, FirstRest
    <2>2. request_buf' \in Seq(RequestTokens) /\ request_tmp_buf' \in Seq(RequestTokens)
      BY <1>12, <2>1, ConcatProperties DEF IInv, TypeOK
    <2>3. response' \in Seq(ResponseTokens)
      <3>1. Len(request_buf') \in Nat
        BY <2>2
      <3>2. Replies(request_buf') \subseteq Seq(ResponseTokens)
        BY <3>1, ReplyTypes
      <3> QED
        BY <1>12, <3>2
    <2>4. mishaps' \subseteq {"pipelined", "interim", "outrun", "upgrade"}
      BY <1>12 DEF IInv, TypeOK
    <2>5. TypeOK'
      BY <1>3, <1>5, <1>7, <1>12, <2>2, <2>3, <2>4 DEF IInv, TypeOK, Bounded
    <2>6. mishaps' = {} => mishaps = {} /\ ~(e < k) /\ ~Interim(response')
      BY <1>12
    <2>7. ResponseWhole' /\ NoSpuriousError'
      BY <1>5, <1>7, <1>12, <2>6 DEF IInv, ResponseWhole, NoSpuriousError
    <2>8. ASSUME mishaps' = {} PROVE Exchanging'
      <3>1. Collecting /\ After(parser, unread, k, p) /\ InStep(p, rest) /\ parser.left \in {0, 1}
        BY <1>6, <1>12, <2>6, <2>8 DEF Upgraded
      <3>2. e = k /\ k = End(parser)
        <4>1. End(parser) \in Nat
          BY <3>1 DEF End
        <4>2. e = End(parser) /\ k >= End(parser)
          BY <1>2, <1>12, <3>1, <4>1 DEF After
        <4> QED
          BY <1>2, <2>6, <2>8, <4>1, <4>2
      <3>3. p.left = 0 /\ p.last_method = Method(parser, unread)
        BY <3>1, <3>2 DEF After
      <3>4. First(d, e) = d /\ Rest(d, e) = <<>>
        BY <1>3, <3>2 DEF First, Rest
      <3>5. request_buf' = request_buf \o d /\ request_tmp_buf' = <<>>
        BY <1>12, <3>1, <3>4 DEF Collecting
      <3>6. /\ Len(request_buf') = 2 /\ request_buf'[1].kind = "first"
            /\ request_buf'[2].kind = "last" /\ request_buf'[1].method = p.last_method
        BY <1>1, <1>2, <2>6, <2>8, <3>2, <3>3, <3>5, RequestStored DEF d
      <3>7. response' \in Answers(p.last_method)
        BY <1>12, <3>6, OneRequest
      <3>8. Final(p.last_method, response')
        BY <2>6, <2>8, <3>7, NotInterim
      <3>9. Awaiting(q, response', 0)
        BY <1>7, <3>8 DEF Awaiting
      <3>10. InStep(NewParser, rest)
        <4>1. NewParser.left = 0
          BY DEF NewParser
        <4> QED
          BY <3>1, <3>3, <4>1, InStepLeft
      <3> QED
        BY <1>5, <1>12, <3>5, <3>9, <3>10 DEF Exchanging
    <2> QED
      BY <1>7, <1>12, <2>5, <2>7, <2>8 DEF IInv
  <1> QED
    BY <1>5, <1>9, <1>10, <1>11, <1>12

LEMMA NextIInv == IInv /\ [Next]_vars => IInv'
  <1> SUFFICES ASSUME IInv, [Next]_vars PROVE IInv'
    OBVIOUS
  <1>1. CASE \E k \in 1..BufSize : k <= Len(unread) /\ Client_recv_to_buffer_slowly(k)
    BY <1>1, ClientReads
  <1>2. CASE send_request_slowly_ends
    BY <1>2, ExchangeEnds
  <1>3. CASE \E k \in 0..BufSize, eof \in BOOLEAN :
               k <= Len(response) /\ (k > 0 \/ eof) /\ Server_recv_to_buffer_slowly(k, eof)
    BY <1>3, ServerReads
  <1>4. CASE UNCHANGED vars
    <2>1. TypeOK' /\ ResponseWhole' /\ NoSpuriousError'
      BY <1>4 DEF vars, IInv, TypeOK, ResponseWhole, NoSpuriousError
    <2>2. (Collecting' <=> Collecting) /\ (Exchanging' <=> Exchanging)
      BY <1>4 DEF vars, Collecting, Exchanging
    <2> QED
      BY <1>4, <2>1, <2>2 DEF vars, IInv
  <1> QED
    BY <1>1, <1>2, <1>3, <1>4 DEF Next

LEMMA AlwaysIInv == Spec => []IInv
  BY InitIInv, NextIInv, PTL DEF Spec

-----------------------------------------------------------------------------
(* Types: whatever blocks arrive and whatever has gone wrong, the two ends *)
(* of message lie in the block parsed last, first before last, so that     *)
(* recv_to_buffer_slowly splits the block inside it.                       *)
THEOREM TypeCorrect == Spec => []TypeOK
  <1>1. IInv => TypeOK
    BY DEF IInv
  <1> QED
    BY <1>1, AlwaysIInv, PTL

(* A server is freed only after its whole response, unless a pipelined     *)
(* request, an interim response or a response that outran its request came *)
(* before: for every response length and every way it is cut into reads.   *)
THEOREM ServedToTheEnd == Spec => []ResponseWhole
  <1>1. IInv => ResponseWhole
    BY DEF IInv
  <1> QED
    BY <1>1, AlwaysIInv, PTL

(* The end of a response is noticed with its last token, unless only the   *)
(* server's close can tell it.                                             *)
THEOREM EndIsNoticed == Spec => []EndNoticed
  <1>1. ASSUME IInv, phase = "exchange", response = <<>>, mishaps = {}
        PROVE  parser.left = Forever
    <2>1. Awaiting(parser, response, 0) /\ Len(response) = 0
      BY <1>1 DEF IInv, Exchanging
    <2> QED
      BY <2>1 DEF Awaiting, Final
  <1>2. IInv => EndNoticed
    BY <1>1 DEF EndNoticed
  <1> QED
    BY <1>2, AlwaysIInv, PTL

(* Well-formed peers cause no ParserError unless one of the gaps has       *)
(* occurred: a pipelined request, an interim response, a response that     *)
(* outran its request, or a request that leaves HTTP, which do_parse does  *)
(* not tell from an error.                                                 *)
THEOREM ErrorsAreReal == Spec => []NoSpuriousError
  <1>1. IInv => NoSpuriousError
    BY DEF IInv
  <1> QED
    BY <1>1, AlwaysIInv, PTL
=============================================================================
