---------------------------- MODULE ProxyProofs ----------------------------
(* Proofs about Proxy, for every number of connections and every size of   *)
(* the pool: the count is exact, history buffers have one owner and are    *)
(* clean when they get it, there are never more of them than               *)
(* MAX_CONNECTION, and the descriptor budget covers the connections.       *)
EXTENDS Proxy, FiniteSetTheorems, TLAPS

pool == hybridbuf_pool
rh == request_history

(* HistoryIsPrivate and HistoryIsClean, stated for all identities. *)
Ownership ==
    /\ \A c, d \in Conn : rh[c] = rh[d] /\ rh[c] # NULL => c = d
    /\ \A k \in 1..Len(pool) : \A c \in Conn : pool[k] # rh[c]
    /\ \A k, l \in 1..Len(pool) : pool[k] = pool[l] => k = l
Cleanness ==
    /\ \A k \in 1..Len(pool) : pool[k] \notin dirty
    /\ \A c \in Conn : phase[c] = "new" => rh[c] \notin dirty
    /\ \A b \in dirty : \E c \in Conn : rh[c] = b

IInv == TypeOK /\ CountExact /\ Ownership /\ Cleanness /\ HistoryBudget

LEMMA LiveFinite == ASSUME live \subseteq Conn PROVE IsFiniteSet(live)
  BY ProxyAssumption, FS_Subset DEF ProxyAssumption

LEMMA OwnersFinite ==
    ASSUME live \subseteq Conn
    PROVE  IsFiniteSet(Owners) /\ Cardinality(Owners) \in Nat
           /\ Cardinality(live) \in Nat /\ Cardinality(Owners) <= Cardinality(live)
  <1>1. IsFiniteSet(live) /\ Owners \in SUBSET live
    BY LiveFinite DEF Owners
  <1> QED
    BY <1>1, FS_Subset, FS_CardinalityType

(* What release_request_history does to the buffers, when connection c     *)
(* gives its own back and no connection becomes new.                       *)
LEMMA ReleaseEffect ==
    ASSUME IInv, NEW c \in live, release_request_history(c),
           \A d \in Conn : phase'[d] = "new" => phase[d] = "new"
    PROVE  /\ rh' \in [Conn -> Buf \union {NULL}]
           /\ rh'[c] = NULL /\ \A d \in Conn \ {c} : rh'[d] = rh[d]
           /\ pool' \in Seq(Buf) /\ dirty' \subseteq Buf
           /\ Ownership' /\ Cleanness'
           /\ Len(pool') <= MAX_HYBRID_POOL
           /\ Len(pool') <= Len(pool) + (IF rh[c] # NULL THEN 1 ELSE 0)
  <1> DEFINE b == rh[c]
  <1>1. c \in Conn /\ rh \in [Conn -> Buf \union {NULL}] /\ pool \in Seq(Buf) /\ dirty \subseteq Buf
        /\ Len(pool) \in Nat /\ Len(pool) <= MAX_HYBRID_POOL /\ MAX_HYBRID_POOL \in Nat
    BY ProxyAssumption DEF ProxyAssumption, IInv, TypeOK, HistoryBudget, rh, pool
  <1>2. rh' = [rh EXCEPT ![c] = NULL] /\ dirty' = dirty \ {b}
    BY DEF release_request_history, rh
  <1>3. rh' \in [Conn -> Buf \union {NULL}] /\ rh'[c] = NULL /\ \A d \in Conn \ {c} : rh'[d] = rh[d]
    BY <1>1, <1>2
  <1>dirty. \A x \in dirty' : \E d \in Conn : rh'[d] = x
    <2> SUFFICES ASSUME NEW x \in dirty \ {b} PROVE \E d \in Conn : rh'[d] = x
      BY <1>2
    <2>1. PICK d \in Conn : rh[d] = x
      BY DEF IInv, Cleanness
    <2> QED
      BY <1>3, <2>1
  <1>4. CASE b # NULL /\ Len(pool) < MAX_HYBRID_POOL
    <2>1. pool' = Append(pool, b)
      BY <1>4 DEF release_request_history, pool, rh
    <2>2. b \in Buf
      BY <1>1, <1>4
    <2>3. pool' \in Seq(Buf) /\ Len(pool') = Len(pool) + 1 /\ pool'[Len(pool) + 1] = b
          /\ \A k \in 1..Len(pool) : pool'[k] = pool[k]
      BY <1>1, <2>1, <2>2
    <2>4. \A k \in 1..Len(pool) : pool[k] # b
      BY <1>1 DEF IInv, Ownership
    <2>5. \A d \in Conn : rh'[d] # b
      BY <1>1, <1>3, <1>4 DEF IInv, Ownership
    <2>6. \A k \in 1..Len(pool') : k \in 1..Len(pool) \/ k = Len(pool) + 1
      BY <1>1, <2>3
    <2>7. \A k \in 1..Len(pool') : \A d \in Conn : pool'[k] # rh'[d]
      <3> SUFFICES ASSUME NEW k \in 1..Len(pool'), NEW d \in Conn PROVE pool'[k] # rh'[d]
        OBVIOUS
      <3>1. CASE k = Len(pool) + 1
        BY <3>1, <2>3, <2>5
      <3>2. CASE k \in 1..Len(pool) /\ d = c
        <4>1. pool[k] \in Buf
          BY <3>2, <1>1
        <4> QED
          BY <4>1, <3>2, <2>3, <1>3, ProxyAssumption DEF ProxyAssumption
      <3>3. CASE k \in 1..Len(pool) /\ d # c
        BY <3>3, <2>3, <1>3 DEF IInv, Ownership
      <3> QED
        BY <3>1, <3>2, <3>3, <2>6
    <2>8. \A k, l \in 1..Len(pool') : pool'[k] = pool'[l] => k = l
      BY <2>3, <2>4, <2>6 DEF IInv, Ownership
    <2>9. Ownership'
      BY <2>7, <2>8, <1>3 DEF IInv, Ownership
    <2>10. \A k \in 1..Len(pool') : pool'[k] \notin dirty'
      BY <2>3, <2>6, <1>2 DEF IInv, Cleanness
    <2>11. \A d \in Conn : phase'[d] = "new" => rh'[d] \notin dirty'
      BY <1>1, <1>2, <1>3, ProxyAssumption DEF ProxyAssumption, IInv, Cleanness
    <2>12. Cleanness'
      BY <1>dirty, <2>10, <2>11 DEF Cleanness
    <2> QED
      BY <1>1, <1>2, <1>3, <1>4, <2>3, <2>9, <2>12
  <1>5. CASE ~(b # NULL /\ Len(pool) < MAX_HYBRID_POOL)
    <2>1. pool' = pool
      BY <1>5 DEF release_request_history, pool, rh
    <2>2. \A k \in 1..Len(pool) : pool[k] \in Buf
      BY <1>1
    <2>3. Ownership'
      BY <1>1, <1>3, <2>1, <2>2, ProxyAssumption DEF ProxyAssumption, IInv, Ownership
    <2>4. \A d \in Conn : phase'[d] = "new" => rh'[d] \notin dirty'
      BY <1>1, <1>2, <1>3, ProxyAssumption DEF ProxyAssumption, IInv, Cleanness
    <2>5. \A k \in 1..Len(pool') : pool'[k] \notin dirty'
      BY <1>2, <2>1 DEF IInv, Cleanness
    <2>6. Cleanness'
      BY <1>dirty, <2>4, <2>5 DEF Cleanness
    <2> QED
      BY <1>1, <1>2, <1>3, <2>1, <2>3, <2>6
  <1> QED
    BY <1>4, <1>5

(* Deleting connection c: it takes its count and its history with it. *)
LEMMA DeleteStep ==
    ASSUME IInv, NEW c \in live, NEW k \in Nat, NEW n \in Nat, delete_conn(c, k, n),
           todo' = todo \ {c} \/ (todo' = todo /\ todo = {}),
           proc' \in {"starting", "running", "monitor", "shutdown", "exited", "failed", "aborted"}
    PROVE  IInv'
  <1>1. live \subseteq Conn /\ c \in Conn /\ IsFiniteSet(live) /\ IsFiniteSet(Owners)
        /\ Cardinality(Owners) \in Nat /\ Cardinality(live) \in Nat
    BY LiveFinite, OwnersFinite DEF IInv, TypeOK
  <1>2. live' = live \ {c} /\ connection_count' = connection_count - 1 /\ phase' = phase
        /\ release_request_history(c)
    BY DEF delete_conn
  <1>3. /\ rh' \in [Conn -> Buf \union {NULL}]
        /\ rh'[c] = NULL /\ \A d \in Conn \ {c} : rh'[d] = rh[d]
        /\ pool' \in Seq(Buf) /\ dirty' \subseteq Buf
        /\ Ownership' /\ Cleanness'
        /\ Len(pool') <= MAX_HYBRID_POOL
        /\ Len(pool') <= Len(pool) + (IF rh[c] # NULL THEN 1 ELSE 0)
    BY <1>2, ReleaseEffect
  <1>4. Cardinality(live') = Cardinality(live) - 1 /\ Cardinality(live') \in Nat
    BY <1>1, <1>2, FS_RemoveElement, FS_CardinalityType
  <1>5. CountExact' /\ connection_count' \in Nat
    BY <1>1, <1>2, <1>4, ProxyAssumption DEF ProxyAssumption, IInv, CountExact
  <1>6. Owners' = Owners \ {c}
    BY <1>1, <1>2, <1>3 DEF Owners, rh
  <1>7. Cardinality(Owners') = IF c \in Owners THEN Cardinality(Owners) - 1 ELSE Cardinality(Owners)
    BY <1>1, <1>6, FS_RemoveElement
  <1>8. c \in Owners <=> rh[c] # NULL
    BY DEF Owners, rh
  <1>9. HistoryBudget'
    <2>1. Len(pool) \in Nat /\ Len(pool') \in Nat
      BY <1>3 DEF IInv, TypeOK, pool
    <2>2. Len(pool) + Cardinality(Owners) <= MAX_CONNECTION
      BY DEF IInv, HistoryBudget, pool
    <2>3. Len(pool') + Cardinality(Owners') <= MAX_CONNECTION
      BY <1>1, <1>3, <1>7, <1>8, <2>1, <2>2, ProxyAssumption DEF ProxyAssumption
    <2> QED
      BY <1>3, <2>3 DEF HistoryBudget, pool
  <1>10. lingering' \in 0..MaxLingering /\ leaked' \in 0..MaxLeaked
    BY ProxyAssumption DEF ProxyAssumption, IInv, TypeOK, delete_conn, close_socket_gracefully, Leak
  <1>11. \A d \in Conn : rh'[d] # NULL <=> d \in live' /\ phase'[d] \in FastPhases
    BY <1>2, <1>3 DEF IInv, TypeOK, rh
  <1>12. TypeOK'
    BY <1>1, <1>2, <1>3, <1>5, <1>10, <1>11 DEF IInv, TypeOK, rh, pool
  <1> QED
    BY <1>3, <1>5, <1>9, <1>12 DEF IInv

(* A callback moves connection c to another phase of the same mode. *)
LEMMA PhaseStep ==
    ASSUME IInv, NEW c \in live, NEW p \in Phases \ {"new"},
           phase[c] \in FastPhases <=> p \in FastPhases,
           Become(c, p) \/ LoseServer(c, p)
    PROVE  IInv'
  <1>1. phase' = [phase EXCEPT ![c] = p] /\ UNCHANGED <<loop, live, connection_count, hists, leaked>>
    BY DEF Become, LoseServer, strays
  <1>2. lingering' \in 0..MaxLingering
    BY ProxyAssumption
    DEF ProxyAssumption, IInv, TypeOK, Become, LoseServer, close_socket_gracefully, strays
  <1>3. c \in Conn /\ phase \in [Conn -> Phases]
    BY DEF IInv, TypeOK
  <1>4. phase' \in [Conn -> Phases] /\ phase'[c] = p /\ \A d \in Conn \ {c} : phase'[d] = phase[d]
    BY <1>1, <1>3
  <1>5. \A d \in Conn : rh'[d] # NULL <=> d \in live' /\ phase'[d] \in FastPhases
    BY <1>1, <1>4 DEF IInv, TypeOK, rh, hists
  <1>6. TypeOK'
    BY <1>1, <1>2, <1>4, <1>5 DEF IInv, TypeOK, rh, hists, loop
  <1>7. Cleanness'
    BY <1>1, <1>4 DEF IInv, Cleanness, rh, pool, hists
  <1>8. CountExact' /\ Ownership' /\ HistoryBudget'
    BY <1>1 DEF IInv, CountExact, Ownership, HistoryBudget, Owners, rh, pool, hists
  <1> QED
    BY <1>6, <1>7, <1>8 DEF IInv

(* set_slow_mode: the history goes, the connection stays. *)
LEMMA SlowStep ==
    ASSUME IInv, NEW c \in live, set_slow_mode(c), UNCHANGED <<live, connection_count, strays>>,
           todo' \subseteq live,
           proc' \in {"starting", "running", "monitor", "shutdown", "exited", "failed", "aborted"}
    PROVE  IInv'
  <1>1. c \in Conn /\ phase \in [Conn -> Phases] /\ live \subseteq Conn
    BY DEF IInv, TypeOK
  <1>2. /\ release_request_history(c)
        /\ phase' \in [Conn -> Phases] /\ phase'[c] \in {"transition", "idle"}
        /\ \A d \in Conn \ {c} : phase'[d] = phase[d]
    BY <1>1 DEF set_slow_mode, Phases
  <1>3. /\ rh' \in [Conn -> Buf \union {NULL}]
        /\ rh'[c] = NULL /\ \A d \in Conn \ {c} : rh'[d] = rh[d]
        /\ pool' \in Seq(Buf) /\ dirty' \subseteq Buf
        /\ Ownership' /\ Cleanness'
        /\ Len(pool') <= MAX_HYBRID_POOL
        /\ Len(pool') <= Len(pool) + (IF rh[c] # NULL THEN 1 ELSE 0)
    <2>1. \A d \in Conn : phase'[d] = "new" => phase[d] = "new"
      BY <1>2
    <2> QED
      BY <1>2, <2>1, ReleaseEffect
  <1>4. Owners' = Owners \ {c} /\ (c \in Owners <=> rh[c] # NULL)
    BY <1>1, <1>3 DEF Owners, rh
  <1>5. HistoryBudget'
    <2>1. Len(pool) \in Nat /\ Len(pool') \in Nat
      BY <1>3 DEF IInv, TypeOK, pool
    <2>2. Len(pool) + Cardinality(Owners) <= MAX_CONNECTION
      BY DEF IInv, HistoryBudget, pool
    <2>3. Cardinality(Owners') = IF c \in Owners THEN Cardinality(Owners) - 1 ELSE Cardinality(Owners)
      BY <1>1, <1>4, OwnersFinite, FS_RemoveElement
    <2>4. Cardinality(Owners) \in Nat
      BY <1>1, OwnersFinite
    <2>5. Len(pool') + Cardinality(Owners') <= MAX_CONNECTION
      BY <1>3, <1>4, <2>1, <2>2, <2>3, <2>4, ProxyAssumption DEF ProxyAssumption
    <2> QED
      BY <1>3, <2>5 DEF HistoryBudget, pool
  <1>6. \A d \in Conn : rh'[d] # NULL <=> d \in live' /\ phase'[d] \in FastPhases
    BY <1>2, <1>3 DEF IInv, TypeOK, rh, FastPhases
  <1>7. TypeOK'
    BY <1>2, <1>3, <1>6 DEF IInv, TypeOK, rh, pool, strays
  <1>8. CountExact'
    BY DEF IInv, CountExact
  <1> QED
    BY <1>3, <1>5, <1>7, <1>8 DEF IInv

(* What allocate_history does to the buffers: connection c, which had      *)
(* none, gets a clean one that nobody else has.                            *)
LEMMA AllocateEffect ==
    ASSUME IInv, NEW c \in Conn \ live, allocate_history(c), phase' = [phase EXCEPT ![c] = "new"]
    PROVE  /\ rh' \in [Conn -> Buf \union {NULL}]
           /\ rh'[c] \in Buf /\ \A d \in Conn \ {c} : rh'[d] = rh[d]
           /\ pool' \in Seq(Buf) /\ dirty' \subseteq Buf
           /\ Ownership' /\ Cleanness'
           /\ \/ Len(pool) > 0 /\ Len(pool') = Len(pool) - 1
              \/ Len(pool') = 0
  <1>1. /\ rh \in [Conn -> Buf \union {NULL}] /\ pool \in Seq(Buf) /\ dirty \subseteq Buf
        /\ phase \in [Conn -> Phases] /\ Len(pool) \in Nat
        /\ \A d \in Conn : rh[d] # NULL => d \in live
    BY DEF IInv, TypeOK, rh, pool
  <1>2. CASE pool # <<>>
    <2> DEFINE b == Head(pool)
    <2>0. \A k, l \in 1..Len(pool) : pool[k] = pool[l] => k = l
      BY DEF IInv, Ownership
    <2>1. rh' = [rh EXCEPT ![c] = b] /\ pool' = Tail(pool) /\ dirty' = dirty \ {b}
      BY <1>2 DEF allocate_history, pool, rh
    <2>2. b = pool[1] /\ b \in Buf /\ Len(pool) > 0 /\ 1 \in 1..Len(pool)
      BY <1>1, <1>2
    <2>3. pool' \in Seq(Buf) /\ Len(pool') = Len(pool) - 1
          /\ \A k \in 1..Len(pool') : pool'[k] = pool[k + 1] /\ k + 1 \in 1..Len(pool)
      BY <1>1, <1>2, <2>1
    <2>4. rh' \in [Conn -> Buf \union {NULL}] /\ rh'[c] = b /\ \A d \in Conn \ {c} : rh'[d] = rh[d]
      BY <1>1, <2>1, <2>2
    <2>5. \A d \in Conn : rh[d] # b
      BY <2>2 DEF IInv, Ownership
    <2>6. \A k \in 1..Len(pool') : pool'[k] # b
      <3> SUFFICES ASSUME NEW k \in 1..Len(pool'), pool'[k] = b PROVE FALSE
        OBVIOUS
      <3>1. pool[k + 1] = pool[1] /\ k + 1 \in 1..Len(pool)
        BY <2>2, <2>3
      <3>2. k + 1 = 1
        BY <2>0, <2>2, <3>1
      <3>3. k \in Nat \ {0}
        BY <1>1, <2>3
      <3> QED
        BY <3>2, <3>3
    <2>7. \A d, e \in Conn : rh'[d] = rh'[e] /\ rh'[d] # NULL => d = e
      BY <2>4, <2>5 DEF IInv, Ownership
    <2>8. \A k \in 1..Len(pool') : \A d \in Conn : pool'[k] # rh'[d]
      BY <2>3, <2>4, <2>6 DEF IInv, Ownership
    <2>9. \A k, l \in 1..Len(pool') : pool'[k] = pool'[l] => k = l
      <3> SUFFICES ASSUME NEW k \in 1..Len(pool'), NEW l \in 1..Len(pool'), pool'[k] = pool'[l]
                   PROVE  k = l
        OBVIOUS
      <3>1. pool[k + 1] = pool[l + 1] /\ k + 1 \in 1..Len(pool) /\ l + 1 \in 1..Len(pool)
        BY <2>3
      <3>2. k + 1 = l + 1
        BY <2>0, <3>1
      <3>3. k \in Nat /\ l \in Nat
        BY <1>1, <2>3
      <3> QED
        BY <3>2, <3>3
    <2>10. Cleanness'
      <3>1. \A k \in 1..Len(pool') : pool'[k] \notin dirty'
        BY <2>1, <2>3 DEF IInv, Cleanness
      <3>2. \A d \in Conn : phase'[d] = "new" => rh'[d] \notin dirty'
        BY <1>1, <2>1, <2>4 DEF IInv, Cleanness
      <3>3. \A x \in dirty' : \E d \in Conn : rh'[d] = x
        <4> SUFFICES ASSUME NEW x \in dirty PROVE \E d \in Conn : rh'[d] = x
          BY <2>1
        <4>1. PICK d \in Conn : rh[d] = x
          BY DEF IInv, Cleanness
        <4>2. d # c
          BY <4>1, <1>1, ProxyAssumption DEF ProxyAssumption
        <4> QED
          BY <4>1, <4>2, <2>4
      <3> QED
        BY <3>1, <3>2, <3>3 DEF Cleanness
    <2> QED
      BY <1>1, <2>1, <2>2, <2>3, <2>4, <2>7, <2>8, <2>9, <2>10 DEF Ownership
  <1>3. CASE pool = <<>>
    <2>1. PICK b \in Buf \ Held : rh' = [rh EXCEPT ![c] = b] /\ pool' = pool /\ dirty' = dirty
      BY <1>3 DEF allocate_history, pool, rh
    <2>2. b # NULL /\ \A d \in Conn : rh[d] # b
      BY <1>1, <2>1, ProxyAssumption DEF ProxyAssumption, Held, Owners, rh
    <2>3. rh' \in [Conn -> Buf \union {NULL}] /\ rh'[c] = b /\ \A d \in Conn \ {c} : rh'[d] = rh[d]
      BY <1>1, <2>1
    <2>4. Len(pool') = 0
      BY <1>3, <2>1
    <2>5. Ownership'
      BY <2>2, <2>3, <2>4 DEF IInv, Ownership
    <2>6. b \notin dirty
      BY <2>2 DEF IInv, Cleanness
    <2>7. Cleanness'
      <3>1. \A d \in Conn : phase'[d] = "new" => rh'[d] \notin dirty'
        BY <1>1, <2>1, <2>3, <2>6 DEF IInv, Cleanness
      <3>2. \A x \in dirty' : \E d \in Conn : rh'[d] = x
        <4> SUFFICES ASSUME NEW x \in dirty PROVE \E d \in Conn : rh'[d] = x
          BY <2>1
        <4>1. PICK d \in Conn : rh[d] = x
          BY DEF IInv, Cleanness
        <4>2. d # c
          BY <4>1, <1>1, ProxyAssumption DEF ProxyAssumption
        <4> QED
          BY <4>1, <4>2, <2>3
      <3> QED
        BY <2>4, <3>1, <3>2 DEF Cleanness
    <2> QED
      BY <1>1, <2>1, <2>3, <2>4, <2>5, <2>7
  <1> QED
    BY <1>2, <1>3

(* A connection is accepted below the limit. *)
LEMMA AcceptStep ==
    ASSUME IInv, NEW c \in Conn \ live, ~AtLimit,
           live' = live \union {c}, connection_count' = connection_count + 1,
           phase' = [phase EXCEPT ![c] = "new"], allocate_history(c), UNCHANGED <<loop, strays>>
    PROVE  IInv'
  <1>1. live \subseteq Conn /\ IsFiniteSet(live) /\ IsFiniteSet(Owners)
        /\ Cardinality(Owners) \in Nat /\ Cardinality(live) \in Nat
        /\ Cardinality(Owners) <= Cardinality(live)
    BY LiveFinite, OwnersFinite DEF IInv, TypeOK
  <1>2. /\ rh' \in [Conn -> Buf \union {NULL}]
        /\ rh'[c] \in Buf /\ \A d \in Conn \ {c} : rh'[d] = rh[d]
        /\ pool' \in Seq(Buf) /\ dirty' \subseteq Buf
        /\ Ownership' /\ Cleanness'
        /\ \/ Len(pool) > 0 /\ Len(pool') = Len(pool) - 1
           \/ Len(pool') = 0
    BY AllocateEffect
  <1>3. Cardinality(live') = Cardinality(live) + 1
    BY <1>1, FS_AddElement
  <1>4. connection_count = Cardinality(live) /\ connection_count < MAX_CONNECTION
    BY <1>1, ProxyAssumption DEF ProxyAssumption, IInv, CountExact, AtLimit
  <1>5. CountExact' /\ connection_count' \in Nat
    BY <1>1, <1>3, <1>4, ProxyAssumption DEF ProxyAssumption, CountExact
  <1>6. Owners' = Owners \union {c} /\ c \notin Owners
    BY <1>1, <1>2, ProxyAssumption DEF ProxyAssumption, Owners, rh
  <1>7. Cardinality(Owners') = Cardinality(Owners) + 1
    BY <1>1, <1>6, FS_AddElement
  <1>8. HistoryBudget'
    <2>1. Len(pool) \in Nat /\ Len(pool') \in Nat /\ MAX_HYBRID_POOL \in Nat /\ MAX_CONNECTION \in Nat
      BY <1>2, ProxyAssumption DEF ProxyAssumption, IInv, TypeOK, pool
    <2>2. Len(pool) <= MAX_HYBRID_POOL /\ Len(pool) + Cardinality(Owners) <= MAX_CONNECTION
      BY DEF IInv, HistoryBudget, pool
    <2>3. Len(pool') <= MAX_HYBRID_POOL /\ Len(pool') + Cardinality(Owners') <= MAX_CONNECTION
      BY <1>1, <1>2, <1>4, <1>7, <2>1, <2>2
    <2> QED
      BY <2>3 DEF HistoryBudget, pool
  <1>9. phase' \in [Conn -> Phases] /\ phase'[c] = "new" /\ \A d \in Conn \ {c} : phase'[d] = phase[d]
    BY DEF IInv, TypeOK, Phases, FastPhases
  <1>10. \A d \in Conn : rh'[d] # NULL <=> d \in live' /\ phase'[d] \in FastPhases
    BY <1>2, <1>9, ProxyAssumption DEF ProxyAssumption, IInv, TypeOK, rh, FastPhases
  <1>11. TypeOK'
    BY <1>1, <1>2, <1>5, <1>9, <1>10 DEF IInv, TypeOK, rh, pool, loop, strays
  <1> QED
    BY <1>2, <1>5, <1>8, <1>11 DEF IInv

(* Steps that leave connections and buffers alone. *)
LEMMA QuietStep ==
    ASSUME IInv, UNCHANGED <<conns, hists>>, todo' \subseteq live,
           proc' \in {"starting", "running", "monitor", "shutdown", "exited", "failed", "aborted"},
           lingering' \in 0..MaxLingering, leaked' \in 0..MaxLeaked
    PROVE  IInv'
  BY DEF IInv, TypeOK, CountExact, Ownership, Cleanness, HistoryBudget, Owners, rh, pool,
         conns, hists

(* fast_forward from the client writes to the connection's own history. *)
LEMMA HistoryStep ==
    ASSUME IInv, NEW c \in live, phase[c] \in {"new", "fast"},
           fast_forward_client(c)
    PROVE  IInv'
  <1>1. c \in Conn /\ rh[c] \in Buf
    BY DEF IInv, TypeOK, rh, FastPhases
  <1>2. \A k \in 1..Len(pool) : pool[k] # rh[c]
    BY <1>1 DEF IInv, Ownership
  <1>3. \A d \in Conn \ {c} : rh[d] # rh[c]
    BY <1>1, ProxyAssumption DEF ProxyAssumption, IInv, Ownership
  <1>4. /\ phase' \in [Conn -> Phases] /\ phase'[c] = "fast"
        /\ \A d \in Conn \ {c} : phase'[d] = phase[d]
        /\ rh' = rh /\ pool' = pool /\ dirty' \subseteq dirty \union {rh[c]}
        /\ UNCHANGED <<loop, live, connection_count, strays>>
    BY <1>1 DEF IInv, TypeOK, Phases, FastPhases, fast_forward_client, rh, pool
  <1>5. \A d \in Conn : rh[d] # NULL <=> d \in live /\ phase'[d] \in FastPhases
    BY <1>4 DEF IInv, TypeOK, rh, FastPhases
  <1>6. Cleanness'
    <2>1. \A k \in 1..Len(pool') : pool'[k] \notin dirty'
      BY <1>2, <1>4 DEF IInv, Cleanness
    <2>2. \A d \in Conn : phase'[d] = "new" => rh'[d] \notin dirty'
      BY <1>3, <1>4 DEF IInv, Cleanness
    <2>3. \A b \in dirty' : \E d \in Conn : rh'[d] = b
      BY <1>1, <1>4 DEF IInv, Cleanness
    <2> QED
      BY <2>1, <2>2, <2>3 DEF Cleanness
  <1>7. TypeOK'
    BY <1>1, <1>4, <1>5 DEF IInv, TypeOK, rh, pool, loop, strays
  <1>8. CountExact' /\ Ownership' /\ HistoryBudget'
    BY <1>4 DEF IInv, CountExact, Ownership, HistoryBudget, Owners, rh, pool
  <1> QED
    BY <1>6, <1>7, <1>8 DEF IInv

-----------------------------------------------------------------------------
(* Outside the loops no connection is waiting to be looked at, and before  *)
(* the event loop there is nothing at all.                                 *)
LoopIdle ==
    /\ proc \in {"starting", "running"} => todo = {}
    /\ proc = "starting" =>
         /\ live = {} /\ connection_count = 0 /\ dirty = {} /\ hybridbuf_pool = <<>>
         /\ request_history = [c \in Conn |-> NULL]

LEMMA LoopIdleStep == LoopIdle /\ [Next]_vars => LoopIdle'
  <1> SUFFICES ASSUME LoopIdle, [Next]_vars PROVE LoopIdle'
    OBVIOUS
  <1>1. CASE (proc = "running" /\ UNCHANGED loop) \/ abort_and_dump
    BY <1>1 DEF LoopIdle, loop, abort_and_dump
  <1>2. CASE monitor_starts \/ break_event_loop \/ loop_ends
    BY <1>2 DEF LoopIdle, monitor_starts, break_event_loop, loop_ends
  <1>3. CASE accept_refused \/ close_after_timeout
    BY <1>3, <1>1 DEF accept_refused, close_after_timeout
  <1>4. CASE UNCHANGED vars \/ main_starts
    BY <1>4 DEF vars, loop, conns, hists, LoopIdle, main_starts
  <1>5. ASSUME NEW c \in Conn, accept_new(c) \/ put_slow_mode(c) PROVE LoopIdle'
    BY <1>5, <1>1 DEF accept_new, put_slow_mode
  <1>6. ASSUME NEW c \in Conn, Callback(c) PROVE LoopIdle'
    BY <1>6, <1>1 DEF Callback, Client_on_readable, Server_on_readable, Client_on_writable,
                      Client_on_readable_new, Client_on_readable_fast, Client_on_readable_slow,
                      new_Server_fails, Become, LoseServer, Callback_deletes, fast_forward_client
  <1>7. ASSUME NEW c \in Conn, monitor_data_rates(c) \/ main_deletes(c) PROVE LoopIdle'
    BY <1>7, <1>1 DEF LoopIdle, monitor_data_rates, main_deletes
  <1> QED
    BY <1>2, <1>3, <1>4, <1>5, <1>6, <1>7 DEF Next

LEMMA AbortStep == ASSUME IInv, abort_and_dump PROVE IInv'
  <1>1. todo' \subseteq live /\ lingering' \in 0..MaxLingering /\ leaked' \in 0..MaxLeaked
    BY DEF IInv, TypeOK, abort_and_dump, strays
  <1> QED
    BY <1>1, QuietStep DEF abort_and_dump

(* The callbacks of one connection. *)
LEMMA CallbackStep == ASSUME IInv, LoopIdle, NEW c \in Conn, Callback(c) PROVE IInv'
  <1>1. c \in live /\ proc = "running" /\ todo = {}
    BY DEF Callback, LoopIdle
  <1>2. ASSUME NEW k \in Nat, NEW n \in Nat, delete_conn(c, k, n), UNCHANGED loop PROVE IInv'
    BY <1>1, <1>2, DeleteStep DEF loop
  <1>3. ASSUME NEW p \in {"fast", "reply", "idle", "busy", "final"},
               phase[c] \in FastPhases <=> p \in FastPhases,
               Become(c, p) \/ LoseServer(c, p)
        PROVE  IInv'
    BY <1>1, <1>3, PhaseStep DEF Phases, FastPhases
  <1>4. CASE new_Server_fails(c) \/ Callback_deletes(c)
    <2>1. Sockets(c) \in Nat
      BY DEF Sockets
    <2> QED
      BY <1>2, <1>4, <2>1, AbortStep DEF new_Server_fails, Callback_deletes
  <1>5. CASE Client_on_readable(c)
    <2>1. CASE phase[c] = "new" /\ Client_on_readable_new(c)
      BY <2>1, <1>1, <1>2, <1>4, HistoryStep DEF Client_on_readable_new
    <2>2. CASE phase[c] = "fast" /\ Client_on_readable_fast(c)
      BY <2>2, <1>1, <1>3, <1>4, HistoryStep DEF Client_on_readable_fast, FastPhases
    <2>3. CASE phase[c] = "idle" /\ Client_on_readable_slow(c)
      BY <2>3, <1>3, <1>4 DEF Client_on_readable_slow, FastPhases
    <2> QED
      BY <1>5, <2>1, <2>2, <2>3 DEF Client_on_readable
  <1>6. CASE Server_on_readable(c)
    BY <1>6, <1>3, <1>4 DEF Server_on_readable, FastPhases
  <1>7. CASE Client_on_writable(c)
    BY <1>7, <1>4 DEF Client_on_writable
  <1> QED
    BY <1>5, <1>6, <1>7 DEF Callback

(* The filled pool. *)
LEMMA StartStep == ASSUME IInv, LoopIdle, main_starts PROVE IInv'
  <1>1. todo = {} /\ lingering \in 0..MaxLingering /\ leaked \in 0..MaxLeaked
    BY DEF IInv, TypeOK, LoopIdle, main_starts
  <1>2. CASE proc' \in {"exited", "failed"} /\ UNCHANGED <<todo, conns, hists, strays>>
    BY <1>1, <1>2, QuietStep DEF strays
  <1>3. CASE /\ proc' = "running"
             /\ pool' \in {s \in [1..MAX_HYBRID_POOL -> Buf] : IsInjective(s)}
             /\ UNCHANGED <<todo, conns, request_history, dirty, strays>>
    <2>1. MAX_HYBRID_POOL \in Nat /\ MAX_CONNECTION \in Nat /\ MAX_HYBRID_POOL <= MAX_CONNECTION
      BY ProxyAssumption DEF ProxyAssumption
    <2>2. pool' \in Seq(Buf) /\ Len(pool') = MAX_HYBRID_POOL /\ IsInjective(pool')
      BY <1>3, <2>1
    <2>3. live' = {} /\ connection_count' = 0 /\ dirty' = {} /\ rh' = [c \in Conn |-> NULL]
      BY <1>3 DEF LoopIdle, main_starts, conns, rh
    <2>4. Owners' = {} /\ Cardinality(Owners') = 0 /\ Cardinality(live') = 0
      BY <2>3, FS_EmptySet DEF Owners
    <2>5. TypeOK'
      BY <1>1, <1>3, <2>2, <2>3 DEF IInv, TypeOK, pool, rh, conns, strays
    <2>6. Ownership'
      BY <2>2, <2>3, ProxyAssumption DEF ProxyAssumption, Ownership, IsInjective
    <2>7. Cleanness'
      BY <2>3 DEF Cleanness
    <2>8. CountExact' /\ HistoryBudget'
      BY <2>1, <2>2, <2>3, <2>4 DEF CountExact, HistoryBudget, pool
    <2> QED
      BY <2>5, <2>6, <2>7, <2>8 DEF IInv
  <1> QED
    BY <1>2, <1>3 DEF main_starts, pool

LEMMA StepIInv == IInv /\ LoopIdle /\ [Next]_vars => IInv'
  <1> SUFFICES ASSUME IInv, LoopIdle, [Next]_vars PROVE IInv'
    OBVIOUS
  <1>1. /\ todo \subseteq live /\ lingering \in 0..MaxLingering /\ leaked \in 0..MaxLeaked
        /\ proc \in {"starting", "running", "monitor", "shutdown", "exited", "failed", "aborted"}
    BY DEF IInv, TypeOK
  <1>2. CASE accept_refused
    <2>1. CASE abort_and_dump
      BY <2>1, AbortStep
    <2>2. CASE close_socket_gracefully(1) /\ UNCHANGED <<loop, conns, hists, leaked>>
      <3>1. lingering' \in 0..MaxLingering
        BY <2>2, <1>1, ProxyAssumption DEF ProxyAssumption, close_socket_gracefully
      <3> QED
        BY <2>2, <3>1, <1>1, QuietStep DEF loop
    <2> QED
      BY <1>2, <2>1, <2>2 DEF accept_refused
  <1>3. CASE close_after_timeout
    <2>1. lingering' \in 0..MaxLingering
      BY <1>3, <1>1, ProxyAssumption DEF ProxyAssumption, close_after_timeout
    <2> QED
      BY <1>3, <2>1, <1>1, QuietStep DEF close_after_timeout, loop
  <1>4. CASE monitor_starts \/ break_event_loop \/ loop_ends
    BY <1>4, <1>1, QuietStep DEF monitor_starts, break_event_loop, loop_ends, strays
  <1>5. CASE UNCHANGED vars
    BY <1>5, <1>1, QuietStep DEF vars, loop, strays
  <1>6. ASSUME NEW c \in Conn, accept_new(c) PROVE IInv'
    BY <1>6, AbortStep, AcceptStep DEF accept_new
  <1>7. ASSUME NEW c \in Conn, put_slow_mode(c) PROVE IInv'
    BY <1>1, <1>7, AbortStep, SlowStep DEF put_slow_mode, loop
  <1>8. ASSUME NEW c \in Conn, monitor_data_rates(c) PROVE IInv'
    <2>1. c \in live
      BY <1>1, <1>8 DEF monitor_data_rates
    <2>2. CASE delete_conn(c, Sockets(c), 0) /\ todo' = todo \ {c} /\ UNCHANGED proc
      BY <2>1, <2>2, <1>1, DeleteStep DEF Sockets
    <2>3. CASE set_slow_mode(c) /\ todo' = todo \ {c} /\ UNCHANGED <<proc, live, connection_count, strays>>
      BY <2>1, <2>3, <1>1, SlowStep
    <2>4. CASE todo' = todo \ {c} /\ UNCHANGED <<proc, conns, hists, strays>>
      BY <2>4, <1>1, QuietStep DEF strays
    <2> QED
      BY <1>8, <2>2, <2>3, <2>4, AbortStep DEF monitor_data_rates
  <1>9. ASSUME NEW c \in Conn, main_deletes(c) PROVE IInv'
    BY <1>1, <1>9, DeleteStep DEF main_deletes, Sockets
  <1> QED
    BY <1>2, <1>3, <1>4, <1>5, <1>6, <1>7, <1>8, <1>9, CallbackStep, StartStep DEF Next

LEMMA InitIInv == Init => IInv /\ LoopIdle
  <1> SUFFICES ASSUME Init PROVE IInv /\ LoopIdle
    OBVIOUS
  <1>1. pool = <<>> /\ pool \in Seq(Buf) /\ Len(pool) = 0
    BY DEF Init, pool
  <1>2. Owners = {} /\ Cardinality(Owners) = 0 /\ Cardinality(live) = 0
    BY FS_EmptySet DEF Init, Owners
  <1>3. TypeOK
    BY <1>1, ProxyAssumption DEF ProxyAssumption, Init, TypeOK, Phases, FastPhases, pool
  <1>4. Ownership /\ Cleanness
    BY <1>1 DEF Init, Ownership, Cleanness, rh
  <1>5. CountExact /\ HistoryBudget
    BY <1>1, <1>2, ProxyAssumption DEF ProxyAssumption, Init, CountExact, HistoryBudget, pool
  <1> QED
    BY <1>3, <1>4, <1>5 DEF IInv, Init, LoopIdle

LEMMA AlwaysIInv == Spec => []IInv
  BY InitIInv, StepIInv, LoopIdleStep, PTL DEF Spec

(* The loops over get_all_connections (monitor, shutdown) hold no deleted  *)
(* connection, and exactly the connections in fast mode own a history.     *)
THEOREM TypeCorrect == Spec => []TypeOK
  <1>1. IInv => TypeOK
    BY DEF IInv
  <1> QED
    BY <1>1, AlwaysIInv, PTL

(* connection_count is exact and MAX_CONNECTION holds (accept_new,         *)
(* ~Connection).                                                           *)
THEOREM CountIsExact == Spec => []CountExact
  <1>1. IInv => CountExact
    BY DEF IInv
  <1> QED
    BY <1>1, AlwaysIInv, PTL

(* No two owners share a history buffer (Client::Client,                   *)
(* release_request_history).                                               *)
THEOREM HistoriesArePrivate == Spec => []HistoryIsPrivate
  <1>1. IInv => HistoryIsPrivate
    <2> SUFFICES ASSUME IInv PROVE HistoryIsPrivate
      OBVIOUS
    <2>1. live \subseteq Conn /\ pool \in Seq(Buf) /\ DOMAIN pool = 1..Len(pool)
      BY DEF IInv, TypeOK, pool
    <2>2. \A k \in DOMAIN pool : pool[k] \notin Held
      BY <2>1 DEF IInv, Ownership, Held, Owners, rh
    <2>3. IsInjective(pool)
      BY <2>1 DEF IInv, Ownership, IsInjective
    <2> QED
      BY <2>1, <2>2, <2>3 DEF IInv, Ownership, HistoryIsPrivate, rh, pool
  <1> QED
    BY <1>1, AlwaysIInv, PTL

(* Nobody starts with another's data in the history. *)
THEOREM HistoriesAreClean == Spec => []HistoryIsClean
  <1>1. IInv => HistoryIsClean
    <2> SUFFICES ASSUME IInv PROVE HistoryIsClean
      OBVIOUS
    <2>1. live \subseteq Conn /\ pool \in Seq(Buf) /\ DOMAIN pool = 1..Len(pool)
      BY DEF IInv, TypeOK, pool
    <2> QED
      BY <2>1 DEF IInv, Cleanness, HistoryIsClean, Range, rh, pool
  <1> QED
    BY <1>1, AlwaysIInv, PTL

(* Pool and connections never have more history files than                 *)
(* MAX_CONNECTION (ls_proxy.h:138).                                        *)
THEOREM HistoriesWithinBudget == Spec => []HistoryBudget
  <1>1. IInv => HistoryBudget
    BY DEF IInv
  <1> QED
    BY <1>1, AlwaysIInv, PTL
-----------------------------------------------------------------------------
(* Descriptors of the connections: a connection is in fast mode, with a    *)
(* history, or in slow mode, with four files; each has a server at most.   *)
LEMMA ConnectionFds ==
    ASSUME IInv
    PROVE  /\ Cardinality(live) \in 0..MAX_CONNECTION
           /\ Cardinality(Owners) \in Nat /\ Cardinality(Slow) \in Nat
           /\ Cardinality(Serving) \in 0..Cardinality(live)
           /\ Cardinality(live) = Cardinality(Owners) + Cardinality(Slow)
           /\ Len(hybridbuf_pool) \in 0..MAX_HYBRID_POOL
           /\ MAX_HYBRID_POOL \in Nat /\ MAX_CONNECTION \in Nat
  <1>1. live \subseteq Conn /\ IsFiniteSet(live) /\ Cardinality(live) \in Nat
    BY LiveFinite, FS_CardinalityType DEF IInv, TypeOK
  <1>2. Owners \in SUBSET live /\ Slow \in SUBSET live /\ Serving \in SUBSET live
    BY DEF Owners, Slow, Serving
  <1>3. /\ IsFiniteSet(Owners) /\ IsFiniteSet(Slow) /\ IsFiniteSet(Serving)
        /\ Cardinality(Serving) <= Cardinality(live)
    BY <1>1, <1>2, FS_Subset
  <1>4. Cardinality(Owners) \in Nat /\ Cardinality(Slow) \in Nat /\ Cardinality(Serving) \in Nat
    BY <1>3, FS_CardinalityType
  <1>5. live = Owners \union Slow /\ Owners \intersect Slow = {}
    BY <1>1 DEF IInv, TypeOK, Owners, Slow, HasFiles
  <1>6. Cardinality(live) = Cardinality(Owners) + Cardinality(Slow)
    <2>1. Cardinality(Owners \union Slow)
            = Cardinality(Owners) + Cardinality(Slow) - Cardinality(Owners \intersect Slow)
      BY <1>3, FS_Union
    <2>2. Cardinality(Owners \intersect Slow) = 0
      BY <1>5, FS_EmptySet
    <2> QED
      BY <1>4, <1>5, <2>1, <2>2
  <1>7. MAX_HYBRID_POOL \in Nat /\ MAX_CONNECTION \in Nat
    BY ProxyAssumption DEF ProxyAssumption
  <1>8. Len(hybridbuf_pool) \in Nat /\ Len(hybridbuf_pool) <= MAX_HYBRID_POOL
    BY DEF IInv, TypeOK, HistoryBudget
  <1>9. Cardinality(live) <= MAX_CONNECTION
    BY DEF IInv, CountExact
  <1> QED
    BY <1>1, <1>3, <1>4, <1>6, <1>7, <1>8, <1>9

(* While nothing lingers and nothing has leaked: room for the socket and   *)
(* the 503 page of a refused connection, and for those of a new one.       *)
LEMMA RoomToAccept ==
    ASSUME IInv, lingering = 0, leaked = 0
    PROVE  CanOpen(2) /\ CanOpen(1)
  <1> DEFINE n == Cardinality(live)
             s == Cardinality(Slow)
             v == Cardinality(Serving)
             o == Cardinality(Owners)
             p == Len(hybridbuf_pool)
  <1>1. /\ n \in 0..MAX_CONNECTION /\ o \in Nat /\ s \in Nat /\ v \in 0..n
        /\ n = o + s /\ p \in 0..MAX_HYBRID_POOL
        /\ MAX_HYBRID_POOL \in Nat /\ MAX_CONNECTION \in Nat
    BY ConnectionFds
  <1>2. Fds = 7 + p + o + n + v + 4 * s
    BY <1>1 DEF Fds
  <1> HIDE DEF n, s, v, o, p
  <1> QED
    BY <1>1, <1>2, PoolAssumption DEF PoolAssumption, CanOpen, MAX_FILE_DSC

(* ... room for the four files of a connection that becomes slow ...       *)
LEMMA RoomToSlowDown ==
    ASSUME IInv, lingering = 0, leaked = 0, NEW c \in live, phase[c] \in FastPhases
    PROVE  CanOpen(4)
  <1> DEFINE n == Cardinality(live)
             s == Cardinality(Slow)
             v == Cardinality(Serving)
             o == Cardinality(Owners)
             p == Len(hybridbuf_pool)
  <1>1. /\ n \in 0..MAX_CONNECTION /\ o \in Nat /\ s \in Nat /\ v \in 0..n
        /\ n = o + s /\ p \in 0..MAX_HYBRID_POOL
        /\ MAX_HYBRID_POOL \in Nat /\ MAX_CONNECTION \in Nat
    BY ConnectionFds
  <1>2. Fds = 7 + p + o + n + v + 4 * s
    BY <1>1 DEF Fds
  <1>3. o # 0
    <2>1. c \in Owners
      BY DEF IInv, TypeOK, Owners
    <2>2. IsFiniteSet(Owners)
      BY OwnersFinite DEF IInv, TypeOK
    <2> QED
      BY <2>1, <2>2, FS_EmptySet
  <1> HIDE DEF n, s, v, o, p
  <1> QED
    BY <1>1, <1>2, <1>3, PoolAssumption DEF PoolAssumption, CanOpen, MAX_FILE_DSC

(* Without lingering sockets and leaked descriptors nothing aborts. *)
LEMMA AbortNeedsStrays ==
    ASSUME IInv, BudgetCoversConnections, [Next]_vars
    PROVE  BudgetCoversConnections'
  <1>1. lingering \in Nat /\ leaked \in Nat
    BY ProxyAssumption DEF ProxyAssumption, IInv, TypeOK
  <1>2. SUFFICES ASSUME proc' = "aborted" PROVE lingering' + leaked' > 0
    BY DEF BudgetCoversConnections
  <1>3. CASE UNCHANGED vars
    BY <1>2, <1>3 DEF vars, loop, strays, BudgetCoversConnections
  <1>4. CASE /\ abort_and_dump
             /\ \/ ~CanOpen(2) \/ ~CanOpen(1)
                \/ ~CanOpen(4) /\ \E c \in live : phase[c] \in FastPhases
    BY <1>1, <1>4, RoomToAccept, RoomToSlowDown DEF abort_and_dump, strays
  <1>5. CASE \/ main_starts \/ accept_refused \/ close_after_timeout
             \/ monitor_starts \/ break_event_loop \/ loop_ends
    BY <1>2, <1>4, <1>5 DEF main_starts, accept_refused, close_after_timeout, monitor_starts,
                            break_event_loop, loop_ends, loop
  <1>6. ASSUME NEW c \in Conn, accept_new(c) PROVE lingering' + leaked' > 0
    BY <1>2, <1>4, <1>6 DEF accept_new, loop
  <1>7. ASSUME NEW c \in Conn, Callback(c) PROVE lingering' + leaked' > 0
    <2>1. ~UNCHANGED loop
      BY <1>2, <1>7 DEF Callback, loop
    <2>2. new_Server_fails(c)
      BY <1>7, <2>1 DEF Callback, Client_on_readable, Server_on_readable, Client_on_writable,
                        Client_on_readable_new, Client_on_readable_fast, Client_on_readable_slow,
                        Become, LoseServer, Callback_deletes, fast_forward_client
    <2> QED
      BY <1>4, <2>1, <2>2 DEF new_Server_fails
  <1>8. ASSUME NEW c \in Conn, put_slow_mode(c) PROVE lingering' + leaked' > 0
    BY <1>2, <1>4, <1>8 DEF put_slow_mode, loop
  <1>9. ASSUME NEW c \in Conn, monitor_data_rates(c) \/ main_deletes(c)
        PROVE  lingering' + leaked' > 0
    <2>1. c \in live
      BY <1>9 DEF IInv, TypeOK, monitor_data_rates, main_deletes
    <2> QED
      BY <1>2, <1>4, <1>9, <2>1 DEF monitor_data_rates, main_deletes
  <1> QED
    BY <1>3, <1>5, <1>6, <1>7, <1>8, <1>9 DEF Next

(* The 7n + 7 descriptors of ls_proxy.h:135 cover the connections: the     *)
(* process gives up only with sockets lingering or descriptors leaked.     *)
THEOREM BudgetIsEnough == Spec => []BudgetCoversConnections
  <1>1. Init => BudgetCoversConnections
    BY DEF Init, BudgetCoversConnections
  <1> QED
    BY <1>1, AlwaysIInv, AbortNeedsStrays, PTL DEF Spec
=============================================================================
