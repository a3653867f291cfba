-------------------------- MODULE LocalAddrProofs --------------------------
(* Proofs about LocalAddr, for every number of hosts and every range of    *)
(* ports: the address stays in its range, a search that fails has really   *)
(* been through the whole circle, and no search tries an address twice.    *)
EXTENDS LocalAddr, FiniteSetTheorems, TLAPS

(* The number of ports, and an address's place in the circle. *)
P == PortHi - PortLo + 1
Pos(h, p) == (h - 1) * P + (p - PortLo)

(* How many steps next_local_addr needs from <<h, p>> to <<g, q>>. *)
Ahead(h, p, g, q) ==
    IF Pos(g, q) > Pos(h, p) THEN Pos(g, q) - Pos(h, p)
    ELSE Pos(g, q) - Pos(h, p) + total_local_addr

(* How many addresses the search has tried. *)
Rounds == IF state = "failed" THEN i + 1 ELSE i

(* What has not been tried is at most as far ahead as there are addresses  *)
(* left to try.                                                            *)
Circle ==
    state \in {"probing", "failed"} =>
        \A g \in Hosts, q \in Ports :
            <<g, q>> \notin tried => Ahead(host, port, g, q) <= total_local_addr - Rounds

(* A search has passed over none of the addresses that stayed free. *)
FreeUntried ==
    /\ free \intersect used = {}
    /\ state \in {"probing", "failed"} => free \intersect tried = {}

(* A search that failed has used up its rounds. *)
FailedLate == state = "failed" => i = total_local_addr - 1

IInv == TypeOK /\ Circle /\ FreeUntried /\ FailedLate

LEMMA PIsNat == P \in Nat \ {0} /\ PortHi = PortLo + P - 1 /\ total_local_addr = (Octet - 1) * P
  BY LocalAddrAssumption DEF LocalAddrAssumption, P, total_local_addr

LEMMA Product == ASSUME NEW k \in Nat, NEW n \in Nat PROVE k * n \in Nat /\ (k >= 1 => k * n >= n)
  OBVIOUS

(* Places are 0 to N - 1, and different addresses have different places. *)
LEMMA PosRange ==
    ASSUME NEW h \in Hosts, NEW p \in Ports
    PROVE  Pos(h, p) \in 0..(total_local_addr - 1)
  <1>1. h - 1 \in Nat /\ Octet - 1 - h \in Nat /\ P \in Nat \ {0} /\ p - PortLo \in 0..(P - 1)
    BY LocalAddrAssumption, PIsNat DEF LocalAddrAssumption, Hosts, Ports
  <1>2. (h - 1) * P \in Nat /\ (Octet - 1 - h) * P \in Nat
    BY <1>1, Product
  <1>3. (Octet - 1 - h) * P = (Octet - 1) * P - (h - 1) * P - P
    BY <1>1, LocalAddrAssumption DEF LocalAddrAssumption, Hosts
  <1>4. total_local_addr = (Octet - 1) * P /\ (Octet - 1) * P \in Nat
    BY PIsNat, Product, LocalAddrAssumption DEF LocalAddrAssumption
  <1> QED
    BY <1>1, <1>2, <1>3, <1>4 DEF Pos

LEMMA PosInjective ==
    ASSUME NEW h \in Hosts, NEW p \in Ports, NEW g \in Hosts, NEW q \in Ports,
           Pos(h, p) = Pos(g, q)
    PROVE  h = g /\ p = q
  <1> DEFINE x == p - PortLo  y == q - PortLo
  <1>1. P \in Nat \ {0} /\ x \in 0..(P - 1) /\ y \in 0..(P - 1) /\ h \in Nat /\ g \in Nat
    BY LocalAddrAssumption, PIsNat DEF LocalAddrAssumption, Hosts, Ports
  <1>2. (h - 1) * P + x = (g - 1) * P + y
    BY DEF Pos
  <1>3. (h - g) * P = y - x /\ (g - h) * P = x - y
    BY <1>1, <1>2
  <1>4. ASSUME h > g PROVE FALSE
    <2>1. h - g \in Nat /\ h - g >= 1
      BY <1>1, <1>4
    <2>2. (h - g) * P >= P
      BY <2>1, <1>1, Product
    <2> QED
      BY <2>2, <1>1, <1>3
  <1>5. ASSUME g > h PROVE FALSE
    <2>1. g - h \in Nat /\ g - h >= 1
      BY <1>1, <1>5
    <2>2. (g - h) * P >= P
      BY <2>1, <1>1, Product
    <2> QED
      BY <2>2, <1>1, <1>3
  <1>6. h = g
    BY <1>1, <1>4, <1>5
  <1>7. x = y
    BY <1>1, <1>2, <1>6
  <1> QED
    BY <1>6, <1>7, LocalAddrAssumption DEF LocalAddrAssumption, Ports

(* NextAddr stays in range and moves one place on, or back to the first.   *)
LEMMA NextRange ==
    ASSUME NEW h \in Hosts, NEW p \in Ports
    PROVE  NextAddr(h, p) \in Addresses
  <1>1. NextHost(h) \in Hosts
    BY LocalAddrAssumption DEF LocalAddrAssumption, NextHost, Hosts
  <1> QED
    BY <1>1, LocalAddrAssumption DEF LocalAddrAssumption, NextAddr, Addresses, Ports

LEMMA NextHostIs ==
    ASSUME NEW h \in Hosts
    PROVE  NextHost(h) = IF h = Octet - 1 THEN 1 ELSE h + 1
  BY LocalAddrAssumption DEF LocalAddrAssumption, NextHost, Hosts

LEMMA NextPos ==
    ASSUME NEW h \in Hosts, NEW p \in Ports, NEW g, NEW q, NextAddr(h, p) = <<g, q>>
    PROVE  Pos(g, q) = IF Pos(h, p) = total_local_addr - 1 THEN 0 ELSE Pos(h, p) + 1
  <1>1. P \in Nat \ {0} /\ PortHi = PortLo + P - 1 /\ h \in Nat /\ p \in Nat /\ PortLo \in Nat
        /\ Octet \in Nat /\ p <= PortHi /\ h <= Octet - 1 /\ total_local_addr = (Octet - 1) * P
    BY LocalAddrAssumption, PIsNat DEF LocalAddrAssumption, Hosts, Ports
  <1>2. Pos(h, p) \in 0..(total_local_addr - 1)
    BY PosRange
  <1>3. CASE p < PortHi
    <2>1. g = h /\ q = p + 1 /\ q \in Ports
      BY <1>1, <1>3 DEF NextAddr, Ports
    <2>2. Pos(g, q) = Pos(h, p) + 1
      BY <1>1, <2>1 DEF Pos
    <2>3. Pos(g, q) \in 0..(total_local_addr - 1)
      BY <2>1, PosRange
    <2> QED
      BY <2>2, <2>3, <1>2
  <1>4. CASE p = PortHi /\ h = Octet - 1
    <2>1. g = 1 /\ q = PortLo
      BY <1>1, <1>4, NextHostIs DEF NextAddr
    <2>2. Pos(g, q) = 0
      BY <1>1, <2>1 DEF Pos
    <2>3. (Octet - 2) * P + P = (Octet - 1) * P
      BY <1>1
    <2>4. Pos(h, p) = total_local_addr - 1
      BY <1>1, <1>4, <2>3 DEF Pos
    <2> QED
      BY <2>2, <2>4
  <1>5. CASE p = PortHi /\ h < Octet - 1
    <2>1. g = h + 1 /\ q = PortLo
      BY <1>1, <1>5, NextHostIs DEF NextAddr
    <2>2. g \in Hosts /\ q \in Ports
      BY <1>1, <1>5, <2>1 DEF Hosts, Ports
    <2>3. h * P = (h - 1) * P + P
      BY <1>1
    <2>4. Pos(g, q) = Pos(h, p) + 1
      BY <1>1, <1>5, <2>1, <2>3 DEF Pos
    <2>5. Pos(g, q) \in 0..(total_local_addr - 1)
      BY <2>2, PosRange
    <2> QED
      BY <2>4, <2>5, <1>2
  <1> QED
    BY <1>1, <1>3, <1>4, <1>5

(* One step brings every address except the next one a step closer. *)
LEMMA Closer ==
    ASSUME NEW h \in Hosts, NEW p \in Ports, NEW g \in Hosts, NEW q \in Ports,
           NEW h2, NEW p2, NextAddr(h, p) = <<h2, p2>>, <<g, q>> # <<h2, p2>>
    PROVE  Ahead(h2, p2, g, q) = Ahead(h, p, g, q) - 1
  <1>1. h2 \in Hosts /\ p2 \in Ports
    BY NextRange DEF Addresses
  <1>2. Pos(g, q) # Pos(h2, p2)
    BY <1>1, PosInjective
  <1>3. Pos(h2, p2) = IF Pos(h, p) = total_local_addr - 1 THEN 0 ELSE Pos(h, p) + 1
    BY NextPos
  <1>4. /\ Pos(h, p) \in 0..(total_local_addr - 1) /\ Pos(g, q) \in 0..(total_local_addr - 1)
        /\ Pos(h2, p2) \in 0..(total_local_addr - 1)
    BY <1>1, PosRange
  <1>5. total_local_addr \in Nat
    BY PIsNat, Product, LocalAddrAssumption DEF LocalAddrAssumption
  <1> QED
    BY <1>2, <1>3, <1>4, <1>5 DEF Ahead

-----------------------------------------------------------------------------
LEMMA TotalIsNat == total_local_addr \in Nat \ {0}
  <1>1. Octet - 1 \in Nat /\ Octet - 1 >= 1 /\ P \in Nat \ {0}
    BY PIsNat, LocalAddrAssumption DEF LocalAddrAssumption
  <1>2. (Octet - 1) * P \in Nat /\ (Octet - 1) * P >= P
    BY <1>1, Product
  <1> QED
    BY <1>1, <1>2, PIsNat

LEMMA AheadBound ==
    ASSUME NEW h \in Hosts, NEW p \in Ports, NEW g \in Hosts, NEW q \in Ports
    PROVE  Ahead(h, p, g, q) \in 1..total_local_addr
  <1>1. Pos(h, p) \in 0..(total_local_addr - 1) /\ Pos(g, q) \in 0..(total_local_addr - 1)
    BY PosRange
  <1> QED
    BY <1>1, TotalIsNat DEF Ahead

LEMMA InitIInv == Init => IInv
  BY TotalIsNat, LocalAddrAssumption
  DEF LocalAddrAssumption, Init, IInv, TypeOK, Circle, FreeUntried, FailedLate, Hosts, Ports

(* A search begins: everything is at most a full circle ahead. *)
LEMMA BeginStep == ASSUME IInv, connect_TCP PROVE IInv'
  <1> USE DEF connect_TCP
  <1>1. TypeOK'
    BY TotalIsNat DEF IInv, TypeOK
  <1>2. Circle'
    <2>1. host \in Hosts /\ port \in Ports
      BY DEF IInv, TypeOK
    <2>2. Rounds' = 0
      BY DEF Rounds
    <2>3. \A g \in Hosts, q \in Ports : Ahead(host, port, g, q) <= total_local_addr - 0
      BY <2>1, AheadBound, TotalIsNat
    <2> QED
      BY <2>2, <2>3 DEF Circle, Ahead
  <1>3. FreeUntried' /\ FailedLate'
    BY DEF FreeUntried, FailedLate
  <1> QED
    BY <1>1, <1>2, <1>3 DEF IInv

(* A round of the loop. *)
LEMMA ProbeStep == ASSUME IInv, probe PROVE IInv'
  <1> DEFINE a == NextAddr(host, port)
  <1>1. host \in Hosts /\ port \in Ports /\ i \in 0..(total_local_addr - 1)
    BY DEF IInv, TypeOK
  <1>2. a \in Addresses /\ a = <<host', port'>>
    BY <1>1, NextRange DEF probe, Addresses
  <1>3. host' \in Hosts /\ port' \in Ports
    BY <1>2 DEF Addresses
  <1>4. state = "probing" /\ tried' = tried \union {a}
    BY DEF probe
  <1>5. \A g \in Hosts, q \in Ports :
          <<g, q>> \notin tried' => Ahead(host', port', g, q) <= total_local_addr - i - 1
    <2> SUFFICES ASSUME NEW g \in Hosts, NEW q \in Ports, <<g, q>> \notin tried'
                 PROVE  Ahead(host', port', g, q) <= total_local_addr - i - 1
      OBVIOUS
    <2>1. <<g, q>> \notin tried /\ <<g, q>> # <<host', port'>>
      BY <1>2, <1>4
    <2>2. Ahead(host', port', g, q) = Ahead(host, port, g, q) - 1
      BY <1>1, <1>2, <2>1, Closer
    <2>3. Ahead(host, port, g, q) <= total_local_addr - i
      BY <2>1, <1>4 DEF IInv, Circle, Rounds
    <2>4. Ahead(host, port, g, q) \in 1..total_local_addr
      BY <1>1, AheadBound
    <2> QED
      BY <1>1, <2>2, <2>3, <2>4, TotalIsNat
  <1>6. CASE a \notin used /\ state' = "bound" /\ used' = used \union {a} /\ free' = free \ {a} /\ i' = i
    BY <1>1, <1>2, <1>3, <1>4, <1>6
    DEF IInv, TypeOK, Circle, FreeUntried, FailedLate
  <1>7. CASE a \in used /\ i < total_local_addr - 1 /\ i' = i + 1 /\ UNCHANGED <<state, used, free>>
    <2>1. TypeOK' /\ FreeUntried' /\ FailedLate'
      BY <1>1, <1>2, <1>3, <1>4, <1>7, TotalIsNat
      DEF IInv, TypeOK, FreeUntried, FailedLate
    <2>2. Rounds' = i + 1
      BY <1>4, <1>7 DEF Rounds
    <2>3. Circle'
      BY <1>1, <1>5, <2>2, TotalIsNat DEF Circle, Ahead
    <2> QED
      BY <2>1, <2>3 DEF IInv
  <1>8. CASE a \in used /\ i >= total_local_addr - 1 /\ state' = "failed" /\ UNCHANGED <<i, used, free>>
    <2>1. TypeOK' /\ FreeUntried' /\ FailedLate'
      BY <1>1, <1>2, <1>3, <1>4, <1>8, TotalIsNat
      DEF IInv, TypeOK, FreeUntried, FailedLate
    <2>2. Rounds' = i + 1
      BY <1>8 DEF Rounds
    <2>3. Circle'
      BY <1>1, <1>5, <2>2, TotalIsNat DEF Circle, Ahead
    <2> QED
      BY <2>1, <2>3 DEF IInv
  <1> QED
    BY <1>6, <1>7, <1>8 DEF probe

(* Others change neither the address nor what has been tried. *)
LEMMA OthersStep ==
    ASSUME IInv, NEW a \in Addresses, Others_bind(a) \/ Others_release(a)
    PROVE  IInv'
  <1>1. UNCHANGED <<host, port, state, i, tried>>
    BY DEF Others_bind, Others_release
  <1>2. Circle' /\ FailedLate'
    BY <1>1 DEF IInv, Circle, FailedLate, Rounds, Ahead
  <1>3. TypeOK' /\ FreeUntried'
    BY <1>1 DEF IInv, TypeOK, FreeUntried, Others_bind, Others_release
  <1> QED
    BY <1>2, <1>3 DEF IInv

LEMMA NextIInv == IInv /\ [Next]_vars => IInv'
  <1> SUFFICES ASSUME IInv, [Next]_vars PROVE IInv'
    OBVIOUS
  <1>1. CASE UNCHANGED vars
    BY <1>1 DEF vars, IInv, TypeOK, Circle, FreeUntried, FailedLate, Rounds, Ahead
  <1> QED
    BY <1>1, BeginStep, ProbeStep, OthersStep DEF Next

LEMMA AlwaysIInv == Spec => []IInv
  BY InitIInv, NextIInv, PTL DEF Spec

(* The address stays within 127.0.0.[1-255] : [4100-65100], for every      *)
(* octet width and port range (next_local_addr).                           *)
THEOREM AddressInRange == Spec => []TypeOK
  <1>1. IInv => TypeOK
    BY DEF IInv
  <1> QED
    BY <1>1, AlwaysIInv, PTL

(* A search that gives up has tried every address, so none was free for    *)
(* its whole duration (connect_TCP, ls_proxy.cpp:121-130).                 *)
THEOREM FailureIsReal == Spec => []FailsOnlyWhenFull
  <1>1. IInv => FailsOnlyWhenFull
    <2> SUFFICES ASSUME IInv, state = "failed", NEW a \in free PROVE FALSE
      BY DEF FailsOnlyWhenFull
    <2>1. PICK g \in Hosts, q \in Ports : a = <<g, q>>
      BY DEF IInv, TypeOK, Addresses
    <2>2. <<g, q>> \notin tried
      BY <2>1 DEF IInv, FreeUntried
    <2>3. Rounds = total_local_addr /\ host \in Hosts /\ port \in Ports
      BY TotalIsNat DEF IInv, FailedLate, Rounds, TypeOK
    <2>4. Ahead(host, port, g, q) <= total_local_addr - total_local_addr
      BY <2>2, <2>3 DEF IInv, Circle
    <2>5. Ahead(host, port, g, q) \in 1..total_local_addr
      BY <2>3, AheadBound
    <2> QED
      BY <2>4, <2>5, TotalIsNat
  <1> QED
    BY <1>1, AlwaysIInv, PTL
-----------------------------------------------------------------------------
(* How many addresses a search has tried, also one that found its own. *)
Tries == i + (IF state = "probing" THEN 0 ELSE 1)

(* What has been tried lies behind: all but a full circle ahead. *)
Behind ==
    state # "idle" =>
        \A g \in Hosts, q \in Ports :
            <<g, q>> \in tried => Ahead(host, port, g, q) > total_local_addr - Tries

Counted == IsFiniteSet(tried) /\ (state # "idle" => Cardinality(tried) = Tries)

LEMMA NextIsOneAhead ==
    ASSUME NEW h \in Hosts, NEW p \in Ports, NEW g \in Hosts, NEW q \in Ports,
           NextAddr(h, p) = <<g, q>>
    PROVE  Ahead(h, p, g, q) = 1 /\ Ahead(g, q, g, q) = total_local_addr
  <1>1. /\ Pos(h, p) \in 0..(total_local_addr - 1)
        /\ Pos(g, q) \in 0..(total_local_addr - 1)
        /\ Pos(g, q) = IF Pos(h, p) = total_local_addr - 1 THEN 0 ELSE Pos(h, p) + 1
    BY PosRange, NextPos
  <1> QED
    BY <1>1, TotalIsNat DEF Ahead

LEMMA ProbeCounts == ASSUME IInv, Behind, Counted, probe PROVE Behind' /\ Counted'
  <1> DEFINE a == NextAddr(host, port)
  <1>1. host \in Hosts /\ port \in Ports /\ i \in 0..(total_local_addr - 1)
    BY DEF IInv, TypeOK
  <1>2. a \in Addresses /\ a = <<host', port'>>
    BY <1>1, NextRange DEF probe, Addresses
  <1>3. host' \in Hosts /\ port' \in Ports
    BY <1>2 DEF Addresses
  <1>4. state = "probing" /\ tried' = tried \union {a} /\ Tries = i /\ Tries' = i + 1
    BY <1>1 DEF probe, Tries
  <1>5. a \notin tried
    <2>1. Ahead(host, port, host', port') = 1
      BY <1>1, <1>2, <1>3, NextIsOneAhead
    <2>2. ~(1 > total_local_addr - i)
      BY <1>1, TotalIsNat
    <2> QED
      BY <1>2, <1>3, <1>4, <2>1, <2>2 DEF Behind
  <1>6. Counted'
    BY <1>4, <1>5, FS_AddElement DEF Counted
  <1>7. ASSUME NEW g \in Hosts, NEW q \in Ports, <<g, q>> \in tried'
        PROVE  Ahead(host', port', g, q) > total_local_addr - Tries'
    <2>1. CASE <<g, q>> = <<host', port'>>
      <3>1. Ahead(host', port', g, q) = total_local_addr
        BY <2>1, <1>1, <1>2, <1>3, NextIsOneAhead
      <3> QED
        BY <3>1, <1>1, <1>4, TotalIsNat
    <2>2. CASE <<g, q>> # <<host', port'>>
      <3>1. Ahead(host', port', g, q) = Ahead(host, port, g, q) - 1
        BY <2>2, <1>1, <1>2, Closer
      <3>2. Ahead(host, port, g, q) > total_local_addr - i
        BY <1>2, <1>4, <1>7, <2>2 DEF Behind
      <3>3. Ahead(host, port, g, q) \in 1..total_local_addr
        BY <1>1, AheadBound
      <3> QED
        BY <3>1, <3>2, <3>3, <1>1, <1>4, TotalIsNat
    <2> QED
      BY <2>1, <2>2
  <1>8. Behind'
    BY <1>7 DEF Behind, Ahead
  <1> QED
    BY <1>6, <1>8

LEMMA NextCounts == IInv /\ Behind /\ Counted /\ [Next]_vars => Behind' /\ Counted'
  <1> SUFFICES ASSUME IInv, Behind, Counted, [Next]_vars PROVE Behind' /\ Counted'
    OBVIOUS
  <1>1. CASE connect_TCP
    BY <1>1, FS_EmptySet DEF connect_TCP, Behind, Counted, Tries
  <1>2. CASE probe
    BY <1>2, ProbeCounts
  <1>3. CASE UNCHANGED <<host, port, state, i, tried>>
    BY <1>3 DEF Behind, Counted, Tries, Ahead
  <1> QED
    BY <1>1, <1>2, <1>3 DEF Next, Others_bind, Others_release, vars

(* A search tries no address twice, for every octet width and port range:  *)
(* what has been tried is exactly what next_local_addr has passed, so the  *)
(* next address is new until the circle is complete.                       *)
THEOREM EachTriedOnce == Spec => []NoneTriedTwice
  <1>1. Init => Behind /\ Counted
    BY FS_EmptySet DEF Init, Behind, Counted
  <1>2. Counted => NoneTriedTwice
    BY DEF Counted, Tries, NoneTriedTwice
  <1> QED
    BY <1>1, <1>2, AlwaysIInv, NextCounts, PTL DEF Spec
=============================================================================
