----------------------------- MODULE LocalAddr -----------------------------
(***************************************************************************)
(* connect_TCP's search for a free local address 127.0.0.host:port.        *)
(* next_local_addr walks through all of them in a circle; the 32-bit       *)
(* addition that moves it to the next host wraps in the last octet.  Other *)
(* sockets and processes take and release addresses at any time.           *)
(***************************************************************************)
EXTENDS Integers, FiniteSets

CONSTANTS
    Octet,              \* number of values of the last octet (256)
    PortLo, PortHi      \* the range of ports (4100 to 65100)

ASSUME LocalAddrAssumption ==
    /\ Octet \in Nat \ {0, 1}
    /\ PortLo \in Nat /\ PortHi \in Nat /\ PortLo <= PortHi

VARIABLES
    host, port,         \* the static variables of next_local_addr
    state,              \* "idle", "probing", or how the last search ended:
                        \* "bound" or "failed"
    i,                  \* the loop counter of connect_TCP
    used,               \* addresses some socket is bound to
    tried,              \* history: addresses this search has tried
    free                \* history: addresses free since this search began

vars == <<host, port, state, i, used, tried, free>>

Hosts == 1..(Octet - 1)
Ports == PortLo..PortHi
Addresses == Hosts \X Ports

\* Mutant of total_local_addr: an off-by-one in the number of ports.
total_local_addr_short == (Octet - 1) * (PortHi - PortLo)

total_local_addr == (Octet - 1) * (PortHi - PortLo + 1)

\* Mutant of NextHost: the network's own address is not skipped.
NextHost_zero(h) == (h + 1) % Octet

(* The last octet after the addition: behind 255 comes 1. *)
NextHost(h) == (h + (IF h = Octet - 1 THEN 2 ELSE 1)) % Octet

\* Mutant of NextAddr: the host changes one port too early.
NextAddr_early(h, p) ==
    IF p + 1 >= PortHi THEN <<NextHost(h), PortLo>> ELSE <<h, p + 1>>

(* next_local_addr. *)
NextAddr(h, p) ==
    IF p + 1 > PortHi THEN <<NextHost(h), PortLo>> ELSE <<h, p + 1>>

Init ==
    /\ host = 1 /\ port = PortLo
    /\ state = "idle" /\ i = 0
    /\ used \in SUBSET Addresses
    /\ tried = {} /\ free = {}

(* connect_TCP begins. *)
connect_TCP ==
    /\ state # "probing"
    /\ state' = "probing" /\ i' = 0
    /\ tried' = {} /\ free' = Addresses \ used
    /\ UNCHANGED <<host, port, used>>

(* One round of the loop. *)
probe ==
    LET a == NextAddr(host, port)
    IN  /\ state = "probing"
        /\ host' = a[1] /\ port' = a[2]
        /\ tried' = tried \union {a}
        /\ \/ /\ a \notin used
              /\ state' = "bound"
              /\ used' = used \union {a} /\ free' = free \ {a}
              /\ UNCHANGED i
           \/ /\ a \in used /\ i < total_local_addr - 1
              /\ i' = i + 1
              /\ UNCHANGED <<state, used, free>>
           \/ /\ a \in used /\ i >= total_local_addr - 1
              /\ state' = "failed"
              /\ UNCHANGED <<i, used, free>>

(* The kernel, other connections and other programs. *)
Others_bind(a) ==
    /\ a \notin used
    /\ used' = used \union {a} /\ free' = free \ {a}
    /\ UNCHANGED <<host, port, state, i, tried>>

Others_release(a) ==
    /\ a \in used
    /\ used' = used \ {a}
    /\ UNCHANGED <<host, port, state, i, tried, free>>

Next ==
    \/ connect_TCP
    \/ probe
    \/ \E a \in Addresses : Others_bind(a) \/ Others_release(a)

Spec == Init /\ [][Next]_vars

-----------------------------------------------------------------------------
(* The static address never leaves the documented range 127.0.0.[1-255] :  *)
(* [4100-65100] (ls_proxy.h:257), also when octet and port wrap.           *)
TypeOK ==
    /\ host \in Hosts /\ port \in Ports
    /\ state \in {"idle", "probing", "bound", "failed"}
    /\ i \in 0..(total_local_addr - 1)
    /\ used \subseteq Addresses /\ tried \subseteq Addresses /\ free \subseteq Addresses

(* One search tries no address twice. *)
NoneTriedTwice ==
    state \in {"probing", "bound", "failed"} =>
        Cardinality(tried) = i + (IF state = "probing" THEN 0 ELSE 1)

(* "Used up all ports!" (ls_proxy.cpp:127) is true: a search fails only if *)
(* no address was free all the while, wherever it began and whatever       *)
(* others did in between.                                                  *)
FailsOnlyWhenFull == state = "failed" => free = {}
=============================================================================
