------------------------------- MODULE Rates -------------------------------
(***************************************************************************)
(* How the monitor judges a connection: the two byte counters of Client,   *)
(* the callbacks that increase them or do not, and monitor_data_rates,     *)
(* which every MONITOR_INTERVAL drops the connection, puts it into slow    *)
(* mode or keeps it, and resets the counters.  Connections are judged      *)
(* independently, so the module has one.  "slow" includes the transition.  *)
(* Connection has the callbacks' other effects; here they are reduced to   *)
(* the bytes that pass the client's socket.                                *)
(***************************************************************************)
EXTENDS Integers

CONSTANTS
    MinDown,    \* MIN_DOWNLOAD_SPEED * MONITOR_INTERVAL
    MinDtr,     \* DTR_THRESHOLD * MONITOR_INTERVAL
    MaxBytes    \* bound: bytes moved in one direction between two inspections

ASSUME RatesAssumption == MinDown \in Nat \ {0} /\ MinDtr \in Nat /\ MaxBytes \in Nat

VARIABLES
    status,         \* "open", "closed" (deleted) or "dropped" (by the monitor)
    mode,           \* "fast" or "slow"
    read_count,     \* Client::read_count
    write_count,    \* Client::write_count
    up, down,       \* history: bytes read from and written to the client since
                    \* the last inspection
    first           \* history: the monitor has not seen the connection yet

vars == <<status, mode, read_count, write_count, up, down, first>>

\* Mutant of COUNTER_INIT: a new connection starts from nothing.
COUNTER_INIT_zero == 0

(* What the counters start from: enough to pass both of the first tests. *)
COUNTER_INIT == MinDtr + MinDown

Init ==
    /\ status = "open" /\ mode = "fast"
    /\ read_count = COUNTER_INIT /\ write_count = COUNTER_INIT
    /\ up = 0 /\ down = 0 /\ first = TRUE

(* Every callback below may end by deleting the connection (an end of      *)
(* file, a parser error, an empty reply-only queue): status' is open or not.*)
MayClose == status = "open" /\ status' \in {"open", "closed"} /\ UNCHANGED first

(* fast_forward from the client: what was read is counted, whatever the    *)
(* parser, the queue and the server then make of it.                       *)
fast_forward_up(n) ==
    /\ MayClose /\ mode = "fast" /\ up + n <= MaxBytes
    /\ read_count' = read_count + n /\ up' = up + n
    /\ UNCHANGED <<mode, write_count, down>>

(* fast_forward to the client: what its socket accepted is counted. *)
fast_forward_down(n) ==
    /\ MayClose /\ mode = "fast" /\ down + n <= MaxBytes
    /\ write_count' = write_count + n /\ down' = down + n
    /\ UNCHANGED <<mode, read_count, up>>

(* Client::on_writable writes what is queued (fast mode) or stored (slow   *)
(* mode); neither branch touches write_count.                              *)
Client_on_writable(n) ==
    /\ MayClose /\ down + n <= MaxBytes
    /\ down' = down + n
    /\ UNCHANGED <<mode, read_count, write_count, up>>

(* Client::recv_to_buffer_slowly reads without touching read_count. *)
recv_to_buffer_slowly(n) ==
    /\ MayClose /\ mode = "slow" /\ up + n <= MaxBytes
    /\ up' = up + n
    /\ UNCHANGED <<mode, read_count, write_count, down>>

(* put_events_slow_mode, after SIGUSR1. *)
put_events_slow_mode ==
    /\ status = "open" /\ mode = "fast"
    /\ mode' = "slow"
    /\ UNCHANGED <<status, read_count, write_count, up, down, first>>

(* The server's callbacks move nothing on the client's socket by           *)
(* themselves, but they too may delete the connection.                     *)
Server_closes ==
    /\ status = "open" /\ status' = "closed"
    /\ UNCHANGED <<mode, read_count, write_count, up, down, first>>

\* Mutant of TooSlow: one direction is enough.
TooSlow_any == write_count < MinDown \/ read_count < MinDown

(* The counters of both directions are below the minimum. *)
TooSlow == write_count < MinDown /\ read_count < MinDown

(* monitor_data_rates deletes the connection ... *)
monitor_drops ==
    /\ status = "open" /\ TooSlow
    /\ status' = "dropped"
    /\ UNCHANGED <<mode, read_count, write_count, up, down, first>>

(* The mode after an inspection that keeps the connection. *)
ModeAfter ==
    IF mode = "fast" /\ read_count + write_count < MinDtr THEN "slow" ELSE mode

\* Mutant of monitor_keeps: the counters are not reset.
monitor_keeps_counting ==
    /\ status = "open" /\ ~TooSlow
    /\ mode' = ModeAfter
    /\ up' = 0 /\ down' = 0 /\ first' = FALSE
    /\ UNCHANGED <<status, read_count, write_count>>

(* ... or keeps it, in slow mode if its data transfer rate is too low, and *)
(* starts both counters again from zero.                                   *)
monitor_keeps ==
    /\ status = "open" /\ ~TooSlow
    /\ mode' = ModeAfter
    /\ read_count' = 0 /\ write_count' = 0
    /\ up' = 0 /\ down' = 0 /\ first' = FALSE
    /\ UNCHANGED status

\* Mutant of monitor_data_rates: a connection in slow mode is not looked at.
monitor_data_rates_fast_only == mode = "fast" /\ (monitor_drops \/ monitor_keeps)

(* The timer's callback, for this connection. *)
monitor_data_rates == monitor_drops \/ monitor_keeps

Next ==
    \/ \E n \in 0..MaxBytes :
         \/ fast_forward_up(n)
         \/ fast_forward_down(n)
         \/ Client_on_writable(n)
         \/ recv_to_buffer_slowly(n)
    \/ put_events_slow_mode
    \/ Server_closes
    \/ monitor_data_rates

Spec == Init /\ [][Next]_vars

(* The monitor's timer event is persistent and finds the connection by its *)
(* client's events, so the inspection of a live one keeps happening.       *)
FairSpec == Spec /\ WF_vars(monitor_data_rates)

-----------------------------------------------------------------------------
(* The counters, which are of type size_t, never go below zero, and the    *)
(* traffic between two inspections stays within its bound.                 *)
TypeOK ==
    /\ status \in {"open", "closed", "dropped"} /\ first \in BOOLEAN
    /\ mode \in {"fast", "slow"}
    /\ read_count \in Nat /\ write_count \in Nat
    /\ up \in 0..MaxBytes /\ down \in 0..MaxBytes

(* From the first inspection on, the counters monitor_data_rates reads     *)
(* never exceed the traffic since the last inspection, so no connection is *)
(* credited with bytes it did not move; and while the connection is in     *)
(* fast mode, read_count is exactly what was read from the client.         *)
CountersSound ==
    ~first => /\ read_count <= up /\ write_count <= down
              /\ mode = "fast" => read_count = up

(* The "newbie first pass guarantee" of client.cpp:5: the monitor's first  *)
(* look at a connection neither drops it nor puts it into slow mode.       *)
FirstPass == [][first /\ monitor_data_rates => status' = "open" /\ mode' = mode]_vars

(* What the test on read_count is there for: a connection the monitor      *)
(* deletes while in fast mode has been seen before, and has uploaded less  *)
(* than the minimum since.                                                 *)
UploaderKept == status = "dropped" => ~first /\ (mode = "slow" \/ up < MinDown)

(* No connection lives on below the minimum in both directions: again and  *)
(* again it is gone or has moved MinDown bytes in one of them.             *)
QuietIsDropped == []<>(status # "open" \/ up >= MinDown \/ down >= MinDown)

(* "drop download-too-slow connections (if it was not uploading)"          *)
(* (ls_proxy.cpp:244): a connection the monitor deletes really moved less  *)
(* than the minimum in both directions.                                    *)
OnlySlowDropped == status = "dropped" => up < MinDown /\ down < MinDown
=============================================================================
