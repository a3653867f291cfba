------------------------------ MODULE Signals ------------------------------
(***************************************************************************)
(* SIGUSR1 on top of Connection.  The handler only collects the events     *)
(* that are added at that moment; one second later put_events_slow_mode    *)
(* goes through this list.  In between the connection lives on, and its    *)
(* events may be deleted, or freed together with their Client or Server.   *)
(***************************************************************************)
EXTENDS Connection

VARIABLES
    timer,      \* "idle", "armed" (the list is waiting) or "fired"
    evt_list,   \* the connection's events in the list
    freed,      \* those of them that have been freed since
    dangled     \* history: has put_events_slow_mode used a freed event

allvars == <<vars, timer, evt_list, freed, dangled>>

SignalInit ==
    /\ Init
    /\ timer = "idle" /\ evt_list = {} /\ freed = {} /\ dangled = FALSE

ServerEvents == {"s_read", "s_write"}

(* The events ~Client and ~Server free in a step of the connection. *)
FreedNow ==
    IF status' = "closed" THEN Events ELSE IF server /\ ~server' THEN ServerEvents ELSE {}

(* The connection takes a step. *)
Connection_steps ==
    /\ Next
    /\ freed' = freed \union (evt_list \intersect FreedNow)
    /\ UNCHANGED <<timer, evt_list, dangled>>

(* put_all_connection_slow_mode, the signal handler. *)
put_all_connection_slow_mode ==
    /\ status = "open" /\ timer = "idle"
    /\ timer' = "armed" /\ evt_list' = pending
    /\ UNCHANGED <<vars, freed, dangled>>

set_slow_mode == set_slow_mode_idle \/ set_slow_mode_busy

(* put_events_slow_mode: a listed event that is still pending leads to its *)
(* connection.                                                             *)
put_events_found ==
    /\ timer = "armed" /\ freed = {} /\ evt_list \intersect pending # {}
    /\ IF mode = "fast" THEN set_slow_mode ELSE UNCHANGED vars
    /\ timer' = "fired" /\ UNCHANGED <<evt_list, freed, dangled>>

(* None of the listed events is pending any more, because flow control has *)
(* exchanged them for others: the connection is passed over.               *)
put_events_missed ==
    /\ timer = "armed" /\ freed = {} /\ evt_list \intersect pending = {}
    /\ timer' = "fired" /\ UNCHANGED <<vars, evt_list, freed, dangled>>

(* A listed event has been freed: what event_get_callback reads there may  *)
(* be anything.  It is taken for no event of ours, or for one of a         *)
(* connection, or the access faults.                                       *)
put_events_dangling ==
    /\ timer = "armed" /\ freed # {}
    /\ \/ UNCHANGED vars
       \/ set_slow_mode
       \/ status' = "crashed" /\ UNCHANGED <<mode, parser, ppos, server, pending, queues,
                                             files, c_env, s_env, ghosts>>
    /\ timer' = "fired" /\ dangled' = TRUE
    /\ UNCHANGED <<evt_list, freed>>

put_events_slow_mode == put_events_found \/ put_events_missed \/ put_events_dangling

SignalNext == Connection_steps \/ put_all_connection_slow_mode \/ put_events_slow_mode

SignalSpec == SignalInit /\ [][SignalNext]_allvars

-----------------------------------------------------------------------------
(* put_events_slow_mode uses no event that does not exist any more: the    *)
(* test of ls_proxy.cpp:227, "event exists", is there for this.            *)
NoDanglingEvent == ~dangled
=============================================================================
