---------------------------- MODULE RatesProofs ----------------------------
(* Proofs about Rates, for every value of the two thresholds: whatever     *)
(* speeds an operator configures, no connection is credited with bytes it  *)
(* did not move, a new one passes its first inspection, and one that       *)
(* uploads in fast mode is not dropped.                                    *)
EXTENDS Rates, TLAPS

(* Until the first inspection the counters hold at least COUNTER_INIT. *)
Newbie == first => read_count >= COUNTER_INIT /\ write_count >= COUNTER_INIT

IInv == TypeOK /\ CountersSound /\ Newbie /\ UploaderKept

LEMMA InitIInv == Init => IInv
  BY RatesAssumption DEF RatesAssumption, Init, IInv, TypeOK, CountersSound, Newbie, UploaderKept, COUNTER_INIT

(* The callbacks: bytes are counted at most once. *)
LEMMA CallbackStep ==
    ASSUME IInv, NEW n \in 0..MaxBytes,
           \/ fast_forward_up(n) \/ fast_forward_down(n)
           \/ Client_on_writable(n) \/ recv_to_buffer_slowly(n)
    PROVE  IInv'
  <1> USE RatesAssumption DEF RatesAssumption, IInv, TypeOK, CountersSound, Newbie, UploaderKept, COUNTER_INIT, MayClose
  <1>1. CASE fast_forward_up(n)
    BY <1>1 DEF fast_forward_up
  <1>2. CASE fast_forward_down(n)
    BY <1>2 DEF fast_forward_down
  <1>3. CASE Client_on_writable(n)
    BY <1>3 DEF Client_on_writable
  <1>4. CASE recv_to_buffer_slowly(n)
    BY <1>4 DEF recv_to_buffer_slowly
  <1> QED
    BY <1>1, <1>2, <1>3, <1>4

(* The monitor: a drop is covered by the counters, a reset restarts them   *)
(* together with the traffic they are compared with.                       *)
LEMMA MonitorStep == ASSUME IInv, monitor_data_rates PROVE IInv'
  <1> USE RatesAssumption DEF RatesAssumption, IInv, TypeOK, CountersSound, Newbie, UploaderKept, COUNTER_INIT
  <1>1. CASE monitor_drops
    BY <1>1 DEF monitor_drops, TooSlow
  <1>2. CASE monitor_keeps
    <2>1. first' = FALSE
      BY <1>2, Zenon DEF monitor_keeps
    <2>2. ~first' /\ first' \in BOOLEAN
      BY <2>1
    <2>3. mode' \in {"fast", "slow"}
      BY <1>2 DEF monitor_keeps, ModeAfter
    <2> QED
      BY <1>2, <2>2, <2>3 DEF monitor_keeps
  <1> QED
    BY <1>1, <1>2 DEF monitor_data_rates

LEMMA NextIInv == IInv /\ [Next]_vars => IInv'
  <1> SUFFICES ASSUME IInv, [Next]_vars PROVE IInv'
    OBVIOUS
  <1> USE DEF IInv, TypeOK, CountersSound, Newbie, UploaderKept
  <1>1. CASE put_events_slow_mode
    BY <1>1 DEF put_events_slow_mode
  <1>2. CASE Server_closes
    BY <1>2 DEF Server_closes
  <1>3. CASE UNCHANGED vars
    BY <1>3 DEF vars
  <1> QED
    BY <1>1, <1>2, <1>3, CallbackStep, MonitorStep DEF Next

LEMMA AlwaysIInv == Spec => []IInv
  BY InitIInv, NextIInv, PTL DEF Spec

(* The counters never claim more than the real traffic, and in fast mode   *)
(* read_count is exact (connection.cpp:48, ls_proxy.cpp:258).              *)
THEOREM CountersAreSound == Spec => []CountersSound
  <1>1. IInv => CountersSound
    BY DEF IInv
  <1> QED
    BY <1>1, AlwaysIInv, PTL

(* A connection the monitor deletes in fast mode uploaded less than the    *)
(* minimum since it was last inspected (ls_proxy.cpp:245).                 *)
THEOREM UploadersAreKept == Spec => []UploaderKept
  <1>1. IInv => UploaderKept
    BY DEF IInv
  <1> QED
    BY <1>1, AlwaysIInv, PTL

(* The newbie first pass guarantee (client.cpp:5). *)
THEOREM FirstPassGuaranteed == Spec => FirstPass
  <1>1. IInv /\ [Next]_vars => [first /\ monitor_data_rates => status' = "open" /\ mode' = mode]_vars
    <2> SUFFICES ASSUME IInv, first, monitor_data_rates
                 PROVE  status' = "open" /\ mode' = mode
      OBVIOUS
    <2>1. read_count >= MinDtr + MinDown /\ write_count >= MinDtr + MinDown
      BY DEF IInv, Newbie, COUNTER_INIT
    <2>2. read_count \in Nat /\ write_count \in Nat /\ MinDtr \in Nat /\ MinDown \in Nat
      BY RatesAssumption DEF RatesAssumption, IInv, TypeOK
    <2>3. ~TooSlow /\ ModeAfter = mode
      BY <2>1, <2>2 DEF TooSlow, ModeAfter
    <2>4. monitor_keeps
      BY <2>3 DEF monitor_data_rates, monitor_drops
    <2> QED
      BY <2>3, <2>4 DEF monitor_keeps
  <1> QED
    BY <1>1, AlwaysIInv, PTL DEF Spec, FirstPass
=============================================================================
