-------------------------- MODULE ReconnectHandler --------------------------
(***************************************************************************)
(* ReconnectHandler of stream/src/core/reconnect_handler.{h,cc}: the       *)
(* exponential backoff that StreamImpl's worker ticks about once a second  *)
(* while a reconnect is armed.  One thread at a time uses it               *)
(* (reconnect_handler.h:39-42), so each method is one step; Tick's callback *)
(* is StreamImpl::AttemptReconnect, which calls OnConnected when it        *)
(* succeeds.                                                               *)
(*                                                                         *)
(* Integers are unsigned words of Bits32 and Bits64 bits (32 and 64 in the *)
(* code), and the shift count is capped at ShiftCap (62 in the code): TLC  *)
(* checks narrower words with the cap at the same place below the width.   *)
(***************************************************************************)
EXTENDS Naturals

CONSTANTS
    MaxIntervalS,   \* max_interval_s_, the cap on the gap between retries
    Bits32, Bits64, \* the widths of uint32_t and uint64_t
    ShiftCap,       \* the largest shift NextIntervalMs applies
    MaxAttempts     \* bound: retries of one outage that are explored

(* 1 << n, before it is cut to a word. *)
Pow2[n \in Nat] == IF n = 0 THEN 1 ELSE 2 * Pow2[n - 1]

ASSUME BackoffAssumption ==
    /\ Bits32 \in Nat /\ Bits64 \in Nat /\ Bits32 <= Bits64
    /\ MaxIntervalS \in Nat /\ MaxIntervalS * 1000 < Pow2[Bits32]
    /\ ShiftCap \in Nat
    /\ MaxAttempts \in Nat

VARIABLES
    reconnecting,   \* reconnecting_
    attempt,        \* current_attempt_
    elapsed,        \* elapsed_since_disconnect_
    clock,          \* history: ticks since OnDisconnected
    fired           \* history: the tick at which the last retry fired

vars == <<reconnecting, attempt, elapsed, clock, fired>>

MaxMs == (MaxIntervalS * 1000) % Pow2[Bits32]

(* Plausible bugs: the interval is not cut to the cap; the test is made    *)
(* before the second is counted; an outage already known starts over.      *)
UncappedIntervalMs ==
    (1000 * Pow2[IF attempt < ShiftCap THEN attempt ELSE ShiftCap]) % Pow2[Bits64]

(* uint64_t{1000} << min(current_attempt_, 62), cut to max_ms. *)
NextIntervalMs ==
    LET shift == IF attempt < ShiftCap THEN attempt ELSE ShiftCap
        interval == (1000 * Pow2[shift]) % Pow2[Bits64]
    IN IF interval > MaxMs THEN MaxMs ELSE interval

Init ==
    /\ reconnecting = FALSE
    /\ attempt = 0 /\ elapsed = 0
    /\ clock = 0 /\ fired = 0

OnDisconnectedAgain ==
    /\ reconnecting' = TRUE
    /\ attempt' = 0 /\ elapsed' = 0
    /\ clock' = 0 /\ fired' = 0

(* The worker calls it for an outage the handler does not know of yet. *)
OnDisconnected ==
    /\ ~reconnecting
    /\ reconnecting' = TRUE
    /\ attempt' = 0 /\ elapsed' = 0
    /\ clock' = 0 /\ fired' = 0

DueLate == (elapsed * 1000) % Pow2[Bits32] >= NextIntervalMs

Due == ((elapsed + 1) * 1000) % Pow2[Bits32] >= NextIntervalMs

TickWaits ==
    /\ reconnecting
    /\ ~Due
    /\ elapsed' = elapsed + 1
    /\ clock' = clock + 1
    /\ UNCHANGED <<reconnecting, attempt, fired>>

(* The retry that a tick fires fails: the outage goes on. *)
TickFires ==
    /\ reconnecting /\ attempt < MaxAttempts
    /\ Due
    /\ elapsed' = 0
    /\ attempt' = attempt + 1
    /\ clock' = clock + 1
    /\ fired' = clock + 1
    /\ UNCHANGED reconnecting

(* It succeeds, and AttemptReconnect calls OnConnected. *)
TickReconnects ==
    /\ reconnecting
    /\ Due
    /\ reconnecting' = FALSE
    /\ attempt' = 0 /\ elapsed' = 0
    /\ UNCHANGED <<clock, fired>>

(* Stop, once the worker is joined. *)
Reset ==
    /\ reconnecting' = FALSE
    /\ attempt' = 0 /\ elapsed' = 0
    /\ UNCHANGED <<clock, fired>>

Tick == TickWaits \/ TickFires \/ TickReconnects

Next == OnDisconnected \/ Tick \/ Reset

(* The worker ticks once a second for as long as it runs. *)
Spec == Init /\ [][Next]_vars /\ WF_vars(Tick)
-----------------------------------------------------------------------------
(* The documented schedule: gaps of 1, 2, 4, ... seconds, up to the cap.   *)
Gap(k) ==
    IF Pow2[k] < MaxIntervalS THEN Pow2[k]
    ELSE IF MaxIntervalS = 0 THEN 1 ELSE MaxIntervalS

Schedule[k \in Nat] == IF k = 0 THEN 0 ELSE Schedule[k - 1] + Gap(k - 1)

(* Every variable has its type. *)
TypeOK ==
    /\ reconnecting \in BOOLEAN
    /\ attempt \in 0..MaxAttempts
    /\ elapsed = 0 \/ elapsed \in 1..(MaxIntervalS - 1)
    /\ clock \in Nat /\ fired \in Nat

(* The n-th retry of an outage fires exactly at the n-th tick of the       *)
(* schedule 1, 3, 7, 15, ..., and none is overdue                          *)
(* (reconnect_handler_test.cc:26-45, reconnect_handler.cc:31-33).          *)
RetriesOnSchedule ==
    reconnecting =>
        /\ fired = Schedule[attempt]
        /\ clock < Schedule[attempt + 1]

(* However long the outage, the gap before the next retry has doubled with *)
(* each retry up to the cap, where it stays (reconnect_handler.cc:31-33).  *)
IntervalDoublesToTheCap ==
    reconnecting => NextIntervalMs = Gap(attempt) * 1000

(* An outage is retried, however large the gap has become. *)
AlwaysRetriesAgain ==
    \A k \in 0..(MaxAttempts - 1) :
        (reconnecting /\ attempt = k) ~> (~reconnecting \/ attempt > k)
=============================================================================
