--------------------------- MODULE IntervalUnits ----------------------------
(***************************************************************************)
(* The parameters of an LE Connection Update (src/src/hci.rs), from the    *)
(* interval in milliseconds that the configuration accepts.                *)
(***************************************************************************)
EXTENDS Naturals

(* CONN_INTERVAL_MS is refused outside this range. *)
Configurable == 8 .. 4000

SUPERVISION_TIMEOUT_MS == 20000

(* In steps of 1.25 ms and of 10 ms, rounded down, as u16. *)
IntervalSteps(ms) == ((ms * 4) \div 5) % 65536
TimeoutSteps(ms) == (ms \div 10) % 65536

(* The guard computes its target on its own. *)
TargetUnits(ms) == ((ms * 4) \div 5) % 65536

Parameters(ms) ==
    [min |-> IntervalSteps(ms), max |-> IntervalSteps(ms), latency |-> 0,
     timeout |-> TimeoutSteps(SUPERVISION_TIMEOUT_MS)]

(* What a controller accepts (Bluetooth Core, Vol 4, Part E, 7.8.18): each *)
(* parameter in its range, and a timeout longer than two intervals, in     *)
(* units of 1.25 ms the timeout being eight times its steps.               *)
Accepted(p) ==
    /\ p.min \in 6 .. 3200 /\ p.max \in 6 .. 3200 /\ p.min <= p.max
    /\ p.latency \in 0 .. 499
    /\ p.timeout \in 10 .. 3200
    /\ 8 * p.timeout > 2 * (1 + p.latency) * p.max
=============================================================================
