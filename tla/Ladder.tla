------------------------------- MODULE Ladder -------------------------------
(***************************************************************************)
(* The resilience ladder of src/src/resilience.rs: which rung a failed     *)
(* connection setup reaches.  The module has no variables: a ladder is a   *)
(* value, and on_connection_failure maps a ladder and the time of the      *)
(* failure to the next ladder and the action the supervisor must take.     *)
(*                                                                         *)
(* An Option<DateTime> is a set with at most one element.  The Vec of      *)
(* failure times is the set of pairs (number of the failure, time): its    *)
(* entries are told apart by their number, as they are by their index.     *)
(* The Vec of reboot times is a set: no two entries are equal, the reboot  *)
(* rate limit being positive.                                              *)
(***************************************************************************)
EXTENDS Integers, FiniteSets

CONSTANTS
    POWER_CYCLE_THRESHOLD,     \* consecutive failures before rung 2
    POWER_CYCLE_WINDOW,        \* the rolling window they must fall in
    POWER_CYCLE_RATE_LIMIT,    \* least time between two power-cycles
    REBOOT_EXTRA_FAILURES,     \* further failures before rung 3
    REBOOT_RATE_LIMIT,         \* least time between two reboots
    REBOOT_MAX_24H,            \* reboots allowed in a day
    REBOOT_24H_WINDOW          \* the length of a day

ASSUME LadderAssumption ==
    /\ POWER_CYCLE_THRESHOLD \in Nat \ {0}
    /\ POWER_CYCLE_WINDOW \in Nat \ {0}
    /\ POWER_CYCLE_RATE_LIMIT \in Nat \ {0}
    /\ REBOOT_EXTRA_FAILURES \in Nat \ {0}
    /\ REBOOT_RATE_LIMIT \in Nat \ {0}
    /\ REBOOT_MAX_24H \in Nat \ {0}
    /\ REBOOT_24H_WINDOW \in Nat \ {0}
    /\ REBOOT_RATE_LIMIT <= REBOOT_24H_WINDOW

Time == Nat
Option(S) == {s \in SUBSET S : \A x, y \in s : x = y}

(* What is persisted (ResilienceState), and the ladder that holds it.      *)
ResilienceState ==
    [last_power_cycle_at : Option(Time), reboot_timestamps : SUBSET Time]

ResilienceLadder ==
    [consecutive_failures : Nat,
     failure_timestamps : SUBSET [n : Nat, at : Time],
     state : ResilienceState]

LadderAction == {"None", "PowerCycle", "Reboot", "KeepRetrying"}

DefaultState == [last_power_cycle_at |-> {}, reboot_timestamps |-> {}]

FromState(s) ==
    [consecutive_failures |-> 0, failure_timestamps |-> {}, state |-> s]

-----------------------------------------------------------------------------
(* "Less than `span` ago": every window and rate limit is this test, so an *)
(* event exactly `span` old is outside.                                    *)
Recent(t, span, now) == now - t < span

PruneReboots(s, now) ==
    [s EXCEPT !.reboot_timestamps =
        {t \in @ : Recent(t, REBOOT_24H_WINDOW, now)}]

(* A variant in which a success leaves the streak as it is. *)
OnConnectionSuccess_KeepsStreak(l) == [l EXCEPT !.failure_timestamps = {}]

OnConnectionSuccess(l) ==
    [l EXCEPT !.consecutive_failures = 0, !.failure_timestamps = {}]

(* The ladder once the failure at `now` is counted and both windows are    *)
(* pruned, before any rung is examined.                                    *)
Counted(l, now) ==
    [consecutive_failures |-> l.consecutive_failures + 1,
     failure_timestamps |->
        {f \in l.failure_timestamps
               \cup {[n |-> l.consecutive_failures + 1, at |-> now]} :
            Recent(f.at, POWER_CYCLE_WINDOW, now)},
     state |-> PruneReboots(l.state, now)]

FailuresWithinWindow(l, now) ==
    Cardinality({f \in l.failure_timestamps :
                    Recent(f.at, POWER_CYCLE_WINDOW, now)})

RebootsWithin24h(s, now) ==
    Cardinality({t \in s.reboot_timestamps :
                    Recent(t, REBOOT_24H_WINDOW, now)})

-----------------------------------------------------------------------------
(* Rung 3. *)
(* A variant in which rung 3 does not wait for rung 2. *)
RebootDue_NoPowerCycle(l) ==
    l.consecutive_failures >= POWER_CYCLE_THRESHOLD + REBOOT_EXTRA_FAILURES

RebootDue(l) ==
    /\ l.state.last_power_cycle_at # {}
    /\ l.consecutive_failures >= POWER_CYCLE_THRESHOLD + REBOOT_EXTRA_FAILURES

RebootRateLimited(s, now) ==
    \E t \in s.reboot_timestamps : Recent(t, REBOOT_RATE_LIMIT, now)

RebootCapped(s, now) == RebootsWithin24h(s, now) >= REBOOT_MAX_24H

(* Rung 2. *)
PowerCycleDue(l, now) ==
    /\ l.consecutive_failures >= POWER_CYCLE_THRESHOLD
    /\ FailuresWithinWindow(l, now) >= POWER_CYCLE_THRESHOLD

PowerCycleRateLimited(s, now) ==
    \E t \in s.last_power_cycle_at : Recent(t, POWER_CYCLE_RATE_LIMIT, now)

RebootAllowed(l, now) ==
    RebootDue(l) /\ ~RebootRateLimited(l.state, now) /\ ~RebootCapped(l.state, now)

PowerCycleAllowed(l, now) ==
    PowerCycleDue(l, now) /\ ~PowerCycleRateLimited(l.state, now)

(* The rungs in the order the code tries them: a rung that is due but rate *)
(* limited falls through to the next.                                      *)
Decision(l, now) ==
    IF RebootAllowed(l, now) THEN "Reboot"
    ELSE IF PowerCycleAllowed(l, now) THEN "PowerCycle"
    ELSE IF RebootCapped(l.state, now) THEN "KeepRetrying"
    ELSE "None"

(* The stamp the chosen rung leaves in the state. *)
Recorded(l, a, now) ==
    CASE a = "Reboot" -> [l EXCEPT !.state.reboot_timestamps = @ \cup {now}]
      [] a = "PowerCycle" -> [l EXCEPT !.state.last_power_cycle_at = {now}]
      [] OTHER -> l

OnConnectionFailure(l, now) ==
    LET counted == Counted(l, now)
        a == Decision(counted, now)
    IN  [ladder |-> Recorded(counted, a, now), action |-> a]
=============================================================================
