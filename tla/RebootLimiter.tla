--------------------------- MODULE RebootLimiter ----------------------------
(***************************************************************************)
(* What rung 3 of the ladder promises of reboots, with nothing of how the  *)
(* supervisor keeps it (src/src/resilience.rs, REBOOT_RATE_LIMIT and       *)
(* REBOOT_MAX_24H): time advances, and now and then a reboot is granted.   *)
(***************************************************************************)
EXTENDS Integers, FiniteSets

CONSTANTS REBOOT_RATE_LIMIT, REBOOT_MAX_24H, REBOOT_24H_WINDOW

(* What the theorems about this module ask of its constants; the module    *)
(* that instantiates it has stronger assumptions of its own.               *)
LimiterAssumption ==
    /\ REBOOT_RATE_LIMIT \in Nat \ {0}
    /\ REBOOT_MAX_24H \in Nat \ {0}
    /\ REBOOT_24H_WINDOW \in Nat \ {0}

VARIABLES
    now,       \* the time
    granted    \* the times of all reboots so far

TypeOK == now \in Nat /\ granted \in SUBSET (0 .. now)

Init == now = 0 /\ granted = {}

(* The reboots of the day that ends at t, t included. *)
Within24h(t) == {u \in granted : u <= t /\ t - u < REBOOT_24H_WINDOW}

Elapse ==
    /\ now' \in Nat
    /\ now' > now
    /\ UNCHANGED granted

Grant ==
    /\ \A t \in granted : now - t >= REBOOT_RATE_LIMIT
    /\ Cardinality(Within24h(now)) < REBOOT_MAX_24H
    /\ granted' = granted \cup {now}
    /\ UNCHANGED now

Next == Elapse \/ Grant

Spec == Init /\ [][Next]_<<now, granted>>

(* No more reboots than REBOOT_MAX_24H fall in any day. *)
Budget == \A t \in granted : Cardinality(Within24h(t)) <= REBOOT_MAX_24H

(* No two reboots are closer than REBOOT_RATE_LIMIT. *)
Spacing == \A t, u \in granted : t < u => u - t >= REBOOT_RATE_LIMIT
=============================================================================
