----------------------------- MODULE Escalation -----------------------------
(***************************************************************************)
(* The connection supervisor of src/src/lib.rs (run_connection_supervisor) *)
(* seen from its failures: it sets the connection up, climbs the ladder    *)
(* when that fails, power-cycles the adapter or reboots the host, persists *)
(* the ladder's state and waits before it tries again, across crashes of   *)
(* the process, restarts of the application instance and reboots.          *)
(*                                                                         *)
(* Time passes while the supervisor sets up, stays connected, waits or is  *)
(* down.  The steps of one failure (decide, act, save) are separate, since *)
(* the process can die between them, but take no time: none of them yields *)
(* to the runtime, and the code reads the clock once, before the decision. *)
(***************************************************************************)
EXTENDS Ladder

CONSTANTS
    INITIAL_BACKOFF, MAX_BACKOFF,
    Durations,   \* how long a setup, a connection or an outage may last;
                 \* a forward step of the wall clock is a long one
    Horizon,     \* no step takes the clock beyond it
    Faults       \* what may go wrong besides a failed setup, see below

(* "load":    the state file cannot be read at start                       *)
(* "create":  save cannot open the file, which keeps its contents          *)
(* "write":   save fails after it truncated the file                       *)
(* "torn":    the process dies between the truncation and the sync         *)
(* "unsaved": the process dies between a power-cycle and its save          *)
AllFaults == {"load", "create", "write", "torn", "unsaved"}

ASSUME EscalationAssumption ==
    /\ INITIAL_BACKOFF \in Nat \ {0}
    /\ MAX_BACKOFF \in Nat
    /\ INITIAL_BACKOFF <= MAX_BACKOFF
    /\ Durations \subseteq Nat
    /\ Horizon \in Nat
    /\ Faults \subseteq AllFaults

VARIABLES
    clock,       \* Utc::now()
    pc,          \* where the supervisor is
    ladder,      \* its ResilienceLadder
    action,      \* what the last failure decided
    backoff,     \* the delay before the next attempt
    file,        \* the state a load would read; {} if absent or not JSON
    powered,     \* the adapter's Powered property
    rebooted,    \* history: when the host was rebooted by the ladder
    cycled,      \* history: when a power-cycle was attempted
    interrupted, \* history: the power-cycles the process did not live to save
    further      \* history: failures of the streak counted with a
                 \* power-cycle already attempted

vars == <<clock, pc, ladder, action, backoff, file, powered,
          rebooted, cycled, interrupted, further>>

history == <<rebooted, cycled, interrupted, further>>

(* The streak that rung 3 asks for. *)
RebootThreshold == POWER_CYCLE_THRESHOLD + REBOOT_EXTRA_FAILURES

Locations == {"load", "setup", "connected", "power_off", "power_on",
              "save", "write", "reboot", "wait"}

TypeOK ==
    /\ clock \in Time
    /\ pc \in Locations
    /\ ladder \in ResilienceLadder
    /\ action \in LadderAction
    /\ backoff \in INITIAL_BACKOFF .. MAX_BACKOFF
    /\ file \in Option(ResilienceState)
    /\ powered \in BOOLEAN
    /\ rebooted \in SUBSET Time
    /\ cycled \in SUBSET Time
    /\ interrupted \in SUBSET Time
    /\ further \in Nat

Init ==
    /\ clock = 0
    /\ pc = "load"
    /\ ladder = FromState(DefaultState)
    /\ action = "None"
    /\ backoff = INITIAL_BACKOFF
    /\ file = {}
    /\ powered = TRUE
    /\ rebooted = {}
    /\ cycled = {}
    /\ interrupted = {}
    /\ further = 0

(* `d` units of time pass. *)
Passes(d) ==
    /\ clock + d <= Horizon
    /\ clock' = clock + d

-----------------------------------------------------------------------------
(* store.load: the default state if the file is absent, unreadable or not  *)
(* JSON; reboots of more than a day ago are dropped.                       *)
Loaded(now) ==
    {PruneReboots(s, now) : s \in file}
        \cup (IF file = {} \/ "load" \in Faults THEN {DefaultState} ELSE {})

(* The memory of the supervisor is gone. *)
Stopped ==
    /\ pc' = "load"
    /\ ladder' = FromState(DefaultState)
    /\ action' = "None"
    /\ backoff' = INITIAL_BACKOFF
    /\ further' = 0

(* A variant in which a new instance starts with a fresh ladder. *)
Load_Forgets ==
    /\ pc = "load"
    /\ \E d \in Durations : Passes(d)
    /\ pc' = "setup"
    /\ UNCHANGED <<ladder, action, backoff, file, powered, history>>

(* The supervisor starts, `d` after the previous one stopped. *)
Load ==
    /\ pc = "load"
    /\ \E d \in Durations : Passes(d)
    /\ \E s \in Loaded(clock') : ladder' = FromState(s)
    /\ pc' = "setup"
    /\ UNCHANGED <<action, backoff, file, powered, history>>

(* A variant in which a session does not start the backoff over. *)
SetupSucceeds_KeepsBackoff ==
    /\ pc = "setup"
    /\ powered
    /\ ladder' = OnConnectionSuccess(ladder)
    /\ further' = 0
    /\ pc' = "connected"
    /\ UNCHANGED <<clock, action, backoff, file, powered, rebooted, cycled,
                   interrupted>>

SetupSucceeds ==
    /\ pc = "setup"
    /\ powered
    /\ ladder' = OnConnectionSuccess(ladder)
    /\ backoff' = INITIAL_BACKOFF
    /\ further' = 0
    /\ pc' = "connected"
    /\ UNCHANGED <<clock, action, file, powered, rebooted, cycled, interrupted>>

(* The poll of wait_for_disconnect_or_shutdown sees the link gone: the     *)
(* supervisor sets up again at once, and counts no failure.                *)
LinkLost ==
    /\ pc = "connected"
    /\ \E d \in Durations : Passes(d)
    /\ pc' = "setup"
    /\ UNCHANGED <<ladder, action, backoff, file, powered, history>>

(* An attempt fails after `d`, and the ladder decides. *)
SetupFails ==
    /\ pc = "setup"
    /\ \E d \in Durations : Passes(d)
    /\ LET result == OnConnectionFailure(ladder, clock')
       IN  /\ ladder' = result.ladder
           /\ action' = result.action
           /\ pc' = CASE result.action = "PowerCycle" -> "power_off"
                      [] result.action = "Reboot" -> "save"
                      [] OTHER -> "wait"
    /\ further' = IF ladder.state.last_power_cycle_at # {} THEN further + 1 ELSE 0
    /\ UNCHANGED <<backoff, file, powered, rebooted, cycled, interrupted>>

-----------------------------------------------------------------------------
(* power_cycle_adapter sets Powered to false; on an error, of a call that  *)
(* took effect or of one that did not, it returns without trying the       *)
(* second half.  The supervisor only logs the error.                       *)
PowerOff ==
    /\ pc = "power_off"
    /\ cycled' = cycled \cup {clock}
    /\ \/ powered' = FALSE /\ pc' = "power_on"
       \/ powered' \in {powered, FALSE} /\ pc' = "save"
    /\ UNCHANGED <<clock, ladder, action, backoff, file, rebooted,
                   interrupted, further>>

(* A variant that saves nothing if the power-cycle failed. *)
PowerOn_SkipsSave ==
    /\ pc = "power_on"
    /\ \/ powered' = TRUE /\ pc' = "save"
       \/ UNCHANGED powered /\ pc' = "wait"
    /\ UNCHANGED <<clock, ladder, action, backoff, file, history>>

(* The second half; if D-Bus refuses it the adapter is left off. *)
PowerOn ==
    /\ pc = "power_on"
    /\ \/ powered' = TRUE
       \/ UNCHANGED powered
    /\ pc' = "save"
    /\ UNCHANGED <<clock, ladder, action, backoff, file, history>>

AfterSave == IF action = "Reboot" THEN "reboot" ELSE "wait"

(* store.save opens the file, which truncates it ... *)
SaveCreate ==
    /\ pc = "save"
    /\ \/ /\ file' = {}
          /\ pc' = "write"
       \/ /\ "create" \in Faults
          /\ pc' = AfterSave
          /\ UNCHANGED file
    /\ UNCHANGED <<clock, ladder, action, backoff, powered, history>>

(* A variant that persists only the power-cycle. *)
SaveWrite_DropsReboots ==
    /\ pc = "write"
    /\ \/ file' = {[ladder.state EXCEPT !.reboot_timestamps = {}]}
       \/ "write" \in Faults /\ UNCHANGED file
    /\ pc' = AfterSave
    /\ UNCHANGED <<clock, ladder, action, backoff, powered, history>>

(* ... and writes, flushes and syncs it.  An error is logged, no more. *)
SaveWrite ==
    /\ pc = "write"
    /\ \/ file' = {ladder.state}
       \/ "write" \in Faults /\ UNCHANGED file
    /\ pc' = AfterSave
    /\ UNCHANGED <<clock, ladder, action, backoff, powered, history>>

(* reboot_host: the call does not return if the kernel obeys. *)
RebootHost ==
    /\ pc = "reboot"
    /\ \/ /\ rebooted' = rebooted \cup {clock}
          /\ powered' = TRUE
          /\ Stopped
       \/ /\ pc' = "wait"
          /\ UNCHANGED <<ladder, action, backoff, powered, rebooted, further>>
    /\ UNCHANGED <<clock, file, cycled, interrupted>>

(* A variant without the cap. *)
NextBackoff_Uncapped(b) == 2 * b

NextBackoff(b) == IF 2 * b > MAX_BACKOFF THEN MAX_BACKOFF ELSE 2 * b

(* wait_for_shutdown_or_timeout, then the next attempt. *)
WaitBackoff ==
    /\ pc = "wait"
    /\ Passes(backoff)
    /\ backoff' = NextBackoff(backoff)
    /\ action' = "None"
    /\ pc' = "setup"
    /\ UNCHANGED <<ladder, file, powered, history>>

-----------------------------------------------------------------------------
(* The MQTT event loop fails and run_app_instance returns: the guard       *)
(* aborts the supervisor, which takes effect where it awaits.              *)
InstanceRestart ==
    /\ pc \in {"setup", "connected", "wait"}
    /\ Stopped
    /\ UNCHANGED <<clock, file, powered, rebooted, cycled, interrupted>>

(* A power-cycle was attempted and its time is not yet saved. *)
CycleUnsaved == pc \in {"power_on", "save", "write"} /\ action = "PowerCycle"

(* The process is killed, or the power is lost (and the adapter comes back *)
(* on).  In the middle of a save the file is torn, and after a power-cycle *)
(* its time is lost: both only where Faults says so.                       *)
ProcessDies ==
    /\ pc # "load"
    /\ pc = "write" => "torn" \in Faults
    /\ CycleUnsaved => "unsaved" \in Faults
    /\ powered' \in {powered, TRUE}
    /\ interrupted' = IF CycleUnsaved THEN interrupted \cup {clock} ELSE interrupted
    /\ Stopped
    /\ UNCHANGED <<clock, file, rebooted, cycled>>

Next ==
    \/ Load
    \/ SetupSucceeds
    \/ SetupFails
    \/ LinkLost
    \/ PowerOff
    \/ PowerOn
    \/ SaveCreate
    \/ SaveWrite
    \/ RebootHost
    \/ WaitBackoff
    \/ InstanceRestart
    \/ ProcessDies

Spec == Init /\ [][Next]_vars

-----------------------------------------------------------------------------
(* What the supervisor promises of reboots. *)
Limiter == INSTANCE RebootLimiter WITH now <- clock, granted <- rebooted

(* Reboots are rationed (REBOOT_MAX_24H a day, REBOOT_RATE_LIMIT apart)    *)
(* over the whole life of the host: across crashes, restarts of the        *)
(* instance and the reboots themselves, each of which empties the memory   *)
(* the ladder counts in, so that only the state file carries the ration.   *)
RebootsRationed == Limiter!Spec

(* The host is rebooted only after a power-cycle of the adapter was tried, *)
(* in this life of the process or in an earlier one (rung 3 after rung 2). *)
RungOrder == \A t \in rebooted : \E c \in cycled : c < t

(* The delay that belongs to the n-th failure in a row: INITIAL_BACKOFF,   *)
(* doubled each time, up to MAX_BACKOFF.                                   *)
Doubled[n \in Nat] == IF n = 0 THEN 1 ELSE 2 * Doubled[n - 1]

Delay(n) ==
    LET uncapped == INITIAL_BACKOFF * Doubled[n - 1]
    IN  IF uncapped > MAX_BACKOFF THEN MAX_BACKOFF ELSE uncapped

(* The first n of these delays together. *)
Delays[n \in Nat] == IF n = 0 THEN 0 ELSE Delays[n - 1] + Delay(n)

(* The delay, which the supervisor keeps, goes with the streak, which the  *)
(* ladder counts: after the n-th failure in a row it is Delay(n), and the  *)
(* first failure after a session or a restart starts over.                 *)
BackoffFollowsStreak ==
    pc = "wait" => backoff = Delay(ladder.consecutive_failures)

(* What is left of the ration of reboots when no stamp survives one (the   *)
(* save fails or is torn, or the load fails): two reboots are at least the *)
(* delays of a whole streak apart, counted anew after each restart.        *)
NoRebootLoop ==
    \A r, s \in rebooted : r < s => s - r >= Delays[RebootThreshold - 1]

(* Two power-cycles are never closer than POWER_CYCLE_RATE_LIMIT, restarts *)
(* in between included, unless the process died before it saved the first. *)
PowerCyclesSpaced ==
    \A c, d \in cycled :
        c < d /\ d - c < POWER_CYCLE_RATE_LIMIT => c \in interrupted

(* An adapter that a failed or interrupted power-cycle left off can only   *)
(* be brought back by the ladder: rung 3 is armed, in memory or, while the *)
(* supervisor is down, in the file, so a reboot can still come.  Only if   *)
(* the process died in every power-cycle so far is rung 3 not armed.       *)
AdapterOffIsArmed ==
    ~powered =>
        \/ cycled # {} /\ cycled \subseteq interrupted
        \/ IF pc = "load" THEN \E s \in file : s.last_power_cycle_at # {}
           ELSE ladder.state.last_power_cycle_at # {}

-----------------------------------------------------------------------------
(* What comments and documents of the repository say.                      *)

(* resilience.rs:82, "10 further consecutive failures after a power-cycle  *)
(* has been attempted -> Reboot".                                          *)
TenFurtherFailures ==
    action = "Reboot" /\ pc = "reboot" => further >= REBOOT_EXTRA_FAILURES

(* README.md:175, "max 3 reboots per 24 hours", with the state "persisted  *)
(* durably" (README.md:184).                                               *)
RebootBudget == Limiter!Budget
=============================================================================
