-------------------------- MODULE EscalationProofs --------------------------
(***************************************************************************)
(* Theorems about the supervisor, for every value of the thresholds, the   *)
(* durations, the horizon and, where a theorem says so, the faults.        *)
(***************************************************************************)
EXTENDS Escalation, FiniteSetTheorems, RecursionProofs, TLAPS

-----------------------------------------------------------------------------
(* The ladder keeps its type.                                              *)

LEMMA PruneType ==
    ASSUME NEW s \in ResilienceState, NEW now \in Time
    PROVE  PruneReboots(s, now) \in ResilienceState
BY DEF PruneReboots, ResilienceState

LEMMA FailureType ==
    ASSUME NEW l \in ResilienceLadder, NEW now \in Time
    PROVE  /\ OnConnectionFailure(l, now).ladder \in ResilienceLadder
           /\ OnConnectionFailure(l, now).action \in LadderAction
<1> DEFINE counted == Counted(l, now)
           a == Decision(counted, now)
<1>1. PruneReboots(l.state, now) \in ResilienceState
    BY PruneType DEF ResilienceLadder
<1>2. counted \in ResilienceLadder
    BY <1>1 DEF Counted, ResilienceLadder, Time
<1>3. a \in LadderAction
    BY DEF Decision, LadderAction
<1> HIDE DEF counted, a
<1>4. {now} \in Option(Time)
    BY DEF Option
<1>5. Recorded(counted, a, now) \in ResilienceLadder
    <2>1. CASE a = "Reboot"
        BY <1>2, <2>1 DEF Recorded, ResilienceLadder, ResilienceState
    <2>2. CASE a = "PowerCycle"
        BY <1>2, <1>4, <2>2 DEF Recorded, ResilienceLadder, ResilienceState
    <2>3. CASE a \notin {"Reboot", "PowerCycle"}
        BY <1>2, <2>3 DEF Recorded
    <2> QED BY <2>1, <2>2, <2>3
<1>6. OnConnectionFailure(l, now) = [ladder |-> Recorded(counted, a, now),
                                     action |-> a]
    BY DEF OnConnectionFailure, counted, a
<1> QED BY <1>3, <1>5, <1>6

LEMMA FreshType == FromState(DefaultState) \in ResilienceLadder
BY DEF FromState, DefaultState, ResilienceLadder, ResilienceState, Option

LEMMA ThresholdType == RebootThreshold \in Nat /\ RebootThreshold > 1
BY LadderAssumption DEF RebootThreshold

LEMMA InitTypeOK == Init => TypeOK
BY FreshType, EscalationAssumption
   DEF Init, TypeOK, Time, Locations, LadderAction, Option

LEMMA PassesType ==
    ASSUME clock \in Time, NEW d \in Nat, Passes(d)
    PROVE  clock' \in Time /\ clock' = clock + d
BY DEF Passes, Time

LEMMA NextTypeOK == TypeOK /\ [Next]_vars => TypeOK'
<1> SUFFICES ASSUME TypeOK, [Next]_vars PROVE TypeOK'
    OBVIOUS
<1> USE EscalationAssumption
<1>t. (\E d \in Durations : Passes(d)) => clock' \in Time
    BY PassesType DEF TypeOK
<1>s. Stopped => ladder' \in ResilienceLadder /\ pc' \in Locations
                 /\ action' \in LadderAction /\ further' \in Nat
                 /\ backoff' \in INITIAL_BACKOFF .. MAX_BACKOFF
    BY FreshType DEF Stopped, Locations, LadderAction
<1>1. CASE Load
    <2>1. \A s \in Loaded(clock') : FromState(s) \in ResilienceLadder
        <3> SUFFICES ASSUME NEW s \in Loaded(clock')
                     PROVE  FromState(s) \in ResilienceLadder
            OBVIOUS
        <3>1. clock' \in Time
            BY <1>1, <1>t DEF Load
        <3>2. file \subseteq ResilienceState
            BY DEF TypeOK, Option
        <3>3. DefaultState \in ResilienceState
            BY DEF DefaultState, ResilienceState, Option
        <3>4. s \in ResilienceState
            BY <3>1, <3>2, <3>3, PruneType DEF Loaded
        <3> QED BY <3>4 DEF FromState, ResilienceLadder
    <2> QED BY <1>1, <1>t, <2>1 DEF Load, TypeOK, history, Locations
<1>2. CASE SetupSucceeds
    <2>1. OnConnectionSuccess(ladder) \in ResilienceLadder
        BY DEF OnConnectionSuccess, TypeOK, ResilienceLadder
    <2> QED BY <1>2, <2>1 DEF SetupSucceeds, TypeOK, Locations
<1>3. CASE SetupFails
    <2>1. clock' \in Time
        BY <1>3, <1>t DEF SetupFails
    <2>2. ladder' \in ResilienceLadder /\ action' \in LadderAction
        BY <1>3, <2>1, FailureType DEF SetupFails, TypeOK
    <2>3. pc' \in Locations
        BY <1>3 DEF SetupFails, Locations
    <2> QED BY <1>3, <2>1, <2>2, <2>3 DEF SetupFails, TypeOK
<1>4. CASE LinkLost
    BY <1>4, <1>t DEF LinkLost, TypeOK, history, Locations
<1>5. CASE PowerOff
    BY <1>5 DEF PowerOff, TypeOK, Locations
<1>6. CASE PowerOn
    BY <1>6 DEF PowerOn, TypeOK, history, Locations
<1>7. CASE SaveCreate
    BY <1>7 DEF SaveCreate, AfterSave, TypeOK, history, Locations, Option
<1>8. CASE SaveWrite
    <2>1. {ladder.state} \in Option(ResilienceState)
        BY DEF TypeOK, ResilienceLadder, Option
    <2> QED BY <1>8, <2>1 DEF SaveWrite, AfterSave, TypeOK, history, Locations
<1>9. CASE RebootHost
    BY <1>9, <1>s DEF RebootHost, TypeOK, Locations
<1>10. CASE WaitBackoff
    <2>1. backoff \in Nat
        BY DEF TypeOK
    <2>2. clock' \in Time
        BY <1>10, <2>1, PassesType DEF WaitBackoff, TypeOK
    <2>3. backoff' \in INITIAL_BACKOFF .. MAX_BACKOFF
        BY <1>10 DEF WaitBackoff, NextBackoff, TypeOK
    <2> QED BY <1>10, <2>2, <2>3
            DEF WaitBackoff, TypeOK, history, Locations, LadderAction
<1>11. CASE InstanceRestart
    BY <1>11, <1>s DEF InstanceRestart, TypeOK
<1>12. CASE ProcessDies
    BY <1>12, <1>s DEF ProcessDies, TypeOK, Time
<1>13. CASE UNCHANGED vars
    BY <1>13 DEF vars, TypeOK
<1> QED BY <1>1, <1>2, <1>3, <1>4, <1>5, <1>6, <1>7, <1>8, <1>9, <1>10,
           <1>11, <1>12, <1>13 DEF Next

(* Whatever the faults, every variable keeps its type: the ladder holds at *)
(* most one power-cycle time, and the backoff stays within its bounds.     *)
THEOREM TypeCorrect == Spec => []TypeOK
BY InitTypeOK, NextTypeOK, PTL DEF Spec

-----------------------------------------------------------------------------
(* Rung 3 comes after rung 2, whatever the faults.                         *)

(* What the ladder and the file hold as the last power-cycle was really    *)
(* attempted, the one being started excepted.                              *)
PowerCycleIsReal ==
    /\ pc \notin {"load", "power_off"} =>
            ladder.state.last_power_cycle_at \subseteq cycled
    /\ \A s \in file : s.last_power_cycle_at \subseteq cycled

(* A streak of failures that goes on has waited since the last power-cycle,*)
(* so that its next failure is later than all of them.                     *)
StreakIsLater ==
    /\ pc = "connected" => ladder.consecutive_failures = 0
    /\ pc = "setup" /\ ladder.consecutive_failures > 0 =>
            \A c \in cycled : c < clock

Deciding == pc \in {"save", "write", "reboot"}

RungOrderInv ==
    /\ TypeOK
    /\ \A c \in cycled : c <= clock
    /\ pc \in {"power_off", "power_on"} => action = "PowerCycle"
    /\ pc = "reboot" => action = "Reboot"
    /\ PowerCycleIsReal
    /\ StreakIsLater
    /\ pc = "power_off" => ladder.state.last_power_cycle_at = {clock}
    /\ Deciding /\ action = "Reboot" => \E c \in cycled : c < clock
    /\ RungOrder

LEMMA CountedFacts ==
    ASSUME NEW l \in ResilienceLadder, NEW now \in Time
    PROVE  LET c == Counted(l, now)
           IN  /\ c.consecutive_failures = l.consecutive_failures + 1
               /\ c.state.last_power_cycle_at = l.state.last_power_cycle_at
               /\ c.state.reboot_timestamps =
                    {t \in l.state.reboot_timestamps :
                        Recent(t, REBOOT_24H_WINDOW, now)}
               /\ c \in ResilienceLadder
<1>1. PruneReboots(l.state, now) \in ResilienceState
    BY PruneType DEF ResilienceLadder
<1> QED BY <1>1 DEF Counted, PruneReboots, ResilienceLadder, ResilienceState, Time

(* What a failure leaves in the state, by the action it decides.           *)
LEMMA FailureFacts ==
    ASSUME NEW l \in ResilienceLadder, NEW now \in Time
    PROVE  LET r == OnConnectionFailure(l, now)
               c == Counted(l, now)
           IN  /\ r.action = Decision(c, now)
               /\ r.ladder.consecutive_failures = l.consecutive_failures + 1
               /\ r.ladder.state.last_power_cycle_at =
                    IF r.action = "PowerCycle" THEN {now}
                    ELSE l.state.last_power_cycle_at
               /\ r.ladder.state.reboot_timestamps =
                    c.state.reboot_timestamps
                        \cup (IF r.action = "Reboot" THEN {now} ELSE {})
<1> DEFINE c == Counted(l, now)
           a == Decision(c, now)
<1>1. /\ c.consecutive_failures = l.consecutive_failures + 1
      /\ c.state.last_power_cycle_at = l.state.last_power_cycle_at
      /\ c \in ResilienceLadder
    BY CountedFacts
<1>2. OnConnectionFailure(l, now)
        = [ladder |-> Recorded(c, a, now), action |-> a]
    BY DEF OnConnectionFailure
<1> HIDE DEF c, a
<1>3. /\ Recorded(c, a, now).consecutive_failures = c.consecutive_failures
      /\ Recorded(c, a, now).state.last_power_cycle_at =
            IF a = "PowerCycle" THEN {now} ELSE c.state.last_power_cycle_at
      /\ Recorded(c, a, now).state.reboot_timestamps =
            c.state.reboot_timestamps
                \cup (IF a = "Reboot" THEN {now} ELSE {})
    <2>1. CASE a = "Reboot"
        BY <1>1, <2>1 DEF Recorded, ResilienceLadder, ResilienceState
    <2>2. CASE a = "PowerCycle"
        BY <1>1, <2>2 DEF Recorded, ResilienceLadder, ResilienceState
    <2>3. CASE a \notin {"Reboot", "PowerCycle"}
        BY <1>1, <2>3 DEF Recorded
    <2> QED BY <2>1, <2>2, <2>3
<1> QED BY <1>1, <1>2, <1>3 DEF c, a

(* A reboot is decided only with a power-cycle known and a streak of at    *)
(* least two failures, this one included.                                  *)
LEMMA RebootDecided ==
    ASSUME NEW l \in ResilienceLadder, NEW now \in Time,
           OnConnectionFailure(l, now).action = "Reboot"
    PROVE  /\ RebootAllowed(Counted(l, now), now)
           /\ l.state.last_power_cycle_at # {}
           /\ l.consecutive_failures > 0
<1>1. RebootAllowed(Counted(l, now), now)
    BY FailureFacts DEF Decision
<1>2. /\ l.state.last_power_cycle_at # {}
      /\ l.consecutive_failures + 1
            >= POWER_CYCLE_THRESHOLD + REBOOT_EXTRA_FAILURES
    BY <1>1, CountedFacts DEF RebootAllowed, RebootDue
<1> QED BY <1>1, <1>2, LadderAssumption DEF ResilienceLadder

LEMMA InitRungOrder == Init => RungOrderInv
BY InitTypeOK
   DEF Init, RungOrderInv, PowerCycleIsReal, StreakIsLater, Deciding, RungOrder

LEMMA SetupFailsRungOrder == RungOrderInv /\ SetupFails => RungOrderInv'
<1> SUFFICES ASSUME RungOrderInv, SetupFails PROVE RungOrderInv'
    OBVIOUS
<1> USE EscalationAssumption
<1>1. TypeOK'
    BY NextTypeOK DEF RungOrderInv, Next
<1>2. clock \in Time /\ clock' \in Time /\ clock <= clock'
    BY <1>1, PassesType DEF SetupFails, RungOrderInv, TypeOK, Time
<1>3. cycled \subseteq Time /\ UNCHANGED <<cycled, rebooted, file>>
    BY DEF SetupFails, RungOrderInv, TypeOK
<1> DEFINE r == OnConnectionFailure(ladder, clock')
<1>4. /\ ladder' = r.ladder
      /\ action' = r.action
      /\ pc' = CASE r.action = "PowerCycle" -> "power_off"
                 [] r.action = "Reboot" -> "save"
                 [] OTHER -> "wait"
    BY DEF SetupFails
<1>5. ladder \in ResilienceLadder
    BY DEF RungOrderInv, TypeOK
<1>6. ladder'.state.last_power_cycle_at =
        IF r.action = "PowerCycle" THEN {clock'}
        ELSE ladder.state.last_power_cycle_at
    BY <1>2, <1>4, <1>5, FailureFacts
<1>7. r.action = "Reboot" => \E c \in cycled : c < clock'
    <2>1. SUFFICES ASSUME r.action = "Reboot" PROVE \E c \in cycled : c < clock'
        OBVIOUS
    <2>2. /\ ladder.state.last_power_cycle_at # {}
          /\ ladder.consecutive_failures > 0
        BY <1>2, <1>5, <2>1, RebootDecided
    <2>3. /\ ladder.state.last_power_cycle_at \subseteq cycled
          /\ \A c \in cycled : c < clock
        BY <2>2 DEF RungOrderInv, PowerCycleIsReal, StreakIsLater, SetupFails
    <2>4. PICK c \in cycled : c < clock
        BY <2>2, <2>3
    <2>5. c \in Nat /\ clock \in Nat /\ clock' \in Nat
        BY <1>2, <1>3 DEF Time
    <2> QED BY <1>2, <2>4, <2>5
<1> HIDE DEF r
<1>8. (pc' = "power_off" => r.action = "PowerCycle")
      /\ pc' \in {"power_off", "save", "wait"}
      /\ (pc' = "save" => r.action = "Reboot")
      /\ (r.action = "PowerCycle" => pc' = "power_off")
    <2>1. CASE r.action = "PowerCycle"
        BY <1>4, <2>1
    <2>2. CASE r.action = "Reboot"
        BY <1>4, <2>2
    <2>3. CASE r.action \notin {"PowerCycle", "Reboot"}
        BY <1>4, <2>3
    <2> QED BY <2>1, <2>2, <2>3
<1>9. PowerCycleIsReal'
    BY <1>3, <1>6, <1>8 DEF RungOrderInv, PowerCycleIsReal, SetupFails
<1>10. \A c \in cycled' : c <= clock'
    BY <1>2, <1>3 DEF RungOrderInv, Time
<1>11. Deciding' /\ action' = "Reboot" => \E c \in cycled' : c < clock'
    BY <1>3, <1>4, <1>7
<1>12. RungOrder'
    BY <1>3 DEF RungOrderInv, RungOrder
<1> QED BY <1>1, <1>4, <1>6, <1>8, <1>9, <1>10, <1>11, <1>12
        DEF RungOrderInv, StreakIsLater

LEMMA LoadRungOrder == RungOrderInv /\ Load => RungOrderInv'
<1> SUFFICES ASSUME RungOrderInv, Load PROVE RungOrderInv'
    OBVIOUS
<1> USE EscalationAssumption
<1>1. TypeOK'
    BY NextTypeOK DEF RungOrderInv, Next
<1>2. clock \in Time /\ clock' \in Time /\ clock <= clock'
    BY <1>1, PassesType DEF Load, RungOrderInv, TypeOK, Time
<1>3. cycled \subseteq Time /\ UNCHANGED <<cycled, rebooted, file>>
    BY DEF Load, RungOrderInv, TypeOK, history
<1>4. \A s \in Loaded(clock') : s.last_power_cycle_at \subseteq cycled
    <2>1. \A s \in file : PruneReboots(s, clock').last_power_cycle_at
                            = s.last_power_cycle_at
        BY DEF PruneReboots, ResilienceState, RungOrderInv, TypeOK, Option
    <2> QED BY <2>1 DEF Loaded, DefaultState, RungOrderInv, PowerCycleIsReal
<1>5. /\ ladder'.consecutive_failures = 0
      /\ ladder'.state.last_power_cycle_at \subseteq cycled
    BY <1>4 DEF Load, FromState
<1>6. PowerCycleIsReal'
    BY <1>3, <1>5 DEF RungOrderInv, PowerCycleIsReal
<1>7. \A c \in cycled' : c <= clock'
    BY <1>2, <1>3 DEF RungOrderInv, Time
<1>8. RungOrder'
    BY <1>3 DEF RungOrderInv, RungOrder
<1> QED BY <1>1, <1>5, <1>6, <1>7, <1>8
        DEF RungOrderInv, StreakIsLater, Deciding, Load

LEMMA NextRungOrder == RungOrderInv /\ [Next]_vars => RungOrderInv'
<1> SUFFICES ASSUME RungOrderInv, [Next]_vars PROVE RungOrderInv'
    OBVIOUS
<1> USE EscalationAssumption
<1>t. TypeOK /\ TypeOK'
    BY NextTypeOK DEF RungOrderInv
<1>c. clock \in Time /\ cycled \subseteq Time /\ rebooted \subseteq Time
    BY <1>t DEF TypeOK
<1>1. CASE Load
    BY <1>1, LoadRungOrder
<1>2. CASE SetupSucceeds
    BY <1>2, <1>t DEF SetupSucceeds, RungOrderInv, PowerCycleIsReal,
        StreakIsLater, Deciding, RungOrder, OnConnectionSuccess, TypeOK,
        ResilienceLadder
<1>3. CASE SetupFails
    BY <1>3, SetupFailsRungOrder
<1>4. CASE LinkLost
    <2>1. clock' \in Time /\ clock <= clock'
        BY <1>4, <1>t, PassesType DEF LinkLost, TypeOK, Time
    <2> QED BY <1>4, <1>t, <1>c, <2>1 DEF LinkLost, RungOrderInv, history,
            PowerCycleIsReal, StreakIsLater, Deciding, RungOrder, Time
<1>5. CASE PowerOff
    <2>1. /\ UNCHANGED <<clock, ladder, action, file, rebooted>>
          /\ pc = "power_off" /\ cycled' = cycled \cup {clock}
          /\ pc' \in {"power_on", "save"}
        BY <1>5 DEF PowerOff
    <2> QED BY <1>t, <1>c, <2>1 DEF RungOrderInv,
            PowerCycleIsReal, StreakIsLater, Deciding, RungOrder, Time
<1>6. CASE PowerOn
    BY <1>6, <1>t DEF PowerOn, RungOrderInv, history,
        PowerCycleIsReal, StreakIsLater, Deciding, RungOrder
<1>7. CASE SaveCreate
    BY <1>7, <1>t DEF SaveCreate, AfterSave, RungOrderInv, history,
        PowerCycleIsReal, StreakIsLater, Deciding, RungOrder
<1>8. CASE SaveWrite
    BY <1>8, <1>t DEF SaveWrite, AfterSave, RungOrderInv, history,
        PowerCycleIsReal, StreakIsLater, Deciding, RungOrder
<1>9. CASE RebootHost
    <2>1. \E c \in cycled : c < clock
        BY <1>9 DEF RebootHost, RungOrderInv, Deciding
    <2>2. RungOrder'
        BY <1>9, <2>1 DEF RebootHost, RungOrderInv, RungOrder
    <2> QED BY <1>9, <1>t, <2>2 DEF RebootHost, Stopped, RungOrderInv,
            PowerCycleIsReal, StreakIsLater, Deciding
<1>10. CASE WaitBackoff
    <2>1. backoff \in Nat \ {0}
        BY <1>t DEF TypeOK
    <2>2. clock' \in Time /\ clock < clock'
        BY <1>10, <1>t, <2>1, PassesType DEF WaitBackoff, TypeOK, Time
    <2> QED BY <1>10, <1>t, <1>c, <2>2 DEF WaitBackoff, RungOrderInv, history,
            PowerCycleIsReal, StreakIsLater, Deciding, RungOrder, Time
<1>11. CASE InstanceRestart
    BY <1>11, <1>t DEF InstanceRestart, Stopped, RungOrderInv,
        PowerCycleIsReal, StreakIsLater, Deciding, RungOrder
<1>12. CASE ProcessDies
    BY <1>12, <1>t DEF ProcessDies, Stopped, RungOrderInv,
        PowerCycleIsReal, StreakIsLater, Deciding, RungOrder
<1>13. CASE UNCHANGED vars
    BY <1>13, <1>t DEF vars, RungOrderInv,
        PowerCycleIsReal, StreakIsLater, Deciding, RungOrder
<1> QED BY <1>1, <1>2, <1>3, <1>4, <1>5, <1>6, <1>7, <1>8, <1>9, <1>10,
           <1>11, <1>12, <1>13 DEF Next

(* Whatever fails, in storage or elsewhere, the host is never rebooted     *)
(* before a power-cycle was tried.                                         *)
THEOREM RungOrderKept == Spec => []RungOrder
<1>1. RungOrderInv => RungOrder
    BY DEF RungOrderInv
<1> QED BY InitRungOrder, NextRungOrder, <1>1, PTL DEF Spec

-----------------------------------------------------------------------------
(* The backoff, and no loop of reboots, whatever the faults.               *)

LEMMA DoubledEquation ==
    /\ Doubled \in [Nat -> Nat \ {0}]
    /\ Doubled[0] = 1
    /\ \A n \in Nat : Doubled[n + 1] = 2 * Doubled[n]
<1> DEFINE Positive == Nat \ {0}
           step == [n \in Nat |-> [v \in Positive |-> 2 * v]]
<1>1. step \in [Nat -> [Positive -> Positive]]
    OBVIOUS
<1>2. PICK f : IsSequence(f, Positive, 1, step)
    <2>1. 1 \in Positive
        OBVIOUS
    <2> HIDE DEF step, Positive
    <2> QED BY <1>1, <2>1, SequenceExists
<1>3. \A n \in Nat : f[n] = IF n = 0 THEN 1 ELSE 2 * f[n - 1]
    <2> SUFFICES ASSUME NEW n \in Nat, n # 0 PROVE f[n] = 2 * f[n - 1]
        BY <1>2 DEF IsSequence
    <2>1. n - 1 \in Nat /\ (n - 1) + 1 = n
        OBVIOUS
    <2> QED BY <1>2, <2>1 DEF IsSequence
<1>4. f = [n \in Nat |-> IF n = 0 THEN 1 ELSE 2 * f[n - 1]]
    BY <1>2, <1>3 DEF IsSequence
<1>5. Doubled = [n \in Nat |-> IF n = 0 THEN 1 ELSE 2 * Doubled[n - 1]]
    BY <1>4 DEF Doubled
<1>6. Doubled[0] = 1 /\ \A n \in Nat : Doubled[n + 1] = 2 * Doubled[n]
    BY <1>5
<1> DEFINE T == {n \in Nat : Doubled[n] \in Positive}
<1>7. 0 \in T /\ \A n \in T : n + 1 \in T
    BY <1>6
<1>8. \A n \in Nat : n \in T
    <2> HIDE DEF T
    <2>1. T \in SUBSET Nat
        BY DEF T
    <2> QED BY <1>7, <2>1, SetInduction
<1>9. \A n \in Nat : Doubled[n] \in Positive
    BY <1>8
<1> QED BY <1>5, <1>6, <1>9

LEMMA DelayFacts ==
    /\ \A n \in Nat : Delay(n + 1) \in Nat
    /\ Delay(1) = INITIAL_BACKOFF
    /\ \A n \in Nat : NextBackoff(Delay(n + 1)) = Delay(n + 2)
<1> USE EscalationAssumption
<1>1. \A n \in Nat : (n + 1) - 1 = n /\ (n + 2) - 1 = n + 1
    OBVIOUS
<1>2. ASSUME NEW n \in Nat PROVE INITIAL_BACKOFF * Doubled[n] \in Nat
    BY DoubledEquation
<1>3. ASSUME NEW n \in Nat PROVE Delay(n + 1) \in Nat
    BY <1>1, <1>2 DEF Delay
<1>4. Delay(1) = INITIAL_BACKOFF
    BY DoubledEquation DEF Delay
<1>5. ASSUME NEW n \in Nat PROVE NextBackoff(Delay(n + 1)) = Delay(n + 2)
    <2> DEFINE x == INITIAL_BACKOFF * Doubled[n]
    <2>1. INITIAL_BACKOFF * Doubled[n + 1] = 2 * x
        BY DoubledEquation
    <2>2. x \in Nat
        BY <1>2
    <2>3. /\ Delay(n + 1) = IF x > MAX_BACKOFF THEN MAX_BACKOFF ELSE x
          /\ Delay(n + 2) = IF 2 * x > MAX_BACKOFF THEN MAX_BACKOFF ELSE 2 * x
        BY <1>1, <2>1 DEF Delay
    <2> HIDE DEF x
    <2> QED BY <2>2, <2>3 DEF NextBackoff
<1> QED BY <1>3, <1>4, <1>5

LEMMA DelaysEquation ==
    /\ Delays \in [Nat -> Nat]
    /\ Delays[0] = 0
    /\ \A n \in Nat : Delays[n + 1] = Delays[n] + Delay(n + 1)
<1> DEFINE step == [n \in Nat |-> [v \in Nat |-> v + Delay(n + 1)]]
<1>1. step \in [Nat -> [Nat -> Nat]]
    BY DelayFacts
<1>2. PICK f : IsSequence(f, Nat, 0, step)
    <2>1. 0 \in Nat
        OBVIOUS
    <2> HIDE DEF step
    <2> QED BY <1>1, <2>1, SequenceExists
<1>3. \A n \in Nat : f[n] = IF n = 0 THEN 0 ELSE f[n - 1] + Delay(n)
    <2> SUFFICES ASSUME NEW n \in Nat, n # 0 PROVE f[n] = f[n - 1] + Delay(n)
        BY <1>2 DEF IsSequence
    <2>1. n - 1 \in Nat /\ (n - 1) + 1 = n
        OBVIOUS
    <2> QED BY <1>2, <2>1 DEF IsSequence
<1>4. f = [n \in Nat |-> IF n = 0 THEN 0 ELSE f[n - 1] + Delay(n)]
    BY <1>2, <1>3 DEF IsSequence
<1>5. Delays = [n \in Nat |-> IF n = 0 THEN 0 ELSE Delays[n - 1] + Delay(n)]
    BY <1>4 DEF Delays
<1>6. Delays[0] = 0 /\ \A n \in Nat : Delays[n + 1] = Delays[n] + Delay(n + 1)
    BY <1>5
<1> DEFINE T == {n \in Nat : Delays[n] \in Nat}
<1>7. 0 \in T /\ \A n \in T : n + 1 \in T
    BY <1>6, DelayFacts
<1>8. \A n \in Nat : n \in T
    <2> HIDE DEF T
    <2>1. T \in SUBSET Nat
        BY DEF T
    <2> QED BY <1>7, <2>1, SetInduction
<1>9. \A n \in Nat : Delays[n] \in Nat
    BY <1>8
<1> QED BY <1>5, <1>6, <1>9

(* A longer streak waits no less. *)
LEMMA DelaysGrow ==
    \A n \in Nat : \A m \in Nat : m <= n => Delays[m] <= Delays[n]
<1> DEFINE T == {n \in Nat : \A m \in Nat : m <= n => Delays[m] <= Delays[n]}
<1>1. 0 \in T
    BY DelaysEquation
<1>2. ASSUME NEW n \in T PROVE n + 1 \in T
    <2>1. ASSUME NEW m \in Nat, m <= n + 1 PROVE Delays[m] <= Delays[n + 1]
        <3>1. /\ n \in Nat /\ Delays[n] \in Nat /\ Delays[m] \in Nat
              /\ Delay(n + 1) \in Nat /\ Delays[n + 1] = Delays[n] + Delay(n + 1)
            BY DelaysEquation, DelayFacts
        <3>2. CASE m = n + 1
            BY <3>1, <3>2
        <3>3. CASE m <= n
            BY <3>1, <3>3
        <3> QED BY <2>1, <3>1, <3>2, <3>3
    <2> QED BY <2>1
<1>3. T \in SUBSET Nat /\ \A n \in T : n + 1 \in T
    BY <1>2
<1> HIDE DEF T
<1>4. \A n \in Nat : n \in T
    BY <1>1, <1>3, SetInduction
<1> QED BY <1>4 DEF T

(* The delays of the streak that have passed.                              *)
Waited == IF pc \in {"load", "setup", "connected"}
          THEN ladder.consecutive_failures
          ELSE ladder.consecutive_failures - 1

(* Every reboot so far is at least as old as these delays together: the    *)
(* streak began after it.                                                  *)
BackoffInv ==
    /\ TypeOK
    /\ Waited \in Nat
    /\ pc = "load" => ladder.consecutive_failures = 0
    /\ backoff = Delay(Waited + 1)
    /\ \A r \in rebooted : clock - r >= Delays[Waited]
    /\ NoRebootLoop
    /\ pc \in {"power_off", "power_on"} => action = "PowerCycle"
    /\ pc = "reboot" => action = "Reboot"
    /\ Deciding /\ action = "Reboot" => Waited >= RebootThreshold - 1

LEMMA InitBackoff == Init => BackoffInv
BY InitTypeOK, DelayFacts
   DEF Init, BackoffInv, Waited, NoRebootLoop, Deciding, FromState

(* A failure ends with the same delays passed.                             *)
LEMMA SetupFailsBackoff == BackoffInv /\ SetupFails => BackoffInv'
<1> SUFFICES ASSUME BackoffInv, SetupFails PROVE BackoffInv'
    OBVIOUS
<1> USE EscalationAssumption
<1>1. TypeOK /\ TypeOK'
    BY NextTypeOK DEF BackoffInv, Next
<1>2. /\ clock \in Nat /\ clock' \in Nat /\ clock <= clock'
      /\ clock' \in Time /\ rebooted \subseteq Nat
    BY <1>1, PassesType DEF SetupFails, TypeOK, Time
<1>3. /\ ladder \in ResilienceLadder /\ ladder.consecutive_failures \in Nat
      /\ UNCHANGED <<backoff, rebooted>> /\ pc = "setup"
    BY <1>1 DEF SetupFails, TypeOK, ResilienceLadder
<1> DEFINE r == OnConnectionFailure(ladder, clock')
<1>4. /\ ladder'.consecutive_failures = ladder.consecutive_failures + 1
      /\ action' = r.action
    BY <1>2, <1>3, FailureFacts DEF SetupFails
<1>5. /\ pc' \in {"power_off", "save", "wait"}
      /\ pc' = "power_off" => r.action = "PowerCycle"
    <2>1. CASE r.action = "PowerCycle"
        BY <2>1 DEF SetupFails
    <2>2. CASE r.action = "Reboot"
        BY <2>2 DEF SetupFails
    <2>3. CASE r.action \notin {"PowerCycle", "Reboot"}
        BY <2>3 DEF SetupFails
    <2> QED BY <2>1, <2>2, <2>3
<1>6. Waited = ladder.consecutive_failures /\ Waited' = Waited /\ Waited \in Nat
    BY <1>3, <1>4, <1>5 DEF Waited
<1>7. r.action = "Reboot" => Waited >= RebootThreshold - 1
    <2>1. SUFFICES ASSUME r.action = "Reboot" PROVE Waited >= RebootThreshold - 1
        OBVIOUS
    <2>2. ladder.consecutive_failures + 1 >= RebootThreshold
        BY <1>2, <1>3, <2>1, RebootDecided, CountedFacts
           DEF RebootAllowed, RebootDue, RebootThreshold
    <2> QED BY <1>6, <2>2, ThresholdType
<1>8. \A t \in rebooted : clock' - t >= Delays[Waited]
    BY <1>2, <1>6, DelaysEquation DEF BackoffInv
<1> HIDE DEF r
<1>9. NoRebootLoop' /\ backoff' = Delay(Waited' + 1)
    BY <1>3, <1>6 DEF BackoffInv, NoRebootLoop
<1> QED BY <1>1, <1>3, <1>4, <1>5, <1>6, <1>7, <1>8, <1>9 DEF BackoffInv, Deciding

(* The streak starts over where the backoff does.                          *)
LEMMA StartOver ==
    ASSUME BackoffInv, TypeOK', clock' \in Nat, clock <= clock',
           pc' \in {"load", "setup", "connected"},
           ladder'.consecutive_failures = 0, backoff' = INITIAL_BACKOFF,
           \A t \in rebooted' : t \in rebooted \/ t = clock',
           NoRebootLoop'
    PROVE  BackoffInv'
<1>1. Waited' = 0
    BY DEF Waited
<1>2. clock \in Nat /\ rebooted \subseteq Nat
    BY DEF BackoffInv, TypeOK, Time
<1>3. \A t \in rebooted : clock >= t
    <2>1. \A t \in rebooted : clock - t >= Delays[Waited] /\ Delays[Waited] \in Nat
        BY DelaysEquation DEF BackoffInv
    <2> QED BY <1>2, <2>1
<1>4. \A t \in rebooted' : clock' - t >= Delays[0]
    <2> SUFFICES ASSUME NEW t \in rebooted' PROVE clock' - t >= 0
        BY DelaysEquation
    <2>1. t \in Nat
        BY DEF TypeOK, Time
    <2>2. t <= clock'
        BY <1>2, <1>3, <2>1
    <2>3. \A m, n \in Nat : m <= n => n - m >= 0
        OBVIOUS
    <2> QED BY <2>1, <2>2, <2>3
<1> QED BY <1>1, <1>4, DelayFacts DEF BackoffInv, Deciding

LEMMA RebootHostBackoff == BackoffInv /\ RebootHost => BackoffInv'
<1> SUFFICES ASSUME BackoffInv, RebootHost PROVE BackoffInv'
    OBVIOUS
<1> USE EscalationAssumption
<1>1. TypeOK /\ TypeOK'
    BY NextTypeOK DEF BackoffInv, Next
<1>2. clock \in Nat /\ clock' = clock /\ rebooted \subseteq Nat /\ pc = "reboot"
    BY <1>1 DEF RebootHost, TypeOK, Time
<1>3. CASE rebooted' = rebooted \cup {clock} /\ Stopped
    <2>1. Delays[RebootThreshold - 1] <= Delays[Waited] /\ Delays[Waited] \in Nat
          /\ Delays[RebootThreshold - 1] \in Nat
        BY <1>2, ThresholdType, DelaysGrow, DelaysEquation DEF BackoffInv, Deciding
    <2>2. \A t \in rebooted : clock - t >= Delays[RebootThreshold - 1]
        BY <1>2, <2>1 DEF BackoffInv
    <2>3. NoRebootLoop'
        <3> SUFFICES ASSUME NEW t \in rebooted', NEW u \in rebooted', t < u
                     PROVE  u - t >= Delays[RebootThreshold - 1]
            BY DEF NoRebootLoop
        <3>1. CASE u \in rebooted
            <4>1. t \in rebooted
                BY <1>2, <1>3, <2>1, <2>2, <3>1
            <4> QED BY <3>1, <4>1 DEF BackoffInv, NoRebootLoop
        <3>2. CASE u = clock
            BY <1>2, <1>3, <2>2, <3>2
        <3> QED BY <1>3, <3>1, <3>2
    <2> QED BY <1>1, <1>2, <1>3, <2>3, StartOver DEF Stopped, FromState
<1>4. CASE pc' = "wait" /\ UNCHANGED <<ladder, action, backoff, rebooted>>
    <2>1. Waited' = Waited
        BY <1>2, <1>4 DEF Waited
    <2> QED BY <1>1, <1>2, <1>4, <2>1 DEF BackoffInv, NoRebootLoop, Deciding
<1> QED BY <1>3, <1>4 DEF RebootHost

LEMMA WaitBackoffKeeps == BackoffInv /\ WaitBackoff => BackoffInv'
<1> SUFFICES ASSUME BackoffInv, WaitBackoff PROVE BackoffInv'
    OBVIOUS
<1> USE EscalationAssumption
<1>1. TypeOK /\ TypeOK'
    BY NextTypeOK DEF BackoffInv, Next
<1>2. /\ clock \in Nat /\ clock' = clock + backoff /\ rebooted \subseteq Nat
      /\ backoff \in Nat /\ UNCHANGED <<ladder, rebooted>>
      /\ pc = "wait" /\ pc' = "setup" /\ ladder.consecutive_failures \in Nat
    BY <1>1, PassesType DEF WaitBackoff, Passes, history, TypeOK, Time, ResilienceLadder
<1>3. Waited' = Waited + 1 /\ Waited' \in Nat /\ Waited \in Nat
    BY <1>2 DEF Waited, BackoffInv
<1>4. backoff' = Delay(Waited' + 1)
    BY <1>3, DelayFacts DEF WaitBackoff, BackoffInv
<1>5. \A t \in rebooted' : clock' - t >= Delays[Waited']
    <2>1. /\ Delays[Waited + 1] = Delays[Waited] + backoff
          /\ Delays[Waited] \in Nat
        BY <1>3, DelaysEquation DEF BackoffInv
    <2> QED BY <1>2, <1>3, <2>1 DEF BackoffInv
<1>6. NoRebootLoop'
    BY <1>2 DEF BackoffInv, NoRebootLoop
<1> QED BY <1>1, <1>2, <1>3, <1>4, <1>5, <1>6 DEF BackoffInv, Deciding

LEMMA NextBackoffInv == BackoffInv /\ [Next]_vars => BackoffInv'
<1> SUFFICES ASSUME BackoffInv, [Next]_vars PROVE BackoffInv'
    OBVIOUS
<1> USE EscalationAssumption
<1>t. TypeOK /\ TypeOK' /\ clock \in Nat
    BY NextTypeOK DEF BackoffInv, TypeOK, Time
<1>e. (\E d \in Durations : Passes(d)) => clock' \in Nat /\ clock <= clock'
    BY <1>t, PassesType DEF Time
<1>l. UNCHANGED rebooted => NoRebootLoop'
    BY DEF BackoffInv, NoRebootLoop
<1>s. Stopped => ladder'.consecutive_failures = 0 /\ pc' = "load"
                 /\ backoff' = INITIAL_BACKOFF
    BY DEF Stopped, FromState
<1>1. CASE Load
    <2>1. /\ ladder'.consecutive_failures = 0 /\ pc' = "setup" /\ pc = "load"
          /\ UNCHANGED <<backoff, rebooted>> /\ clock' \in Nat /\ clock <= clock'
        BY <1>1, <1>e DEF Load, FromState, history
    <2>2. backoff' = INITIAL_BACKOFF
        BY <2>1, DelayFacts DEF BackoffInv, Waited
    <2> QED BY <1>t, <1>l, <2>1, <2>2, StartOver
<1>2. CASE SetupSucceeds
    <2>1. ladder'.consecutive_failures = 0
        BY <1>2, <1>t DEF SetupSucceeds, OnConnectionSuccess, TypeOK, ResilienceLadder
    <2> QED BY <1>2, <1>t, <1>l, <2>1, StartOver DEF SetupSucceeds
<1>3. CASE LinkLost
    <2>1. /\ UNCHANGED <<ladder, action, backoff, rebooted>>
          /\ pc = "connected" /\ pc' = "setup" /\ Waited' = Waited
        BY <1>3 DEF LinkLost, history, Waited
    <2>2. \A t \in rebooted' : clock' - t >= Delays[Waited']
        BY <1>3, <1>t, <1>e, <2>1, DelaysEquation DEF LinkLost, BackoffInv, TypeOK, Time
    <2> QED BY <1>t, <1>l, <2>1, <2>2 DEF BackoffInv, Deciding
<1>4. CASE PowerOff \/ PowerOn
    <2>1. /\ UNCHANGED <<clock, ladder, action, backoff, rebooted>> /\ Waited' = Waited
          /\ pc \in {"power_off", "power_on"} /\ pc' \in {"power_on", "save"}
        BY <1>4 DEF PowerOff, PowerOn, history, Waited
    <2> QED BY <1>t, <1>l, <2>1 DEF BackoffInv, Deciding
<1>5. CASE SaveCreate \/ SaveWrite
    <2>1. /\ UNCHANGED <<clock, ladder, action, backoff, rebooted>> /\ Waited' = Waited
          /\ pc \in {"save", "write"} /\ pc' \in {"write", "reboot", "wait"}
          /\ pc' = "reboot" => action = "Reboot"
        BY <1>5 DEF SaveCreate, SaveWrite, AfterSave, history, Waited
    <2> QED BY <1>t, <1>l, <2>1 DEF BackoffInv, Deciding
<1>6. CASE InstanceRestart \/ ProcessDies
    <2>1. UNCHANGED <<clock, rebooted>> /\ Stopped
        BY <1>6 DEF InstanceRestart, ProcessDies
    <2> QED BY <1>t, <1>l, <1>s, <2>1, StartOver
<1>7. CASE UNCHANGED vars
    BY <1>7, <1>t DEF vars, BackoffInv, Deciding, Waited, NoRebootLoop
<1> QED BY <1>1, <1>2, <1>3, <1>4, <1>5, <1>6, <1>7,
           SetupFailsBackoff, RebootHostBackoff, WaitBackoffKeeps DEF Next

(* Whatever storage loses and however often the process restarts, two      *)
(* reboots are at least the delays of a whole streak apart.                *)
THEOREM NoRebootLoopEver == Spec => []NoRebootLoop
<1>1. BackoffInv => NoRebootLoop
    BY DEF BackoffInv
<1> QED BY InitBackoff, NextBackoffInv, <1>1, PTL DEF Spec

(* The wait after the n-th failure in a row is the n-th delay of the       *)
(* schedule, over sessions, restarts and reboots.                          *)
THEOREM BackoffAlwaysFollowsStreak == Spec => []BackoffFollowsStreak
<1>1. BackoffInv => BackoffFollowsStreak
    BY DEF BackoffInv, BackoffFollowsStreak, Waited, TypeOK, ResilienceLadder
<1> QED BY InitBackoff, NextBackoffInv, <1>1, PTL DEF Spec

-----------------------------------------------------------------------------
(* Reboots are rationed, if storage keeps what was synced.  The faults     *)
(* left out each lose the stamps of past reboots: a load that fails, and a *)
(* save that fails or is cut short after it truncated the file or that     *)
(* never opened it.                                                        *)

SoundStorage == Faults \subseteq {"unsaved"}

LEMMA RecentBefore ==
    \A t, now, later, span \in Nat :
        now <= later /\ later - t < span => now - t < span
OBVIOUS

LEMMA NotSpaced ==
    \A t, now, limit, day \in Nat :
        limit <= day /\ ~(now - t >= limit) => now - t < limit /\ now - t < day
OBVIOUS

InLastDay(t) == clock - t < REBOOT_24H_WINDOW

(* The reboots of the last day are all known to the ladder and, but while  *)
(* the file is being rewritten, to the file.                               *)
RebootsRemembered ==
    \A t \in rebooted :
        /\ t <= clock
        /\ InLastDay(t) /\ pc # "load" => t \in ladder.state.reboot_timestamps
        /\ InLastDay(t) /\ pc # "write" =>
                \E s \in file : t \in s.reboot_timestamps

(* A reboot that was decided is stamped in the ladder before it is saved,  *)
(* in the file before it is done, and is within the ration until then.     *)
DecidedReboot ==
    /\ pc \in {"power_off", "power_on"} => action = "PowerCycle"
    /\ pc = "reboot" => action = "Reboot"
    /\ Deciding /\ action = "Reboot" =>
            /\ clock \in ladder.state.reboot_timestamps
            /\ \A t \in rebooted : clock - t >= REBOOT_RATE_LIMIT
            /\ Cardinality(Limiter!Within24h(clock)) < REBOOT_MAX_24H
    /\ pc = "reboot" => \E s \in file : clock \in s.reboot_timestamps

FiniteMemory ==
    /\ IsFiniteSet(ladder.state.reboot_timestamps)
    /\ \A s \in file : IsFiniteSet(s.reboot_timestamps)

RationInv ==
    /\ TypeOK
    /\ FiniteMemory
    /\ RebootsRemembered
    /\ DecidedReboot

LEMMA InitRation == Init => RationInv
BY InitTypeOK, FS_EmptySet
   DEF Init, RationInv, FiniteMemory, RebootsRemembered, DecidedReboot,
       Deciding, FromState, DefaultState

(* What the ladder remembers at a later time it remembered before, and a   *)
(* reboot that is still of the last day was so before.                     *)
LEMMA RememberedLater ==
    ASSUME RationInv, pc \notin {"load", "write"}, clock' \in Time, clock <= clock',
           NEW t \in rebooted, clock' - t < REBOOT_24H_WINDOW
    PROVE  /\ t \in ladder.state.reboot_timestamps
           /\ \E s \in file : t \in s.reboot_timestamps
           /\ t <= clock'
<1>1. t \in Nat /\ clock \in Nat /\ clock' \in Nat /\ REBOOT_24H_WINDOW \in Nat
    BY LadderAssumption DEF RationInv, TypeOK, Time
<1>2. InLastDay(t)
    BY <1>1, RecentBefore DEF InLastDay
<1> QED BY <1>1, <1>2 DEF RationInv, RebootsRemembered

LEMMA SetupFailsRation == RationInv /\ SetupFails => RationInv'
<1> SUFFICES ASSUME RationInv, SetupFails PROVE RationInv'
    OBVIOUS
<1> USE EscalationAssumption
<1>1. TypeOK /\ TypeOK'
    BY NextTypeOK DEF RationInv, Next
<1>2. clock \in Time /\ clock' \in Time /\ clock <= clock'
    BY <1>1, PassesType DEF SetupFails, TypeOK, Time
<1>3. UNCHANGED <<rebooted, file>> /\ rebooted \subseteq Time /\ pc = "setup"
    BY <1>1 DEF SetupFails, TypeOK
<1>4. ladder \in ResilienceLadder
    BY <1>1 DEF TypeOK
<1> DEFINE r == OnConnectionFailure(ladder, clock')
           c == Counted(ladder, clock')
<1>5. ladder' = r.ladder /\ action' = r.action
    BY DEF SetupFails
<1>6. pc' \in {"power_off", "save", "wait"}
    BY DEF SetupFails
<1>61. pc' = "power_off" => r.action = "PowerCycle"
    <2>1. CASE r.action = "Reboot"
        BY <2>1 DEF SetupFails
    <2>2. CASE r.action \notin {"PowerCycle", "Reboot"}
        BY <2>2 DEF SetupFails
    <2> QED BY <2>1, <2>2
<1>7. c.state.reboot_timestamps =
        {t \in ladder.state.reboot_timestamps : Recent(t, REBOOT_24H_WINDOW, clock')}
    BY <1>2, <1>4, CountedFacts
<1>8. ladder'.state.reboot_timestamps =
        c.state.reboot_timestamps
            \cup (IF r.action = "Reboot" THEN {clock'} ELSE {})
    BY <1>2, <1>4, <1>5, FailureFacts
<1>9. \A t \in rebooted : clock' - t < REBOOT_24H_WINDOW =>
        t \in c.state.reboot_timestamps
    BY <1>2, <1>3, <1>7, RememberedLater DEF Recent
<1>10. IsFiniteSet(c.state.reboot_timestamps)
    BY <1>7, FS_Subset DEF RationInv, FiniteMemory
<1>11. r.action = "Reboot" => RebootAllowed(c, clock')
    BY <1>2, <1>4, RebootDecided
<1> HIDE DEF r, c
<1>12. FiniteMemory'
    <2>1. IsFiniteSet(ladder'.state.reboot_timestamps)
        <3>1. CASE r.action = "Reboot"
            <4>1. IsFiniteSet(c.state.reboot_timestamps \cup {clock'})
                BY <1>10, FS_AddElement
            <4> QED BY <1>8, <3>1, <4>1
        <3>2. CASE r.action # "Reboot"
            BY <1>8, <1>10, <3>2
        <3> QED BY <3>1, <3>2
    <2> QED BY <1>3, <2>1 DEF RationInv, FiniteMemory
<1>13. RebootsRemembered'
    <2> SUFFICES ASSUME NEW t \in rebooted
                 PROVE  /\ t <= clock'
                        /\ InLastDay(t)' => t \in ladder'.state.reboot_timestamps
                        /\ InLastDay(t)' => \E s \in file : t \in s.reboot_timestamps
        BY <1>3 DEF RebootsRemembered
    <2>1. t <= clock'
        BY <1>2, <1>3 DEF RationInv, RebootsRemembered, Time
    <2>2. InLastDay(t)' <=> clock' - t < REBOOT_24H_WINDOW
        BY DEF InLastDay
    <2>3. InLastDay(t)' => t \in ladder'.state.reboot_timestamps
        BY <1>8, <1>9, <2>2
    <2>4. InLastDay(t)' => \E s \in file : t \in s.reboot_timestamps
        BY <1>2, <1>3, <2>2, RememberedLater
    <2> QED BY <2>1, <2>3, <2>4
<1>14. DecidedReboot'
    <2> SUFFICES ASSUME r.action = "Reboot"
                 PROVE  /\ clock' \in ladder'.state.reboot_timestamps
                        /\ \A t \in rebooted : clock' - t >= REBOOT_RATE_LIMIT
                        /\ Cardinality(Limiter!Within24h(clock)') < REBOOT_MAX_24H
        BY <1>3, <1>5, <1>6, <1>61 DEF DecidedReboot
    <2>1. /\ ~RebootRateLimited(c.state, clock')
          /\ ~RebootCapped(c.state, clock')
        BY <1>11 DEF RebootAllowed
    <2>2. clock' \in ladder'.state.reboot_timestamps
        BY <1>8
    <2>3. \A t \in rebooted : clock' - t >= REBOOT_RATE_LIMIT
        <3> SUFFICES ASSUME NEW t \in rebooted, ~(clock' - t >= REBOOT_RATE_LIMIT)
                     PROVE  FALSE
            OBVIOUS
        <3>1. /\ t \in Nat /\ clock' \in Nat
              /\ REBOOT_RATE_LIMIT \in Nat /\ REBOOT_24H_WINDOW \in Nat
              /\ REBOOT_RATE_LIMIT <= REBOOT_24H_WINDOW
            BY <1>2, <1>3, LadderAssumption DEF Time
        <3>2. clock' - t < REBOOT_RATE_LIMIT /\ clock' - t < REBOOT_24H_WINDOW
            BY <3>1, NotSpaced
        <3> QED BY <1>9, <2>1, <3>2 DEF RebootRateLimited, Recent
    <2>4. Cardinality(Limiter!Within24h(clock)') < REBOOT_MAX_24H
        <3> DEFINE seen == {t \in c.state.reboot_timestamps :
                                Recent(t, REBOOT_24H_WINDOW, clock')}
                   day == {u \in rebooted : u <= clock' /\ clock' - u < REBOOT_24H_WINDOW}
        <3>1. day \subseteq seen
            BY <1>9 DEF Recent
        <3>2. IsFiniteSet(seen)
            BY <1>10, FS_Subset
        <3>3. /\ IsFiniteSet(day)
              /\ Cardinality(day) <= Cardinality(seen)
            BY <3>1, <3>2, FS_Subset
        <3>4. Cardinality(day) \in Nat /\ Cardinality(seen) \in Nat
            BY <3>2, <3>3, FS_CardinalityType
        <3>5. ~(Cardinality(seen) >= REBOOT_MAX_24H)
            BY <2>1 DEF RebootCapped, RebootsWithin24h
        <3>6. Limiter!Within24h(clock)' = day
            BY <1>3 DEF Limiter!Within24h
        <3> HIDE DEF seen, day
        <3> QED BY <3>3, <3>4, <3>5, <3>6, LadderAssumption
    <2> QED BY <2>2, <2>3, <2>4
<1> QED BY <1>1, <1>12, <1>13, <1>14 DEF RationInv

LEMMA LoadRation == SoundStorage /\ RationInv /\ Load => RationInv'
<1> SUFFICES ASSUME SoundStorage, RationInv, Load PROVE RationInv'
    OBVIOUS
<1> USE EscalationAssumption
<1>1. TypeOK /\ TypeOK'
    BY NextTypeOK DEF RationInv, Next
<1>2. clock \in Time /\ clock' \in Time /\ clock <= clock'
    BY <1>1, PassesType DEF Load, TypeOK, Time
<1>3. UNCHANGED <<rebooted, file>> /\ rebooted \subseteq Time
      /\ pc = "load" /\ pc' = "setup"
    BY <1>1 DEF Load, TypeOK, history
<1>4. PICK s \in Loaded(clock') : ladder' = FromState(s)
    BY DEF Load
<1>5. IsFiniteSet(s.reboot_timestamps)
    <2>1. \A f \in file : IsFiniteSet(PruneReboots(f, clock').reboot_timestamps)
        <3> SUFFICES ASSUME NEW f \in file
                     PROVE  IsFiniteSet(PruneReboots(f, clock').reboot_timestamps)
            OBVIOUS
        <3>1. PruneReboots(f, clock').reboot_timestamps \subseteq f.reboot_timestamps
            BY <1>1 DEF PruneReboots, TypeOK, Option, ResilienceState
        <3> QED BY <3>1, FS_Subset DEF RationInv, FiniteMemory
    <2> QED BY <2>1, FS_EmptySet DEF Loaded, DefaultState
<1>6. FiniteMemory'
    BY <1>3, <1>4, <1>5 DEF RationInv, FiniteMemory, FromState
<1>7. ASSUME NEW t \in rebooted, clock' - t < REBOOT_24H_WINDOW
      PROVE  /\ t <= clock'
             /\ t \in s.reboot_timestamps
             /\ \E f \in file : t \in f.reboot_timestamps
    <2>1. t \in Nat /\ clock \in Nat /\ clock' \in Nat /\ REBOOT_24H_WINDOW \in Nat
        BY <1>2, <1>3, LadderAssumption DEF Time
    <2>2. t <= clock' /\ InLastDay(t)
        <3>1. t <= clock
            BY DEF RationInv, RebootsRemembered
        <3>2. t <= clock'
            BY <1>2, <2>1, <3>1
        <3>3. InLastDay(t)
            BY <1>2, <1>7, <2>1, RecentBefore DEF InLastDay
        <3> QED BY <3>2, <3>3
    <2>3. PICK f \in file : t \in f.reboot_timestamps
        BY <1>3, <2>2 DEF RationInv, RebootsRemembered
    <2>4. file = {f}
        BY <1>1, <2>3 DEF TypeOK, Option
    <2>5. s = PruneReboots(f, clock')
        BY <1>4, <2>4 DEF Loaded, SoundStorage
    <2>6. t \in PruneReboots(f, clock').reboot_timestamps
        BY <1>1, <1>7, <2>3 DEF PruneReboots, Recent, TypeOK, Option, ResilienceState
    <2> QED BY <2>2, <2>3, <2>5, <2>6
<1>8. RebootsRemembered'
    <2>1. \A t \in rebooted : t <= clock'
        BY <1>2, <1>3 DEF RationInv, RebootsRemembered, Time
    <2> QED BY <1>3, <1>4, <1>7, <2>1 DEF RebootsRemembered, InLastDay, FromState
<1>9. DecidedReboot'
    BY <1>3 DEF DecidedReboot, Deciding
<1> QED BY <1>1, <1>6, <1>8, <1>9 DEF RationInv

(* Steps that let time pass and touch neither the memory nor the file.     *)
LEMMA ElapseRation ==
    ASSUME RationInv, TypeOK', clock <= clock', pc \notin {"load", "write"},
           UNCHANGED <<rebooted, file, ladder>>, pc' = "setup"
    PROVE  RationInv'
<1>1. clock \in Time /\ clock' \in Time
    BY DEF RationInv, TypeOK
<1>2. FiniteMemory'
    BY DEF RationInv, FiniteMemory
<1>3. \A t \in rebooted : t <= clock'
    BY <1>1 DEF RationInv, RebootsRemembered, Time, TypeOK
<1>4. RebootsRemembered'
    BY <1>1, <1>3, RememberedLater DEF RebootsRemembered, InLastDay
<1>5. DecidedReboot'
    BY DEF DecidedReboot, Deciding
<1> QED BY <1>2, <1>4, <1>5 DEF RationInv

LEMMA NextRation == SoundStorage /\ RationInv /\ [Next]_vars => RationInv'
<1> SUFFICES ASSUME SoundStorage, RationInv, [Next]_vars PROVE RationInv'
    OBVIOUS
<1> USE EscalationAssumption
<1>t. TypeOK /\ TypeOK'
    BY NextTypeOK DEF RationInv
<1>1. CASE Load
    BY <1>1, LoadRation
<1>2. CASE SetupSucceeds
    <2>1. ladder'.state = ladder.state
        BY <1>2, <1>t DEF SetupSucceeds, OnConnectionSuccess, TypeOK, ResilienceLadder
    <2> QED BY <1>2, <1>t, <2>1 DEF SetupSucceeds, RationInv, FiniteMemory,
            RebootsRemembered, DecidedReboot, Deciding, InLastDay
<1>3. CASE SetupFails
    BY <1>3, SetupFailsRation
<1>4. CASE LinkLost
    <2>1. clock' \in Time /\ clock <= clock'
        BY <1>4, <1>t, PassesType DEF LinkLost, TypeOK, Time
    <2> QED BY <1>4, <1>t, <2>1, ElapseRation DEF LinkLost, history
<1>5. CASE PowerOff
    <2>1. UNCHANGED <<clock, ladder, action, file, rebooted>>
          /\ pc' # "reboot" /\ pc # "load" /\ pc # "write" /\ action = "PowerCycle"
        BY <1>5 DEF PowerOff, history, RationInv, DecidedReboot
    <2>2. FiniteMemory' /\ RebootsRemembered'
        BY <2>1 DEF RationInv, FiniteMemory, RebootsRemembered, InLastDay
    <2>3. DecidedReboot'
        BY <2>1 DEF DecidedReboot, Deciding
    <2> QED BY <1>t, <2>2, <2>3 DEF RationInv
<1>6. CASE PowerOn
    <2>1. UNCHANGED <<clock, ladder, action, file, rebooted>>
          /\ pc' # "reboot" /\ pc # "load" /\ pc # "write" /\ action = "PowerCycle"
        BY <1>6 DEF PowerOn, history, RationInv, DecidedReboot
    <2>2. FiniteMemory' /\ RebootsRemembered'
        BY <2>1 DEF RationInv, FiniteMemory, RebootsRemembered, InLastDay
    <2>3. DecidedReboot'
        BY <2>1 DEF DecidedReboot, Deciding
    <2> QED BY <1>t, <2>2, <2>3 DEF RationInv
<1>7. CASE SaveCreate
    BY <1>7, <1>t DEF SaveCreate, SoundStorage, RationInv, FiniteMemory,
        RebootsRemembered, DecidedReboot, Deciding, InLastDay,
        Limiter!Within24h, history
<1>8. CASE SaveWrite
    <2>1. file' = {ladder.state} /\ pc = "write" /\ pc' \in {"reboot", "wait"}
          /\ (pc' = "reboot" => action = "Reboot")
          /\ UNCHANGED <<clock, ladder, action, rebooted>>
        BY <1>8 DEF SaveWrite, SoundStorage, AfterSave, history
    <2>2. FiniteMemory' /\ RebootsRemembered'
        BY <2>1 DEF RationInv, FiniteMemory, RebootsRemembered, InLastDay
    <2>3. DecidedReboot'
        BY <2>1 DEF RationInv, DecidedReboot, Deciding, Limiter!Within24h
    <2> QED BY <1>t, <2>2, <2>3 DEF RationInv
<1>9. CASE RebootHost
    <2>1. CASE rebooted' = rebooted \cup {clock} /\ Stopped
        <3>1. \E s \in file : clock \in s.reboot_timestamps
            BY <1>9 DEF RebootHost, RationInv, DecidedReboot
        <3>2. RebootsRemembered'
            BY <1>9, <1>t, <2>1, <3>1
               DEF RebootHost, Stopped, RationInv, RebootsRemembered, InLastDay,
                   TypeOK, Time
        <3>3. FiniteMemory'
            BY <1>9, <2>1, FS_EmptySet DEF RebootHost, Stopped, RationInv,
               FiniteMemory, FromState, DefaultState
        <3> QED BY <1>t, <2>1, <3>2, <3>3
                DEF Stopped, RationInv, DecidedReboot, Deciding
    <2>2. CASE UNCHANGED <<ladder, action, rebooted>> /\ pc' = "wait"
        BY <1>9, <1>t, <2>2 DEF RebootHost, RationInv, FiniteMemory,
            RebootsRemembered, DecidedReboot, Deciding, InLastDay
    <2> QED BY <1>9, <2>1, <2>2 DEF RebootHost
<1>10. CASE WaitBackoff
    <2>1. backoff \in Nat
        BY <1>t DEF TypeOK
    <2>2. clock' \in Time /\ clock <= clock'
        BY <1>10, <1>t, <2>1, PassesType DEF WaitBackoff, TypeOK, Time
    <2> QED BY <1>10, <1>t, <2>2, ElapseRation DEF WaitBackoff, history
<1>11. CASE InstanceRestart
    BY <1>11, <1>t, FS_EmptySet DEF InstanceRestart, Stopped, RationInv,
        FiniteMemory, RebootsRemembered, DecidedReboot, Deciding, InLastDay,
        FromState, DefaultState
<1>12. CASE ProcessDies
    BY <1>12, <1>t, FS_EmptySet DEF ProcessDies, Stopped, SoundStorage, RationInv,
        FiniteMemory, RebootsRemembered, DecidedReboot, Deciding, InLastDay,
        FromState, DefaultState
<1>13. CASE UNCHANGED vars
    BY <1>13, <1>t DEF vars, RationInv, FiniteMemory, RebootsRemembered,
        DecidedReboot, Deciding, InLastDay, Limiter!Within24h
<1> QED BY <1>1, <1>2, <1>3, <1>4, <1>5, <1>6, <1>7, <1>8, <1>9, <1>10,
           <1>11, <1>12, <1>13 DEF Next

(* The cardinality the limiter counts with is that of FiniteSets. *)
LEMMA SameCardinality ==
    ASSUME NEW S PROVE Limiter!Cardinality(S) = Cardinality(S)
BY DEF Limiter!Cardinality, Cardinality, Limiter!IsFiniteSet, IsFiniteSet

(* Every step grants a reboot within the ration, lets time pass, or is     *)
(* invisible to the limiter.                                               *)
LEMMA StepRefines ==
    RationInv /\ [Next]_vars => [Limiter!Next]_<<clock, rebooted>>
<1> SUFFICES ASSUME RationInv, [Next]_vars
             PROVE  [Limiter!Next]_<<clock, rebooted>>
    OBVIOUS
<1> USE EscalationAssumption
<1>t. TypeOK /\ TypeOK'
    BY NextTypeOK DEF RationInv
<1>p. ASSUME \E d \in Nat : Passes(d), UNCHANGED rebooted
      PROVE  [Limiter!Next]_<<clock, rebooted>>
    <2>1. clock' \in Nat /\ clock <= clock' /\ clock \in Nat
        BY <1>p, <1>t, PassesType DEF TypeOK, Time
    <2> QED BY <1>p, <2>1 DEF Limiter!Next, Limiter!Elapse
<1>1. CASE RebootHost
    <2>1. /\ \A t \in rebooted : clock - t >= REBOOT_RATE_LIMIT
          /\ Cardinality(Limiter!Within24h(clock)) < REBOOT_MAX_24H
        BY <1>1 DEF RebootHost, RationInv, DecidedReboot, Deciding
    <2>2. CASE rebooted' = rebooted \cup {clock}
        BY <1>1, <2>1, <2>2, SameCardinality
           DEF RebootHost, Limiter!Next, Limiter!Grant
    <2>3. CASE UNCHANGED rebooted
        BY <1>1, <2>3 DEF RebootHost
    <2> QED BY <1>1, <2>2, <2>3 DEF RebootHost
<1>2. CASE Load \/ LinkLost \/ SetupFails
    <2>1. (\E d \in Nat : Passes(d)) /\ UNCHANGED rebooted
        BY <1>2 DEF Load, LinkLost, SetupFails, history
    <2> QED BY <1>p, <2>1
<1>3. CASE WaitBackoff
    <2>1. Passes(backoff) /\ UNCHANGED rebooted /\ backoff \in Nat
        BY <1>3, <1>t DEF WaitBackoff, history, TypeOK
    <2> QED BY <1>p, <2>1
<1>4. CASE SetupSucceeds \/ PowerOff \/ PowerOn \/ SaveCreate \/ SaveWrite
    BY <1>4 DEF SetupSucceeds, PowerOff, PowerOn, SaveCreate, SaveWrite, history
<1>5. CASE InstanceRestart \/ ProcessDies
    BY <1>5 DEF InstanceRestart, ProcessDies
<1>6. CASE UNCHANGED vars
    BY <1>6 DEF vars
<1> QED BY <1>1, <1>2, <1>3, <1>4, <1>5, <1>6 DEF Next

(* If storage keeps what was synced, the supervisor implements the         *)
(* limiter, across crashes, restarts of the instance and reboots.          *)
THEOREM RationKept == SoundStorage => (Spec => RebootsRationed)
<1> SUFFICES ASSUME SoundStorage PROVE Spec => RebootsRationed
    OBVIOUS
<1>1. Init => Limiter!Init
    BY DEF Init, Limiter!Init
<1>2. RationInv /\ [Next]_vars => RationInv'
    BY NextRation
<1> QED BY <1>1, <1>2, InitRation, StepRefines, PTL
        DEF Spec, RebootsRationed, Limiter!Spec

-----------------------------------------------------------------------------
(* What the limiter guarantees then holds of the host's reboots.           *)

LimiterP == INSTANCE RebootLimiterProofs WITH now <- clock, granted <- rebooted

LEMMA SameCardinalityP ==
    ASSUME NEW S PROVE LimiterP!Cardinality(S) = Limiter!Cardinality(S)
BY DEF LimiterP!Cardinality, Limiter!Cardinality,
       LimiterP!IsFiniteSet, Limiter!IsFiniteSet

(* With sound storage no day in the life of the host holds more than       *)
(* REBOOT_MAX_24H reboots of the ladder's.                                 *)
THEOREM BudgetKept == SoundStorage => (Spec => []RebootBudget)
<1> SUFFICES ASSUME SoundStorage PROVE Spec => []RebootBudget
    OBVIOUS
<1>1. LimiterP!Spec => [](LimiterP!Budget /\ LimiterP!Spacing)
    BY LimiterP!LimiterKeepsItsPromise, LadderAssumption
       DEF LimiterP!LimiterAssumption
<1>2. Limiter!Init => LimiterP!Init
    BY DEF Limiter!Init, LimiterP!Init
<1>w. \A t : Limiter!Within24h(t) = LimiterP!Within24h(t)
    BY DEF Limiter!Within24h, LimiterP!Within24h
<1>3. [Limiter!Next]_<<clock, rebooted>> => [LimiterP!Next]_<<clock, rebooted>>
    <2>1. Limiter!Elapse => LimiterP!Elapse
        BY DEF Limiter!Elapse, LimiterP!Elapse
    <2>2. Limiter!Grant => LimiterP!Grant
        BY <1>w, SameCardinalityP DEF Limiter!Grant, LimiterP!Grant
    <2> QED BY <2>1, <2>2 DEF Limiter!Next, LimiterP!Next
<1>4. LimiterP!Budget => RebootBudget
    BY <1>w, SameCardinalityP DEF LimiterP!Budget, Limiter!Budget, RebootBudget
<1>5. Spec => RebootsRationed
    BY RationKept
<1> QED BY <1>1, <1>2, <1>3, <1>4, <1>5, PTL
        DEF RebootsRationed, Limiter!Spec, LimiterP!Spec

-----------------------------------------------------------------------------
(* Power-cycles are spaced and an adapter left off is armed, if storage    *)
(* keeps what was synced, but for the power-cycles that the process did    *)
(* not live to save.                                                       *)

Known(t, s) == \E l \in s.last_power_cycle_at : t <= l

(* The power-cycles that were not interrupted are known to the ladder and, *)
(* but for the one that is not saved yet, to the file.                     *)
CyclesRemembered ==
    \A c \in cycled \ interrupted :
        /\ pc # "load" => Known(c, ladder.state)
        /\ pc # "write" /\ ~(CycleUnsaved /\ c = clock) =>
                \E s \in file : Known(c, s)

SpacedInv ==
    /\ TypeOK
    /\ CyclesRemembered
    /\ PowerCyclesSpaced
    /\ ~powered => cycled # {}
    /\ \A c \in cycled : c <= clock
    /\ pc \in {"power_off", "power_on"} => action = "PowerCycle"
    /\ pc = "power_off" =>
            /\ ladder.state.last_power_cycle_at = {clock}
            /\ \A c \in cycled \ interrupted : clock - c >= POWER_CYCLE_RATE_LIMIT

LEMMA InitSpaced == Init => SpacedInv
BY InitTypeOK DEF Init, SpacedInv, CyclesRemembered, PowerCyclesSpaced

(* A power-cycle is decided only POWER_CYCLE_RATE_LIMIT after every one    *)
(* that is known.                                                          *)
LEMMA PowerCycleDecided ==
    ASSUME NEW l \in ResilienceLadder, NEW now \in Time, NEW t \in Time,
           OnConnectionFailure(l, now).action = "PowerCycle",
           Known(t, l.state)
    PROVE  now - t >= POWER_CYCLE_RATE_LIMIT
<1> DEFINE c == Counted(l, now)
<1>1. /\ OnConnectionFailure(l, now).action = Decision(c, now)
      /\ c.state.last_power_cycle_at = l.state.last_power_cycle_at
    BY FailureFacts, CountedFacts
<1> HIDE DEF c
<1>2. ~PowerCycleRateLimited(c.state, now)
    BY <1>1 DEF Decision, PowerCycleAllowed
<1>3. PICK k \in l.state.last_power_cycle_at : t <= k
    BY DEF Known
<1>4. k \in Nat
    BY <1>3 DEF ResilienceLadder, ResilienceState, Option, Time
<1>5. ~(now - k < POWER_CYCLE_RATE_LIMIT)
    BY <1>1, <1>2, <1>3 DEF PowerCycleRateLimited, Recent
<1> QED BY <1>3, <1>4, <1>5, LadderAssumption DEF Time

LEMMA SetupFailsSpaced == SpacedInv /\ SetupFails => SpacedInv'
<1> SUFFICES ASSUME SpacedInv, SetupFails PROVE SpacedInv'
    OBVIOUS
<1> USE EscalationAssumption
<1>1. TypeOK /\ TypeOK'
    BY NextTypeOK DEF SpacedInv, Next
<1>2. clock \in Time /\ clock' \in Time /\ clock <= clock'
    BY <1>1, PassesType DEF SetupFails, TypeOK, Time
<1>3. /\ UNCHANGED <<cycled, interrupted, file, powered>> /\ cycled \subseteq Time
      /\ pc = "setup" /\ ~CycleUnsaved
      /\ ladder \in ResilienceLadder
    BY <1>1 DEF SetupFails, TypeOK, CycleUnsaved
<1> DEFINE r == OnConnectionFailure(ladder, clock')
<1>4. /\ ladder' = r.ladder /\ action' = r.action
      /\ pc' = CASE r.action = "PowerCycle" -> "power_off"
                 [] r.action = "Reboot" -> "save"
                 [] OTHER -> "wait"
    BY DEF SetupFails
<1>5. ladder'.state.last_power_cycle_at =
        IF r.action = "PowerCycle" THEN {clock'}
        ELSE ladder.state.last_power_cycle_at
    BY <1>2, <1>3, <1>4, FailureFacts
<1>6. \A c \in cycled \ interrupted :
          Known(c, ladder.state) /\ \E s \in file : Known(c, s)
    BY <1>3 DEF SpacedInv, CyclesRemembered
<1>7. ASSUME r.action = "PowerCycle", NEW c \in cycled \ interrupted
      PROVE  clock' - c >= POWER_CYCLE_RATE_LIMIT /\ c <= clock'
    <2>1. c \in Time /\ clock' - c >= POWER_CYCLE_RATE_LIMIT
        BY <1>2, <1>3, <1>6, <1>7, PowerCycleDecided
    <2>2. \A a, b, limit \in Nat : a - b >= limit => b <= a
        OBVIOUS
    <2>3. c \in Nat /\ clock' \in Nat /\ POWER_CYCLE_RATE_LIMIT \in Nat
        BY <1>2, <2>1, LadderAssumption DEF Time
    <2> QED BY <2>1, <2>2, <2>3
<1> HIDE DEF r
<1>8. /\ pc' \in {"power_off", "save", "wait"}
      /\ pc' = "power_off" <=> r.action = "PowerCycle"
      /\ pc' = "save" => r.action = "Reboot"
    <2>1. CASE r.action = "PowerCycle"
        BY <1>4, <2>1
    <2>2. CASE r.action = "Reboot"
        BY <1>4, <2>2
    <2>3. CASE r.action \notin {"PowerCycle", "Reboot"}
        BY <1>4, <2>3
    <2> QED BY <2>1, <2>2, <2>3
<1>9. \A c \in cycled \ interrupted : Known(c, ladder'.state)
    BY <1>5, <1>6, <1>7 DEF Known
<1>10. CyclesRemembered'
    BY <1>3, <1>6, <1>9 DEF CyclesRemembered
<1>11. \A c \in cycled' : c <= clock'
    BY <1>2, <1>3 DEF SpacedInv, Time
<1> QED BY <1>1, <1>3, <1>4, <1>5, <1>7, <1>8, <1>10, <1>11
        DEF SpacedInv, PowerCyclesSpaced

LEMMA LoadSpaced == SoundStorage /\ SpacedInv /\ Load => SpacedInv'
<1> SUFFICES ASSUME SoundStorage, SpacedInv, Load PROVE SpacedInv'
    OBVIOUS
<1> USE EscalationAssumption
<1>1. TypeOK /\ TypeOK'
    BY NextTypeOK DEF SpacedInv, Next
<1>2. /\ UNCHANGED <<cycled, interrupted, file, powered>>
      /\ pc = "load" /\ pc' = "setup" /\ ~CycleUnsaved
    BY DEF Load, history, CycleUnsaved
<1>c. \A c \in cycled' : c <= clock'
    BY <1>1, <1>2, PassesType DEF Load, SpacedInv, TypeOK, Time
<1>3. PICK s \in Loaded(clock') : ladder' = FromState(s)
    BY DEF Load
<1>4. ASSUME NEW c \in cycled \ interrupted
      PROVE  Known(c, ladder'.state) /\ \E f \in file : Known(c, f)
    <2>1. PICK f \in file : Known(c, f)
        BY <1>2 DEF SpacedInv, CyclesRemembered
    <2>2. file = {f} /\ f \in ResilienceState
        BY <1>1, <2>1 DEF TypeOK, Option
    <2>3. s = PruneReboots(f, clock')
        BY <1>3, <2>2 DEF Loaded, SoundStorage
    <2>4. ladder'.state.last_power_cycle_at = f.last_power_cycle_at
        BY <1>3, <2>2, <2>3 DEF FromState, PruneReboots, ResilienceState
    <2> QED BY <2>1, <2>4 DEF Known
<1>5. CyclesRemembered'
    BY <1>2, <1>4 DEF CyclesRemembered
<1> QED BY <1>1, <1>2, <1>5, <1>c DEF SpacedInv, PowerCyclesSpaced

LEMMA PowerOffSpaced == SpacedInv /\ PowerOff => SpacedInv'
<1> SUFFICES ASSUME SpacedInv, PowerOff PROVE SpacedInv'
    OBVIOUS
<1> USE EscalationAssumption
<1>1. TypeOK /\ TypeOK'
    BY NextTypeOK DEF SpacedInv, Next
<1>2. /\ UNCHANGED <<clock, ladder, action, file, interrupted>> /\ pc = "power_off"
      /\ cycled' = cycled \cup {clock} /\ action = "PowerCycle"
      /\ pc' \in {"power_on", "save"}
      /\ clock \in Nat /\ cycled \subseteq Nat /\ POWER_CYCLE_RATE_LIMIT \in Nat
      /\ ladder.state.last_power_cycle_at = {clock}
      /\ \A c \in cycled : c <= clock
      /\ \A c \in cycled \ interrupted : clock - c >= POWER_CYCLE_RATE_LIMIT
    BY <1>1, LadderAssumption DEF PowerOff, SpacedInv, TypeOK, Time
<1>3. \A c \in cycled' : Known(c, ladder'.state)
    BY <1>2 DEF Known
<1>4. CyclesRemembered'
    <2> SUFFICES ASSUME NEW c \in cycled' \ interrupted', c # clock
                 PROVE  \E s \in file : Known(c, s)
        BY <1>2, <1>3 DEF CyclesRemembered, CycleUnsaved
    <2> QED BY <1>2 DEF SpacedInv, CyclesRemembered, CycleUnsaved
<1>5. PowerCyclesSpaced'
    <2> SUFFICES ASSUME NEW c \in cycled', NEW d \in cycled', c < d, c \notin interrupted
                 PROVE  d - c >= POWER_CYCLE_RATE_LIMIT
        BY <1>2 DEF PowerCyclesSpaced
    <2>1. c \in cycled
        BY <1>2
    <2>2. CASE d \in cycled
        BY <1>2, <2>1, <2>2 DEF SpacedInv, PowerCyclesSpaced
    <2>3. CASE d = clock
        BY <1>2, <2>1, <2>3
    <2> QED BY <1>2, <2>2, <2>3
<1>6. \A c \in cycled' : c <= clock'
    BY <1>2
<1> QED BY <1>1, <1>2, <1>4, <1>5, <1>6 DEF SpacedInv

LEMMA NextSpaced == SoundStorage /\ SpacedInv /\ [Next]_vars => SpacedInv'
<1> SUFFICES ASSUME SoundStorage, SpacedInv, [Next]_vars PROVE SpacedInv'
    OBVIOUS
<1> USE EscalationAssumption
<1>t. TypeOK /\ TypeOK'
    BY NextTypeOK DEF SpacedInv
<1>1. CASE SetupSucceeds
    <2>1. ladder'.state = ladder.state
        BY <1>1, <1>t DEF SetupSucceeds, OnConnectionSuccess, TypeOK, ResilienceLadder
    <2> QED BY <1>1, <1>t, <2>1 DEF SetupSucceeds, SpacedInv, CyclesRemembered,
            PowerCyclesSpaced, CycleUnsaved
<1>2. CASE LinkLost \/ WaitBackoff
    <2>1. /\ UNCHANGED <<ladder, file, cycled, interrupted, powered>> /\ pc' = "setup"
          /\ pc \in {"connected", "wait"}
        BY <1>2 DEF LinkLost, WaitBackoff, history
    <2>2. \A c \in cycled' : c <= clock'
        BY <1>2, <1>t, <2>1, PassesType DEF LinkLost, WaitBackoff, SpacedInv, TypeOK, Time
    <2> QED BY <1>t, <2>1, <2>2
            DEF SpacedInv, CyclesRemembered, PowerCyclesSpaced, CycleUnsaved
<1>3. CASE PowerOn
    <2>1. /\ UNCHANGED <<clock, ladder, action, file, cycled, interrupted>>
          /\ pc = "power_on" /\ pc' = "save" /\ (powered' = TRUE \/ UNCHANGED powered)
          /\ action = "PowerCycle"
        BY <1>3 DEF PowerOn, history, SpacedInv
    <2> QED BY <1>t, <2>1
            DEF SpacedInv, CyclesRemembered, PowerCyclesSpaced, CycleUnsaved
<1>4. CASE SaveCreate
    <2>1. /\ UNCHANGED <<clock, ladder, action, powered, cycled, interrupted>>
          /\ pc = "save" /\ pc' = "write"
        BY <1>4 DEF SaveCreate, history, SoundStorage
    <2> QED BY <1>t, <2>1 DEF SpacedInv, CyclesRemembered, PowerCyclesSpaced
<1>5. CASE SaveWrite
    <2>1. /\ UNCHANGED <<clock, ladder, action, powered, cycled, interrupted>>
          /\ pc = "write" /\ pc' \in {"reboot", "wait"} /\ file' = {ladder.state}
        BY <1>5 DEF SaveWrite, AfterSave, history, SoundStorage
    <2>2. \A c \in cycled \ interrupted : Known(c, ladder.state)
        BY <2>1 DEF SpacedInv, CyclesRemembered
    <2>3. ladder' = ladder /\ \A c \in cycled \ interrupted : Known(c, ladder'.state)
        BY <2>1, <2>2
    <2>4. CyclesRemembered'
        BY <2>1, <2>2, <2>3 DEF CyclesRemembered
    <2> QED BY <1>t, <2>1, <2>4 DEF SpacedInv, PowerCyclesSpaced
<1>6. CASE RebootHost
    <2>1. /\ UNCHANGED <<clock, file, cycled, interrupted>> /\ pc = "reboot"
          /\ \/ pc' = "load" /\ powered' = TRUE
             \/ pc' = "wait" /\ UNCHANGED <<ladder, powered>>
        BY <1>6 DEF RebootHost, Stopped
    <2> QED BY <1>t, <2>1
            DEF SpacedInv, CyclesRemembered, PowerCyclesSpaced, CycleUnsaved
<1>7. CASE InstanceRestart
    <2>1. /\ UNCHANGED <<clock, file, cycled, interrupted, powered>> /\ pc' = "load"
          /\ pc \in {"setup", "connected", "wait"}
        BY <1>7 DEF InstanceRestart, Stopped
    <2> QED BY <1>t, <2>1
            DEF SpacedInv, CyclesRemembered, PowerCyclesSpaced, CycleUnsaved
<1>8. CASE ProcessDies
    <2>1. /\ UNCHANGED <<clock, file, cycled>> /\ pc' = "load" /\ pc \notin {"load", "write"}
          /\ interrupted \subseteq interrupted'
          /\ CycleUnsaved => clock \in interrupted'
          /\ powered' = powered \/ powered' = TRUE
        BY <1>8 DEF ProcessDies, Stopped, SoundStorage
    <2>2. CyclesRemembered'
        <3> SUFFICES ASSUME NEW c \in cycled \ interrupted'
                     PROVE  \E s \in file : Known(c, s)
            BY <2>1 DEF CyclesRemembered
        <3> QED BY <2>1 DEF SpacedInv, CyclesRemembered
    <2>3. PowerCyclesSpaced'
        BY <2>1 DEF SpacedInv, PowerCyclesSpaced
    <2> QED BY <1>t, <2>1, <2>2, <2>3 DEF SpacedInv
<1>9. CASE UNCHANGED vars
    BY <1>9, <1>t DEF vars, SpacedInv, CyclesRemembered, PowerCyclesSpaced, CycleUnsaved
<1> QED BY <1>1, <1>2, <1>3, <1>4, <1>5, <1>6, <1>7, <1>8, <1>9, LoadSpaced,
           SetupFailsSpaced, PowerOffSpaced DEF Next

(* If storage keeps what was synced, two power-cycles are never closer     *)
(* than their limit, however many restarts and reboots lie between, unless *)
(* the process died before it saved the first.                             *)
THEOREM PowerCyclesAlwaysSpaced == SoundStorage => (Spec => []PowerCyclesSpaced)
<1> SUFFICES ASSUME SoundStorage PROVE Spec => []PowerCyclesSpaced
    OBVIOUS
<1>1. SpacedInv => PowerCyclesSpaced
    BY DEF SpacedInv
<1>2. SpacedInv /\ [Next]_vars => SpacedInv'
    BY NextSpaced
<1> QED BY InitSpaced, <1>1, <1>2, PTL DEF Spec

(* If storage keeps what was synced, an adapter that a power-cycle left    *)
(* off is never forgotten: rung 3 is armed, unless the process died in     *)
(* every power-cycle so far.                                               *)
THEOREM AdapterOffAlwaysArmed == SoundStorage => (Spec => []AdapterOffIsArmed)
<1> SUFFICES ASSUME SoundStorage PROVE Spec => []AdapterOffIsArmed
    OBVIOUS
<1>1. SpacedInv => AdapterOffIsArmed
    BY DEF SpacedInv, CyclesRemembered, Known, AdapterOffIsArmed, CycleUnsaved
<1>2. SpacedInv /\ [Next]_vars => SpacedInv'
    BY NextSpaced
<1> QED BY InitSpaced, <1>1, <1>2, PTL DEF Spec
=============================================================================
