------------------------- MODULE RebootLimiterProofs -------------------------
(* The abstract limiter keeps its two promises.                            *)
EXTENDS RebootLimiter, FiniteSetTheorems, TLAPS

(* Spacing and Budget follow from the guard of Grant only while no reboot  *)
(* lies in the future and their set is finite.                             *)
Inv == TypeOK /\ IsFiniteSet(granted) /\ Budget /\ Spacing

LEMMA Within24hFinite ==
    ASSUME NEW t \in Int, IsFiniteSet(granted)
    PROVE  /\ IsFiniteSet(Within24h(t))
           /\ Cardinality(Within24h(t)) \in Nat
BY FS_Subset, FS_CardinalityType DEF Within24h

LEMMA InitInv == Init => Inv
BY FS_EmptySet DEF Init, Inv, TypeOK, Budget, Spacing

LEMMA GrantInv == LimiterAssumption /\ Inv /\ Grant => Inv'
<1> SUFFICES ASSUME LimiterAssumption, Inv, Grant PROVE Inv'
    OBVIOUS
<1> USE DEF LimiterAssumption
<1>1. TypeOK'
    BY DEF Inv, TypeOK, Grant
<1>2. IsFiniteSet(granted')
    BY FS_AddElement DEF Inv, Grant
<1>3. \A t \in granted : t < now
    BY DEF Inv, TypeOK, Grant
<1>4. Spacing'
    BY <1>3 DEF Inv, TypeOK, Spacing, Grant
<1>5. Budget'
    <2> SUFFICES ASSUME NEW t \in granted'
                 PROVE  Cardinality(Within24h(t)') <= REBOOT_MAX_24H
        BY DEF Budget
    <2>1. CASE t \in granted
        <3>1. Within24h(t)' = Within24h(t)
            BY <1>3, <2>1 DEF Within24h, Grant, Inv, TypeOK
        <3> QED BY <2>1, <3>1 DEF Inv, Budget
    <2>2. CASE t = now
        <3>1. Within24h(t)' = Within24h(now) \cup {now}
            BY <1>3, <2>2 DEF Within24h, Grant, Inv, TypeOK
        <3>2. now \notin Within24h(now)
            BY <1>3 DEF Within24h, Inv, TypeOK
        <3>3. /\ IsFiniteSet(Within24h(now))
              /\ Cardinality(Within24h(now)) \in Nat
            BY Within24hFinite DEF Inv, TypeOK
        <3>4. Cardinality(Within24h(now) \cup {now})
                = Cardinality(Within24h(now)) + 1
            BY <3>2, <3>3, FS_AddElement
        <3> QED BY <3>1, <3>3, <3>4 DEF Grant
    <2> QED BY <2>1, <2>2 DEF Grant
<1> QED BY <1>1, <1>2, <1>4, <1>5 DEF Inv

LEMMA NextInv ==
    LimiterAssumption /\ Inv /\ [Next]_<<now, granted>> => Inv'
<1> SUFFICES ASSUME LimiterAssumption, Inv, [Next]_<<now, granted>> PROVE Inv'
    OBVIOUS
<1>1. CASE Elapse
    <2>1. TypeOK'
        BY <1>1 DEF Inv, TypeOK, Elapse
    <2>2. granted' = granted
        BY <1>1 DEF Elapse
    <2> QED BY <2>1, <2>2 DEF Inv, Budget, Spacing, Within24h
<1>2. CASE Grant
    BY <1>2, GrantInv
<1>3. CASE UNCHANGED <<now, granted>>
    BY <1>3 DEF Inv, TypeOK, Budget, Spacing, Within24h
<1> QED BY <1>1, <1>2, <1>3 DEF Next

(* Whatever the limits, no day holds more than REBOOT_MAX_24H reboots and  *)
(* no two of them are closer than REBOOT_RATE_LIMIT.                       *)
THEOREM LimiterKeepsItsPromise ==
    LimiterAssumption => (Spec => [](Budget /\ Spacing))
<1> SUFFICES ASSUME LimiterAssumption PROVE Spec => [](Budget /\ Spacing)
    OBVIOUS
<1>1. Inv => Budget /\ Spacing
    BY DEF Inv
<1>2. Inv /\ [Next]_<<now, granted>> => Inv'
    BY NextInv
<1> QED BY InitInv, <1>1, <1>2, PTL DEF Spec
=============================================================================
