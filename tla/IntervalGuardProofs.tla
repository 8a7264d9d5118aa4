------------------------ MODULE IntervalGuardProofs ------------------------
(***************************************************************************)
(* Theorems about IntervalGuard, for all handles, gaps, retries, threads   *)
(* and incidents.                                                          *)
(***************************************************************************)
EXTENDS IntervalGuard, TLAPS

LEMMA Bounds ==
    /\ REAPPLY_MIN_GAP \in Nat \ {0} /\ MAX_INTERVAL_RETRIES \in Nat \ {0}
    /\ Handles \subseteq Nat \ {0}
    /\ MinQuiet \in Nat /\ Threads \in Nat /\ Incidents \in Nat
    /\ 0 \in Requests
<1>1. MinQuiet \in Nat /\ Threads \in Nat /\ Incidents \in Nat
    BY GuardAssumption
<1> QED BY <1>1, GuardAssumption DEF Requests

(* What Delivered does to a request. *)
LEMMA DeliveredIs ==
    ASSUME NEW q \in [Requests -> Request], NEW e \in Events
    PROVE  /\ Delivered(q, e) \in [Requests -> Request]
           /\ \A r \in Requests : /\ Delivered(q, e)[r].at = q[r].at
                                  /\ Delivered(q, e)[r].handle = q[r].handle
<1> SUFFICES ASSUME NEW r \in Requests
             PROVE  /\ Delivered(q, e)[r] \in Request
                    /\ Delivered(q, e)[r].at = q[r].at
                    /\ Delivered(q, e)[r].handle = q[r].handle
    BY DEF Delivered
<1>1. q[r] \in Request
    OBVIOUS
<1>2. Append(q[r].events, e) \in Seq(Events)
    BY <1>1 DEF Request
<1>3. [q[r] EXCEPT !.events = Append(@, e)] \in Request
    BY <1>1, <1>2 DEF Request
<1>4. /\ [q[r] EXCEPT !.events = Append(@, e)].at = q[r].at
      /\ [q[r] EXCEPT !.events = Append(@, e)].handle = q[r].handle
    BY <1>1 DEF Request
<1>5. Delivered(q, e)[r] \in {q[r], [q[r] EXCEPT !.events = Append(@, e)]}
    BY DEF Delivered
<1> QED BY <1>1, <1>3, <1>4, <1>5

(* An update that happens is queued for the guard and leaves every request *)
(* where it is.                                                            *)
LEMMA UpdatedIs ==
    ASSUME TypeOK, NEW h \in Handles \cup {Foreign}, NEW ok \in BOOLEAN,
           NEW to \in Intervals, Updated(h, ok, to)
    PROVE  /\ req' \in [Requests -> Request]
           /\ \A r \in Requests : req'[r].at = req[r].at /\ req'[r].handle = req[r].handle
           /\ inbox' \in Seq(Updates)
           /\ Len(inbox') = Len(inbox) + 1
           /\ \A i \in 1 .. Len(inbox) : inbox'[i] = inbox[i]
           /\ inbox'[Len(inbox) + 1].handle = h
           /\ inbox'[Len(inbox) + 1].to = to
<1> DEFINE e == [kind |-> "update", handle |-> h, ok |-> ok, to |-> to]
<1>1. e \in Updates /\ e \in Events
    BY DEF Updates, Events
<1>2. inbox' = Append(inbox, e) /\ req' = Delivered(req, e)
    BY DEF Updated
<1>3. e.handle = h /\ e.to = to
    OBVIOUS
<1> HIDE DEF e
<1>4. inbox \in Seq(Updates) /\ req \in [Requests -> Request]
    BY DEF TypeOK
<1>5. /\ inbox' \in Seq(Updates) /\ Len(inbox') = Len(inbox) + 1
      /\ \A i \in 1 .. Len(inbox) : inbox'[i] = inbox[i]
      /\ inbox'[Len(inbox) + 1] = e
    BY <1>1, <1>2, <1>4
<1> QED BY <1>1, <1>2, <1>3, <1>4, <1>5, DeliveredIs

-----------------------------------------------------------------------------
(* Types.                                                                  *)

LEMMA IdleType == Idle \in Request
BY Bounds DEF Idle, Request

LEMMA InitTypeOK == Init => TypeOK
BY Bounds, IdleType DEF Init, TypeOK, Intervals

LEMMA FailedType ==
    ASSUME TypeOK, NEW r \in Requests, Failed(r)
    PROVE  req' \in [Requests -> Request]
<1>1. req \in [Requests -> Request] /\ req[r] \in Request
    BY DEF TypeOK
<1>2. CASE req[r].attempt < MAX_INTERVAL_RETRIES
    <2> DEFINE left_over == IF req[r].events = <<>> THEN req[r].events
                            ELSE Tail(req[r].events)
               new == [req[r] EXCEPT !.at = "send", !.attempt = @ + 1,
                                     !.events = left_over]
    <2>1. req[r].attempt + 1 \in 1 .. MAX_INTERVAL_RETRIES
        BY <1>1, <1>2, Bounds DEF Request
    <2>2. left_over \in Seq(Events)
        BY <1>1 DEF Request
    <2>3. req' = [req EXCEPT ![r] = new]
        BY <1>1, <1>2 DEF Failed, Request
    <2> HIDE DEF left_over
    <2>4. new \in Request
        BY <1>1, <2>1, <2>2 DEF Request
    <2> HIDE DEF new
    <2> QED BY <1>1, <2>3, <2>4
<1>3. CASE ~(req[r].attempt < MAX_INTERVAL_RETRIES)
    BY <1>1, <1>3, IdleType DEF Failed, Done
<1> QED BY <1>2, <1>3

LEMMA NextTypeOK == TypeOK /\ [Next]_vars => TypeOK'
<1> SUFFICES ASSUME TypeOK, [Next]_vars PROVE TypeOK'
    OBVIOUS
<1> USE Bounds
<1>0. /\ link \in SUBSET Handles /\ \A g, h \in link : g = h
      /\ interval \in Intervals /\ pending \in BOOLEAN /\ inbox \in Seq(Updates)
      /\ age \in 0 .. REAPPLY_MIN_GAP /\ req \in [Requests -> Request]
      /\ quiet \in 0 .. MinQuiet /\ left \in 0 .. Incidents
    BY DEF TypeOK
<1>1. ASSUME NEW kind, Incident(kind) PROVE left' \in 0 .. Incidents
    BY <1>0, <1>1 DEF Incident
<1>2. CASE Revert
    <2>1. PICK h \in link : Updated(h, TRUE, "other")
        BY <1>2 DEF Revert
    <2>2. req' \in [Requests -> Request] /\ inbox' \in Seq(Updates)
        BY <1>0, <2>1, UpdatedIs DEF Intervals
    <2> QED BY <1>0, <1>1, <1>2, <2>2 DEF Revert, TypeOK, Intervals
<1>3. CASE ForeignUpdate
    <2>1. req' \in [Requests -> Request] /\ inbox' \in Seq(Updates)
        BY <1>0, <1>3, UpdatedIs DEF ForeignUpdate, Intervals
    <2> QED BY <1>0, <1>1, <1>3, <2>1 DEF ForeignUpdate, TypeOK
<1>4. CASE LinkDrops
    BY <1>0, <1>1, <1>4 DEF LinkDrops, TypeOK
<1>5. CASE Complete
    <2>1. PICK h \in link : Updated(h, TRUE, "target")
        BY <1>5 DEF Complete
    <2>2. req' \in [Requests -> Request] /\ inbox' \in Seq(Updates)
        BY <1>0, <2>1, UpdatedIs DEF Intervals
    <2> QED BY <1>0, <1>5, <2>2 DEF Complete, TypeOK, Intervals
<1>6. CASE Reject
    <2>1. PICK h \in link, to \in {interval, "other"} : Updated(h, FALSE, to)
        BY <1>6 DEF Reject
    <2>2. req' \in [Requests -> Request] /\ inbox' \in Seq(Updates)
        BY <1>0, <2>1, UpdatedIs DEF Intervals
    <2>3. left' \in 0 .. Incidents /\ quiet' \in 0 .. MinQuiet /\ pending' \in BOOLEAN
        BY <1>0, <1>1, <1>6 DEF Reject
    <2> QED BY <1>0, <1>6, <2>2, <2>3 DEF Reject, TypeOK
<1>7. CASE Reconnect
    <2>1. [req[0] EXCEPT !.at = "open"] \in Request
        BY <1>0 DEF Request
    <2>2. req' = [req EXCEPT ![0] = [req[0] EXCEPT !.at = "open"]]
        BY <1>0, <1>7 DEF Reconnect, Request, Requests
    <2>3. req' \in [Requests -> Request]
        BY <1>0, <2>1, <2>2
    <2>4. PICK h \in Handles : link' = {h}
        BY <1>7 DEF Reconnect
    <2>5. link' \in SUBSET Handles /\ \A g, k \in link' : g = k
        BY <2>4
    <2> QED BY <1>0, <1>7, <2>3, <2>5 DEF Reconnect, TypeOK, Intervals
<1>8. CASE Monitor
    <2>1. inbox' \in Seq(Updates)
        BY <1>0, <1>8 DEF Monitor
    <2>2. age' \in 0 .. REAPPLY_MIN_GAP
        BY <1>0, <1>8 DEF Monitor
    <2>3. req' \in [Requests -> Request]
        <3>1. CASE OwnLink(Head(inbox)) /\ ShouldReapply(Head(inbox))
            <4> DEFINE free == {r \in Requests \ {0} : req[r].at = "idle"}
                       r == CHOOSE r \in free : TRUE
            <4>1. free # {} /\ req' = [req EXCEPT ![r].at = "open"]
                BY <1>8, <3>1 DEF Monitor
            <4>2. r \in Requests
                BY <4>1
            <4> HIDE DEF r
            <4>3. [req[r] EXCEPT !.at = "open"] \in Request
                BY <1>0, <4>2 DEF Request
            <4> QED BY <1>0, <4>1, <4>2, <4>3
        <3>2. CASE ~(OwnLink(Head(inbox)) /\ ShouldReapply(Head(inbox)))
            BY <1>0, <1>8, <3>2 DEF Monitor
        <3> QED BY <3>1, <3>2
    <2> QED BY <1>0, <1>8, <2>1, <2>2, <2>3 DEF Monitor, TypeOK
<1>9. ASSUME NEW r \in Requests, RequestStep(r) PROVE TypeOK'
    <2>1. CASE FindHandle(r)
        <3>1. ASSUME NEW h \in link
              PROVE  [req EXCEPT ![r].at = "send", ![r].handle = h]
                       \in [Requests -> Request]
            <4>1. [req[r] EXCEPT !.at = "send", !.handle = h] \in Request
                BY <1>0 DEF Request
            <4> QED BY <1>0, <4>1
        <3>2. [req EXCEPT ![r] = Idle] \in [Requests -> Request]
            BY <1>0, IdleType
        <3>3. req' \in [Requests -> Request]
            BY <2>1, <3>1, <3>2 DEF FindHandle, Done
        <3> QED BY <1>0, <2>1, <3>3 DEF FindHandle, TypeOK
    <2>2. CASE SendCommand(r)
        <3> DEFINE sent == [req EXCEPT ![r].at = "await"]
        <3>1. sent \in [Requests -> Request]
            <4>1. [req[r] EXCEPT !.at = "await"] \in Request
                BY <1>0 DEF Request
            <4> QED BY <1>0, <4>1
        <3>2. Delivered(sent, Refusal) \in [Requests -> Request]
            BY <3>1, DeliveredIs DEF Events
        <3>3. req' = sent \/ req' = Delivered(sent, Refusal)
            BY <2>2 DEF SendCommand
        <3>4. pending' \in BOOLEAN
            BY <1>0, <2>2 DEF SendCommand
        <3> QED BY <1>0, <2>2, <3>1, <3>2, <3>3, <3>4 DEF SendCommand, TypeOK
    <2>3. CASE ReadEvent(r)
        <3>1. Failed(r) \/ Done(r)
            BY <2>3 DEF ReadEvent
        <3>2. req' \in [Requests -> Request]
            BY <1>0, <3>1, FailedType, IdleType DEF Done
        <3> QED BY <1>0, <2>3, <3>2 DEF ReadEvent, TypeOK
    <2>4. CASE Timeout(r)
        <3>1. req' \in [Requests -> Request]
            BY <2>4, FailedType DEF Timeout
        <3>2. left' \in 0 .. Incidents
            BY <1>0, <1>1, <2>4 DEF Timeout
        <3> QED BY <1>0, <2>4, <3>1, <3>2 DEF Timeout, TypeOK
    <2> QED BY <1>9, <2>1, <2>2, <2>3, <2>4 DEF RequestStep
<1>10. CASE Tick
    <2>1. age' \in 0 .. REAPPLY_MIN_GAP /\ quiet' \in 0 .. MinQuiet
        BY <1>0, <1>10 DEF Tick, Older
    <2> QED BY <1>0, <1>10, <2>1 DEF Tick, TypeOK
<1>11. CASE SetupAgain
    <2>1. [req[0] EXCEPT !.at = "open"] \in Request
        BY <1>0 DEF Request
    <2>2. req' = [req EXCEPT ![0] = [req[0] EXCEPT !.at = "open"]]
        BY <1>0, <1>11 DEF SetupAgain, Request, Requests
    <2>3. req' \in [Requests -> Request]
        BY <1>0, <2>1, <2>2
    <2>4. left' \in 0 .. Incidents
        BY <1>1, <1>11 DEF SetupAgain
    <2> QED BY <1>0, <1>11, <2>3, <2>4 DEF SetupAgain, TypeOK
<1>12. CASE InstanceRestart
    <2>1. PICK r \in Requests \ {0} : req' = [req EXCEPT ![r] = req[0], ![0] = Idle]
        BY <1>12 DEF InstanceRestart
    <2>2. req' \in [Requests -> Request]
        BY <1>0, <2>1, IdleType
    <2>3. left' \in 0 .. Incidents
        BY <1>1, <1>12 DEF InstanceRestart
    <2> QED BY <1>0, <1>12, <2>2, <2>3 DEF InstanceRestart, TypeOK
<1>13. CASE UNCHANGED vars
    BY <1>0, <1>13 DEF vars, TypeOK
<1> QED
    BY <1>2, <1>3, <1>4, <1>5, <1>6, <1>7, <1>8, <1>9, <1>10, <1>11, <1>12,
       <1>13
    DEF Next, Environment

(* Requests stay within their attempts, and what they and the guard have   *)
(* queued are events of the controller (hci.rs, hci_monitor.rs).           *)
THEOREM TypeCorrect == Spec => []TypeOK
BY InitTypeOK, NextTypeOK, PTL DEF Spec

-----------------------------------------------------------------------------
(* A link off target is attended to.                                       *)

PatientDevice == MinQuiet >= REAPPLY_MIN_GAP

(* An event that names an interval off target on a link of ours. *)
Off(e) == e.handle # Foreign /\ e.to = "other"

(* The rate limit is over before the device speaks again: when an event    *)
(* off target waits for the guard it is the only one, and the guard is     *)
(* free to act on it.                                                      *)
RateInv ==
    /\ age >= quiet \/ age = REAPPLY_MIN_GAP
    /\ \A i \in 1 .. Len(inbox) :
         Off(inbox[i]) => /\ quiet = 0 /\ age = REAPPLY_MIN_GAP
                          /\ \A j \in 1 .. Len(inbox) : Off(inbox[j]) => i = j

LEMMA InitRate == Init => RateInv
BY Bounds DEF Init, RateInv

LEMMA NextRate ==
    PatientDevice /\ TypeOK /\ RateInv /\ [Next]_vars => RateInv'
<1> SUFFICES ASSUME PatientDevice, TypeOK, RateInv, [Next]_vars PROVE RateInv'
    OBVIOUS
<1> USE Bounds
<1>0. /\ link \in SUBSET Handles /\ interval \in Intervals
      /\ inbox \in Seq(Updates) /\ Len(inbox) \in Nat
      /\ age \in 0 .. REAPPLY_MIN_GAP /\ quiet \in 0 .. MinQuiet
    BY DEF TypeOK
<1>1. ASSUME UNCHANGED <<inbox, age, quiet>> PROVE RateInv'
    BY <1>1 DEF RateInv, Off
<1>2. ASSUME NEW h \in Handles, NEW ok \in BOOLEAN, NEW to \in Intervals,
             Updated(h, ok, to), quiet = MinQuiet, quiet' = 0, age' = age
      PROVE  RateInv'
    <2>1. /\ Len(inbox') = Len(inbox) + 1
          /\ \A i \in 1 .. Len(inbox) : inbox'[i] = inbox[i]
        BY <1>2, UpdatedIs
    <2>2. age = REAPPLY_MIN_GAP /\ quiet # 0
        BY <1>0, <1>2 DEF RateInv, PatientDevice
    <2>3. \A i \in 1 .. Len(inbox) : ~Off(inbox'[i])
        BY <2>1, <2>2 DEF RateInv, Off
    <2>4. \A i \in 1 .. Len(inbox') : Off(inbox'[i]) => i = Len(inbox) + 1
        BY <1>0, <2>1, <2>3
    <2> QED BY <1>0, <1>2, <2>2, <2>4 DEF RateInv, Off
<1>3. ASSUME NEW h \in Handles \cup {Foreign}, NEW ok \in BOOLEAN, NEW to \in Intervals,
             Updated(h, ok, to), h = Foreign \/ to = "target",
             UNCHANGED <<age, quiet>>
      PROVE  RateInv'
    <2>1. /\ Len(inbox') = Len(inbox) + 1
          /\ \A i \in 1 .. Len(inbox) : inbox'[i] = inbox[i]
          /\ inbox'[Len(inbox) + 1].handle = h
          /\ inbox'[Len(inbox) + 1].to = to
        BY <1>3, UpdatedIs
    <2>2. ~Off(inbox'[Len(inbox) + 1])
        BY <1>3, <2>1 DEF Off
    <2>3. \A i \in 1 .. Len(inbox') :
            Off(inbox'[i]) => i \in 1 .. Len(inbox) /\ Off(inbox[i])
        BY <1>0, <2>1, <2>2 DEF Off
    <2> QED BY <1>3, <2>3 DEF RateInv, Off
<1>4. CASE Revert
    <2>1. PICK h \in link : Updated(h, TRUE, "other")
        BY <1>4 DEF Revert
    <2> QED BY <1>0, <1>2, <1>4, <2>1 DEF Revert, Intervals
<1>5. CASE ForeignUpdate
    BY <1>3, <1>5 DEF ForeignUpdate, Intervals
<1>6. CASE Complete
    <2>1. PICK h \in link : Updated(h, TRUE, "target")
        BY <1>6 DEF Complete
    <2> QED BY <1>0, <1>3, <1>6, <2>1 DEF Complete, Intervals
<1>7. CASE Reject
    <2>1. PICK h \in link, to \in {interval, "other"} : Updated(h, FALSE, to)
        BY <1>7 DEF Reject
    <2>2. h \in Handles /\ to \in Intervals
        BY <1>0 DEF Intervals
    <2> QED BY <1>2, <1>7, <2>1, <2>2 DEF Reject
<1>8. CASE Monitor
    <2> DEFINE e == Head(inbox)
    <2>1. /\ inbox # <<>> /\ inbox' = Tail(inbox) /\ quiet' = quiet
          /\ (OwnLink(e) /\ ShouldReapply(e)) \/ age' = age
          /\ OwnLink(e) /\ ShouldReapply(e) => age' = 0
        BY <1>8 DEF Monitor
    <2>2. /\ e = inbox[1] /\ e \in Updates
          /\ Len(inbox') = Len(inbox) - 1 /\ Len(inbox) >= 1
          /\ \A i \in 1 .. Len(inbox') :
               inbox'[i] = inbox[i + 1] /\ i + 1 \in 1 .. Len(inbox)
        BY <1>0, <2>1
    <2> HIDE DEF e
    <2>3. CASE OwnLink(e) /\ ShouldReapply(e)
        <3>1. Off(e)
            BY <1>0, <2>2, <2>3 DEF OwnLink, ShouldReapply, Off, Updates, Intervals, Foreign
        <3>2. quiet = 0 /\ \A j \in 1 .. Len(inbox) : Off(inbox[j]) => 1 = j
            BY <1>0, <2>2, <3>1 DEF RateInv
        <3>3. \A i \in 1 .. Len(inbox') : ~Off(inbox'[i])
            BY <1>0, <2>2, <3>2
        <3>4. age' = 0 /\ quiet' = 0
            BY <2>1, <2>3, <3>2
        <3> QED BY <3>3, <3>4 DEF RateInv, Off
    <2>4. CASE age' = age
        <3>1. \A i \in 1 .. Len(inbox') :
                 Off(inbox'[i]) => i + 1 \in 1 .. Len(inbox) /\ Off(inbox[i + 1])
            BY <2>2
        <3>2. \A i, j \in 1 .. Len(inbox') :
                 Off(inbox'[i]) /\ Off(inbox'[j]) => i = j
            <4> SUFFICES ASSUME NEW i \in 1 .. Len(inbox'), NEW j \in 1 .. Len(inbox'),
                                Off(inbox'[i]), Off(inbox'[j])
                         PROVE  i = j
                OBVIOUS
            <4>1. i + 1 = j + 1
                BY <3>1 DEF RateInv
            <4>2. i \in Nat /\ j \in Nat
                BY <1>0, <2>2
            <4> QED BY <4>1, <4>2
        <3>3. \A i \in 1 .. Len(inbox') :
                 Off(inbox'[i]) => quiet = 0 /\ age = REAPPLY_MIN_GAP
            BY <3>1 DEF RateInv
        <3> QED BY <2>1, <2>4, <3>2, <3>3 DEF RateInv, Off
    <2> QED BY <2>1, <2>3, <2>4
<1>9. CASE Tick
    <2>1. inbox' = <<>> /\ Len(inbox') = 0
        BY <1>9 DEF Tick
    <2>2. age' = Older(age, REAPPLY_MIN_GAP) /\ quiet' = Older(quiet, MinQuiet)
        BY <1>9 DEF Tick
    <2>3. age' >= quiet' \/ age' = REAPPLY_MIN_GAP
        BY <1>0, <2>2 DEF RateInv, Older
    <2> QED BY <2>1, <2>3 DEF RateInv
<1>10. CASE LinkDrops
    BY <1>1, <1>10 DEF LinkDrops
<1>11. CASE Reconnect \/ SetupAgain \/ InstanceRestart
    BY <1>1, <1>11 DEF Reconnect, SetupAgain, InstanceRestart
<1>12. ASSUME NEW r \in Requests, RequestStep(r) PROVE RateInv'
    BY <1>1, <1>12 DEF RequestStep, FindHandle, SendCommand, ReadEvent, Timeout
<1>13. CASE UNCHANGED vars
    BY <1>1, <1>13 DEF vars
<1> QED
    BY <1>4, <1>5, <1>6, <1>7, <1>8, <1>9, <1>10, <1>11, <1>12, <1>13
    DEF Next, Environment

LEMMA InitAttended == Init => OffTargetIsAttended
BY DEF Init, OffTargetIsAttended

(* A request that is about to send goes on being so while nothing happens  *)
(* to it.                                                                  *)
LEMMA StillAttended ==
    ASSUME OffTargetIsAttended, UNCHANGED <<link, interval>>, pending => pending',
           \A r \in Requests : AboutToSend(r) =>
               AboutToSend(r)' \/ pending' \/ link = {},
           inbox \in Seq(Updates), inbox' \in Seq(Updates),
           \A i \in 1 .. Len(inbox) : OffTarget(inbox[i]) =>
               \/ \E j \in 1 .. Len(inbox') : inbox'[j] = inbox[i]
               \/ \E r \in Requests : AboutToSend(r)'
    PROVE  OffTargetIsAttended'
<1> SUFFICES ASSUME link # {}, interval = "other"
             PROVE  \/ pending'
                    \/ \E r \in Requests : AboutToSend(r)'
                    \/ \E i \in 1 .. Len(inbox') : OffTarget(inbox[i])'
    BY DEF OffTargetIsAttended
<1>1. CASE pending
    BY <1>1
<1>2. CASE \E r \in Requests : AboutToSend(r)
    BY <1>2
<1>3. CASE \E i \in 1 .. Len(inbox) : OffTarget(inbox[i])
    BY <1>3 DEF OffTarget
<1> QED BY <1>1, <1>2, <1>3 DEF OffTargetIsAttended

(* An update of the link's own to "other" waits for the guard.             *)
LEMMA NewsAttended ==
    ASSUME TypeOK, NEW h \in link, NEW ok \in BOOLEAN, Updated(h, ok, "other"),
           link' = link
    PROVE  OffTargetIsAttended'
<1>1. h \in Handles \cup {Foreign} /\ Len(inbox) \in Nat
    BY DEF TypeOK
<1>2. /\ inbox' \in Seq(Updates) /\ Len(inbox') = Len(inbox) + 1
      /\ inbox'[Len(inbox) + 1].handle = h
      /\ inbox'[Len(inbox) + 1].to = "other"
    BY <1>1, UpdatedIs DEF Intervals
<1>3. Len(inbox) + 1 \in DOMAIN inbox'
    BY <1>1, <1>2
<1> QED BY <1>2, <1>3 DEF OffTargetIsAttended, OffTarget

LEMMA NextAttended ==
    TypeOK /\ RateInv /\ OffTargetIsAttended /\ [Next]_vars => OffTargetIsAttended'
<1> SUFFICES ASSUME TypeOK, RateInv, OffTargetIsAttended, [Next]_vars
             PROVE  OffTargetIsAttended'
    OBVIOUS
<1> USE Bounds
<1>0. /\ link \in SUBSET Handles /\ interval \in Intervals
      /\ inbox \in Seq(Updates) /\ Len(inbox) \in Nat
      /\ req \in [Requests -> Request]
    BY DEF TypeOK
<1>1. CASE Revert
    <2>1. PICK h \in link : Updated(h, TRUE, "other")
        BY <1>1 DEF Revert
    <2> QED BY <1>1, <2>1, NewsAttended DEF Revert
<1>2. CASE ForeignUpdate
    <2>1. Updated(Foreign, TRUE, "other") /\ UNCHANGED <<link, interval, pending>>
        BY <1>2 DEF ForeignUpdate
    <2>2. /\ inbox' \in Seq(Updates) /\ Len(inbox') = Len(inbox) + 1
          /\ \A i \in 1 .. Len(inbox) : inbox'[i] = inbox[i]
          /\ \A r \in Requests : req'[r].at = req[r].at /\ req'[r].handle = req[r].handle
        BY <2>1, UpdatedIs DEF Intervals
    <2>3. \A r \in Requests : AboutToSend(r) => AboutToSend(r)'
        BY <2>1, <2>2 DEF AboutToSend
    <2>4. \A i \in 1 .. Len(inbox) : \E j \in 1 .. Len(inbox') : inbox'[j] = inbox[i]
        BY <1>0, <2>2
    <2> QED BY <1>0, <2>1, <2>2, <2>3, <2>4, StillAttended
<1>3. CASE LinkDrops
    BY <1>3 DEF LinkDrops, OffTargetIsAttended
<1>4. CASE Complete
    BY <1>4 DEF Complete, OffTargetIsAttended
<1>5. CASE Reject
    <2>1. PICK h \in link, to \in {interval, "other"} : Updated(h, FALSE, to)
        BY <1>5 DEF Reject
    <2>2. UNCHANGED <<link, interval>>
        BY <1>5 DEF Reject
    <2>3. CASE interval = "other"
        BY <2>1, <2>2, <2>3, NewsAttended
    <2>4. CASE interval # "other"
        BY <2>2, <2>4 DEF OffTargetIsAttended
    <2> QED BY <2>3, <2>4
<1>6. CASE Reconnect
    <2>1. req'[0].at = "open"
        BY <1>0, <1>6 DEF Reconnect, Request
    <2> QED BY <2>1 DEF OffTargetIsAttended, AboutToSend
<1>7. CASE Monitor
    <2> DEFINE e == Head(inbox)
    <2>1. /\ inbox # <<>> /\ inbox' = Tail(inbox)
          /\ UNCHANGED <<link, interval, pending>>
        BY <1>7 DEF Monitor
    <2>2. /\ e = inbox[1] /\ e \in Updates /\ inbox' \in Seq(Updates)
          /\ Len(inbox') = Len(inbox) - 1 /\ Len(inbox) >= 1
          /\ \A i \in 1 .. Len(inbox') : inbox'[i] = inbox[i + 1]
        BY <1>0, <2>1
    <2>3. CASE OwnLink(e) /\ ShouldReapply(e)
        <3> DEFINE free == {r \in Requests \ {0} : req[r].at = "idle"}
                   r == CHOOSE r \in free : TRUE
        <3>1. free # {} /\ req' = [req EXCEPT ![r].at = "open"]
            BY <1>7, <2>3 DEF Monitor
        <3>2. r \in Requests
            BY <3>1
        <3> HIDE DEF r
        <3>3. req'[r].at = "open"
            BY <1>0, <3>1, <3>2 DEF Request
        <3> QED BY <3>2, <3>3 DEF OffTargetIsAttended, AboutToSend
    <2>4. CASE ~(OwnLink(e) /\ ShouldReapply(e))
        <3>1. req' = req
            BY <1>7, <2>4 DEF Monitor
        <3> HIDE DEF e
        <3>2. ~OffTarget(e)
            <4> SUFFICES ASSUME OffTarget(e) PROVE FALSE
                OBVIOUS
            <4>1. Off(e)
                BY <1>0 DEF OffTarget, Off, Foreign
            <4>2. age = REAPPLY_MIN_GAP
                BY <2>2, <4>1, 1 \in 1 .. Len(inbox) DEF RateInv
            <4> QED BY <2>4, <4>2 DEF OffTarget, OwnLink, ShouldReapply
        <3>3. \A i \in 1 .. Len(inbox) : OffTarget(inbox[i]) =>
                 \E j \in 1 .. Len(inbox') : inbox'[j] = inbox[i]
            <4> SUFFICES ASSUME NEW i \in 1 .. Len(inbox), OffTarget(inbox[i])
                         PROVE  \E j \in 1 .. Len(inbox') : inbox'[j] = inbox[i]
                OBVIOUS
            <4>1. i # 1
                BY <2>2, <3>2
            <4>2. i - 1 \in 1 .. Len(inbox') /\ (i - 1) + 1 = i
                BY <1>0, <2>2, <4>1
            <4>3. inbox'[i - 1] = inbox[i]
                BY <2>2, <4>2
            <4> QED BY <4>2, <4>3
        <3>4. \A r \in Requests : AboutToSend(r) => AboutToSend(r)'
            BY <2>1, <3>1 DEF AboutToSend
        <3> QED BY <1>0, <2>1, <2>2, <3>3, <3>4, StillAttended
    <2> QED BY <2>3, <2>4
<1>8. ASSUME UNCHANGED <<link, interval, pending, inbox, req>>
      PROVE  OffTargetIsAttended'
    BY <1>8 DEF OffTargetIsAttended, AboutToSend, OffTarget
<1>9. ASSUME NEW r \in Requests, UNCHANGED <<link, interval, inbox>>,
             pending => pending', AboutToSend(r) => pending' \/ link = {},
             \A q \in Requests \ {r} : req'[q].at = req[q].at /\ req'[q].handle = req[q].handle
      PROVE  OffTargetIsAttended'
    <2>1. \A q \in Requests : AboutToSend(q) =>
             AboutToSend(q)' \/ pending' \/ link = {}
        BY <1>9 DEF AboutToSend
    <2>2. inbox' \in Seq(Updates) /\ Len(inbox') = Len(inbox)
        BY <1>0, <1>9
    <2>3. \A i \in 1 .. Len(inbox) : \E j \in 1 .. Len(inbox') : inbox'[j] = inbox[i]
        BY <1>9, <2>2
    <2> QED BY <1>0, <1>9, <2>1, <2>2, <2>3, StillAttended
<1>10. ASSUME NEW r \in Requests, RequestStep(r) PROVE OffTargetIsAttended'
    <2>1. CASE FindHandle(r)
        <3>1. CASE link = {}
            BY <2>1, <3>1 DEF FindHandle, OffTargetIsAttended
        <3>2. CASE link # {}
            <4>1. PICK h \in link : req' = [req EXCEPT ![r].at = "send", ![r].handle = h]
                BY <2>1, <3>2 DEF FindHandle
            <4>2. req'[r].at = "send" /\ req'[r].handle \in link'
                BY <1>0, <2>1, <4>1 DEF FindHandle, Request
            <4> QED BY <4>2 DEF OffTargetIsAttended, AboutToSend
        <3> QED BY <3>1, <3>2
    <2>2. CASE SendCommand(r)
        <3> DEFINE sent == [req EXCEPT ![r].at = "await"]
        <3>1. sent \in [Requests -> Request]
            <4>1. [req[r] EXCEPT !.at = "await"] \in Request
                BY <1>0 DEF Request
            <4> QED BY <1>0, <4>1
        <3>2. \A q \in Requests \ {r} : sent[q] = req[q]
            BY <1>0
        <3>3. req' = sent \/ req' = Delivered(sent, Refusal)
            BY <2>2 DEF SendCommand
        <3> HIDE DEF sent
        <3>4. \A q \in Requests \ {r} :
                 req'[q].at = req[q].at /\ req'[q].handle = req[q].handle
            BY <3>1, <3>2, <3>3, DeliveredIs DEF Events
        <3>5. /\ UNCHANGED <<link, interval, inbox>> /\ req[r].at = "send"
              /\ pending => pending'
              /\ pending' \/ req[r].handle \notin link
            BY <2>2 DEF SendCommand
        <3>6. AboutToSend(r) => pending'
            BY <3>5 DEF AboutToSend
        <3> QED BY <1>9, <3>4, <3>5, <3>6
    <2>3. CASE ReadEvent(r) \/ Timeout(r)
        <3>1. /\ req[r].at = "await"
              /\ Failed(r) \/ Done(r)
              /\ UNCHANGED <<link, interval, pending, inbox>>
            BY <2>3 DEF ReadEvent, Timeout
        <3>2. \A q \in Requests \ {r} : req'[q] = req[q]
            BY <1>0, <3>1 DEF Failed, Done
        <3>3. ~AboutToSend(r)
            BY <2>3 DEF AboutToSend, ReadEvent, Timeout
        <3> QED BY <1>9, <3>1, <3>2, <3>3
    <2> QED BY <1>10, <2>1, <2>2, <2>3 DEF RequestStep
<1>11. CASE SetupAgain
    <2>1. req'[0].at = "open"
        BY <1>0, <1>11 DEF SetupAgain, Request
    <2> QED BY <2>1 DEF OffTargetIsAttended, AboutToSend
<1>12. CASE InstanceRestart
    <2>1. PICK r \in Requests \ {0} :
             req[r].at = "idle" /\ req' = [req EXCEPT ![r] = req[0], ![0] = Idle]
        BY <1>12 DEF InstanceRestart
    <2>2. UNCHANGED <<link, interval, pending, inbox>>
        BY <1>12 DEF InstanceRestart
    <2>3. req'[r] = req[0] /\ \A q \in Requests \ {0, r} : req'[q] = req[q]
        BY <1>0, <2>1
    <2>4. ~AboutToSend(r)
        BY <2>1 DEF AboutToSend
    <2>5. ASSUME NEW q \in Requests, AboutToSend(q)
          PROVE  \E p \in Requests : AboutToSend(p)'
        <3>1. CASE q = 0
            BY <2>2, <2>3, <2>5, <3>1 DEF AboutToSend
        <3>2. CASE q # 0
            BY <2>2, <2>3, <2>4, <2>5, <3>2 DEF AboutToSend
        <3> QED BY <3>1, <3>2
    <2> QED BY <2>2, <2>5 DEF OffTargetIsAttended, OffTarget
<1>13. CASE Tick
    BY <1>8, <1>13 DEF Tick
<1>14. CASE UNCHANGED vars
    BY <1>8, <1>14 DEF vars
<1> QED
    BY <1>1, <1>2, <1>3, <1>4, <1>5, <1>6, <1>7, <1>10, <1>11, <1>12, <1>13,
       <1>14
    DEF Next, Environment

(* If the device leaves REAPPLY_MIN_GAP between its re-negotiations, a     *)
(* link off target is attended to, whatever requests, retries, refusals,   *)
(* late answers and other links do (hci_monitor.rs:106).                   *)
THEOREM OffTargetAlwaysAttended ==
    PatientDevice => (Spec => []OffTargetIsAttended)
<1> SUFFICES ASSUME PatientDevice PROVE Spec => []OffTargetIsAttended
    OBVIOUS
<1>1. Init => TypeOK /\ RateInv /\ OffTargetIsAttended
    BY InitTypeOK, InitRate, InitAttended
<1>2. TypeOK /\ RateInv /\ OffTargetIsAttended /\ [Next]_vars
      => (TypeOK /\ RateInv /\ OffTargetIsAttended)'
    BY NextTypeOK, NextRate, NextAttended
<1> QED BY <1>1, <1>2, PTL DEF Spec
=============================================================================
