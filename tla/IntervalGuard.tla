--------------------------- MODULE IntervalGuard ----------------------------
(***************************************************************************)
(* Who decides the connection interval: the device, which asks for a fast  *)
(* one whenever it likes and gets it, and the bridge, which requests its   *)
(* own at every setup (request_interval in src/src/hci.rs) and again when  *)
(* the guard of src/src/hci_monitor.rs sees the link off target.           *)
(*                                                                         *)
(* Every event of the controller reaches the guard's monitor socket and    *)
(* the raw socket of each request in progress; a request cannot tell the   *)
(* answer to its own command from any other update of its handle.          *)
(***************************************************************************)
EXTENDS Naturals, Sequences

CONSTANTS
    REAPPLY_MIN_GAP, MAX_INTERVAL_RETRIES,
    Handles,      \* the handles the controller may give our link
    MinQuiet,     \* the device asks or refuses this long after it last did
    Threads,      \* bound on the other requests that run at once
    Kinds,        \* what the environment may do of its own, see Incident
    Incidents     \* bound on how often it does

ASSUME GuardAssumption ==
    /\ REAPPLY_MIN_GAP \in Nat \ {0}
    /\ MAX_INTERVAL_RETRIES \in Nat \ {0}
    /\ Handles \subseteq Nat \ {0}
    /\ Kinds \subseteq {"revert", "reject", "drop", "foreign", "late", "retry",
                       "restart"}
    /\ {MinQuiet, Threads, Incidents} \subseteq Nat

VARIABLES
    link,         \* the handle of our link, {} when it is down
    interval,     \* the one the link runs at, meaningful while it is up
    pending,      \* the controller works on an update of ours
    inbox,        \* frames the monitor has not read
    age,          \* last_reapply.elapsed(), up to REAPPLY_MIN_GAP
    req,          \* requests in progress: 0 is the supervisor's, made at
                  \* setup; the others are re-apply threads and what
                  \* instances that are gone left behind
    quiet,        \* since the device last asked or refused, up to MinQuiet
    left          \* incidents the environment has left

vars == <<link, interval, pending, inbox, age, req, quiet, left>>

Intervals == {"target", "other"}
Foreign == 0   \* the handle of somebody else's link
Requests == 0 .. Threads

(* LE Connection Update Complete, and the command status of an LE          *)
(* Connection Update that the controller does not accept                   *)
Updates == [kind : {"update"}, handle : Handles \cup {Foreign},
            ok : BOOLEAN, to : Intervals]
Refusal == [kind |-> "refusal"]
Events == Updates \cup {Refusal}

Request == [at : {"idle", "open", "send", "await"},
            handle : Handles \cup {Foreign},
            attempt : 1 .. MAX_INTERVAL_RETRIES,
            events : Seq(Events)]

Idle == [at |-> "idle", handle |-> Foreign, attempt |-> 1, events |-> <<>>]

TypeOK ==
    /\ link \in SUBSET Handles /\ \A g, h \in link : g = h
    /\ interval \in Intervals
    /\ pending \in BOOLEAN
    /\ inbox \in Seq(Updates)
    /\ age \in 0 .. REAPPLY_MIN_GAP
    /\ req \in [Requests -> Request]
    /\ quiet \in 0 .. MinQuiet
    /\ left \in 0 .. Incidents

Init ==
    /\ link = {}
    /\ interval = "other"
    /\ pending = FALSE
    /\ inbox = <<>>
    /\ age = REAPPLY_MIN_GAP
    /\ req = [r \in Requests |-> Idle]
    /\ quiet = MinQuiet
    /\ left = Incidents

-----------------------------------------------------------------------------
(* The device, the controller and other links.                             *)

(* The event e is delivered to the requests that have a socket open.  What *)
(* a request would skip, the updates of other handles, is left out.        *)
Delivered(requests, e) ==
    [r \in Requests |->
        IF /\ requests[r].at \notin {"idle", "open"}
           /\ e.kind = "update" => e.handle = requests[r].handle
        THEN [requests[r] EXCEPT !.events = Append(@, e)]
        ELSE requests[r]]

Updated(h, ok, to) ==
    LET e == [kind |-> "update", handle |-> h, ok |-> ok, to |-> to]
    IN  /\ inbox' = Append(inbox, e)
        /\ req' = Delivered(req, e)

Incident(kind) == kind \in Kinds /\ left > 0 /\ left' = left - 1

(* The bridge connects, at an interval of the device's, and requests its   *)
(* own; setup, and the next one, go on only when the request is over.      *)
Reconnect ==
    /\ link = {}
    /\ req[0].at = "idle"
    /\ \E h \in Handles : link' = {h}
    /\ interval' = "other"
    /\ req' = [req EXCEPT ![0].at = "open"]
    /\ UNCHANGED <<pending, inbox, age, quiet, left>>

(* Setup fails behind its request, or its instance is gone, and the next   *)
(* setup finds the link still up.                                          *)
SetupAgain ==
    /\ link # {}
    /\ req[0].at = "idle"
    /\ Incident("retry")
    /\ req' = [req EXCEPT ![0].at = "open"]
    /\ UNCHANGED <<link, interval, pending, inbox, age, quiet>>

(* The supervisor is aborted in its request, which blocks its thread and   *)
(* goes on beside what the supervisor of the next instance requests.       *)
InstanceRestart ==
    /\ req[0].at # "idle"
    /\ Incident("restart")
    /\ \E r \in Requests \ {0} :
         /\ req[r].at = "idle"
         /\ req' = [req EXCEPT ![r] = req[0], ![0] = Idle]
    /\ UNCHANGED <<link, interval, pending, inbox, age, quiet>>

LinkDrops ==
    /\ link # {}
    /\ Incident("drop")
    /\ link' = {}
    /\ pending' = FALSE
    /\ UNCHANGED <<interval, inbox, age, req, quiet>>

(* The device asks for its interval, and BlueZ gives it. *)
Revert ==
    /\ quiet = MinQuiet
    /\ Incident("revert")
    /\ \E h \in link : Updated(h, TRUE, "other")
    /\ interval' = "other"
    /\ quiet' = 0
    /\ UNCHANGED <<link, pending, age>>

ForeignUpdate ==
    /\ Incident("foreign")
    /\ Updated(Foreign, TRUE, "other")
    /\ UNCHANGED <<link, interval, pending, age, quiet>>

(* The controller is done with our update: the link runs at the target. *)
Complete ==
    /\ pending
    /\ \E h \in link : Updated(h, TRUE, "target")
    /\ interval' = "target"
    /\ pending' = FALSE
    /\ UNCHANGED <<link, age, quiet, left>>

(* The device refuses our update.  The interval in the event is the one in *)
(* force, or means nothing.                                                *)
Reject ==
    /\ pending
    /\ quiet = MinQuiet
    /\ Incident("reject")
    /\ \E h \in link, to \in {interval, "other"} : Updated(h, FALSE, to)
    /\ pending' = FALSE
    /\ quiet' = 0
    /\ UNCHANGED <<link, interval, age>>

-----------------------------------------------------------------------------
(* The guard: one thread that reads frames.                                *)

(* A variant that does not filter by handle. *)
OwnLink_Any(e) == link # {}

OwnLink(e) == e.handle \in link

ShouldReapply(e) == e.to # "target" /\ age = REAPPLY_MIN_GAP

(* A variant that stamps the time before it looks at the target. *)
Monitor_StampsFirst ==
    /\ inbox # <<>>
    /\ inbox' = Tail(inbox)
    /\ age' = IF OwnLink(Head(inbox)) /\ age = REAPPLY_MIN_GAP THEN 0 ELSE age
    /\ IF OwnLink(Head(inbox)) /\ ShouldReapply(Head(inbox))
       THEN \E r \in Requests \ {0} :
                /\ req[r].at = "idle"
                /\ req' = [req EXCEPT ![r].at = "open"]
       ELSE UNCHANGED req
    /\ UNCHANGED <<link, interval, pending, quiet, left>>

(* A frame is read, its handle compared with the one our link has now, and *)
(* an off-target interval re-applied by a new thread, unless the last      *)
(* re-apply was less than REAPPLY_MIN_GAP ago.                             *)
Monitor ==
    /\ inbox # <<>>
    /\ inbox' = Tail(inbox)
    /\ IF OwnLink(Head(inbox)) /\ ShouldReapply(Head(inbox))
       THEN /\ age' = 0
            /\ LET free == {r \in Requests \ {0} : req[r].at = "idle"}
               IN  /\ free # {}
                   /\ req' = [req EXCEPT ![CHOOSE r \in free : TRUE].at = "open"]
       ELSE UNCHANGED <<age, req>>
    /\ UNCHANGED <<link, interval, pending, quiet, left>>

-----------------------------------------------------------------------------
(* request_interval, by the supervisor or by a re-apply thread.            *)

(* The socket is closed with whatever it still holds. *)
Done(r) == req' = [req EXCEPT ![r] = Idle]

(* The socket is opened and the handle of our link looked up. *)
FindHandle(r) ==
    /\ req[r].at = "open"
    /\ \/ link = {} /\ Done(r)
       \/ \E h \in link :
            req' = [req EXCEPT ![r].at = "send", ![r].handle = h]
    /\ UNCHANGED <<link, interval, pending, inbox, age, quiet, left>>

(* The controller refuses a command for a handle it does not know and a    *)
(* second one while it works on the first; everybody sees the refusal.     *)
SendCommand(r) ==
    /\ req[r].at = "send"
    /\ LET sent == [req EXCEPT ![r].at = "await"]
       IN  \/ /\ req[r].handle \in link /\ ~pending
              /\ pending' = TRUE
              /\ req' = sent
           \/ /\ req[r].handle \notin link \/ pending
              /\ req' = Delivered(sent, Refusal)
              /\ UNCHANGED pending
    /\ UNCHANGED <<link, interval, inbox, age, quiet, left>>

(* A variant with one attempt too many. *)
Failed_OneMore(r) ==
    IF req[r].attempt <= MAX_INTERVAL_RETRIES
    THEN req' = [req EXCEPT ![r].at = "send", ![r].attempt = @ + 1,
                            ![r].events = IF @ = <<>> THEN @ ELSE Tail(@)]
    ELSE Done(r)

(* with_retry: another attempt on the same socket, after a delay whose      *)
(* length is left out, which only lets it come earlier.                    *)
Failed(r) ==
    IF req[r].attempt < MAX_INTERVAL_RETRIES
    THEN req' = [req EXCEPT ![r].at = "send", ![r].attempt = @ + 1,
                            ![r].events = IF @ = <<>> THEN @ ELSE Tail(@)]
    ELSE Done(r)

(* A refusal, or an update of the request's handle, ends the attempt,      *)
(* whoever caused it and wherever it leads.                                *)
ReadEvent(r) ==
    /\ req[r].at = "await"
    /\ req[r].events # <<>>
    /\ LET e == Head(req[r].events)
       IN  \/ e.kind = "update" /\ e.ok /\ Done(r)
           \/ (e.kind = "update" => ~e.ok) /\ Failed(r)
    /\ UNCHANGED <<link, interval, pending, inbox, age, quiet, left>>

(* Fifteen seconds without an answer: there will be none, or it is late,   *)
(* since an update takes several intervals and an interval up to 4 s.      *)
Timeout(r) ==
    /\ req[r].at = "await"
    /\ req[r].events = <<>>
    /\ \/ ~pending /\ UNCHANGED left
       \/ pending /\ Incident("late")
    /\ Failed(r)
    /\ UNCHANGED <<link, interval, pending, inbox, age, quiet>>

RequestStep(r) ==
    \/ FindHandle(r)
    \/ SendCommand(r)
    \/ ReadEvent(r)
    \/ Timeout(r)

-----------------------------------------------------------------------------
Older(n, most) == IF n < most THEN n + 1 ELSE n

(* A second passes; the guard's thread does nothing else than read frames  *)
(* and has read them by then.                                              *)
Tick ==
    /\ inbox = <<>>
    /\ age' = Older(age, REAPPLY_MIN_GAP)
    /\ quiet' = Older(quiet, MinQuiet)
    /\ UNCHANGED <<link, interval, pending, inbox, req, left>>

Environment == Revert \/ ForeignUpdate \/ LinkDrops \/ Complete \/ Reject

Next ==
    \/ Environment
    \/ Reconnect \/ SetupAgain \/ InstanceRestart
    \/ Monitor
    \/ \E r \in Requests : RequestStep(r)
    \/ Tick

Spec == Init /\ [][Next]_vars

(* Threads run, time passes, the controller ends what it began, and the    *)
(* supervisor, which never gives up, connects.                             *)
FairSpec ==
    /\ Spec
    /\ WF_vars(Monitor)
    /\ \A r \in Requests : WF_vars(RequestStep(r))
    /\ WF_vars(Tick)
    /\ WF_vars(Complete \/ Reject)
    /\ WF_vars(Reconnect)

-----------------------------------------------------------------------------
(* A link that is off target is being attended to (hci_monitor.rs:106):    *)
(* the controller works on an update, a request is about to send one for   *)
(* the handle of this link, or the guard has yet to read the event that    *)
(* makes it send one.  So no answer that a request mistook for its own, no *)
(* refusal and no rate limit loses the last request.  Needs a device that  *)
(* leaves REAPPLY_MIN_GAP between its re-negotiations.                     *)
OffTarget(e) == e.handle \in link /\ e.to = "other"

AboutToSend(r) ==
    req[r].at = "open" \/ (req[r].at = "send" /\ req[r].handle \in link)

OffTargetIsAttended ==
    link # {} /\ interval = "other" =>
        \/ pending
        \/ \E r \in Requests : AboutToSend(r)
        \/ \E i \in DOMAIN inbox : OffTarget(inbox[i])

(* The interval is pinned (hci_monitor.rs:215): when the device leaves     *)
(* off, the link is up and on target for good, whatever the requests and   *)
(* re-applies did to each other, whichever links came and went, and        *)
(* however other links changed.  Of a device that asks or refuses again    *)
(* within REAPPLY_MIN_GAP it is not true: see run revert_deferred.         *)
EventuallyPinned == <>[](link # {} /\ interval = "target")

-----------------------------------------------------------------------------
(* What the tests and documents of the repository say.                     *)

(* hci_monitor.rs:336, "a second revert inside the rate-limit window must  *)
(* be deferred", and connection-interval.md:96, "the guard re-asserts it  *)
(* on every revert": deferred is not dropped, so that the link, as long as *)
(* it stays up, gets back to the target.                                   *)
EveryRevertCorrected ==
    (link # {} /\ interval = "other") ~> (link = {} \/ interval = "target")
=============================================================================
