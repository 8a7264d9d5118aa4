----------------------------- MODULE StatusPath -----------------------------
(***************************************************************************)
(* How the state of the zones travels from the device to MQTT              *)
(* (src/src/lib.rs): the supervisor sets a session up, the device notifies *)
(* its changes on ff82, a consumer per session copies the notifications to *)
(* the status cache (a watch channel), the valve event observer compares   *)
(* what the cache holds with what it held and pushes the differences, and  *)
(* a status command reads the cache, or the device if the cache is empty.  *)
(*                                                                         *)
(* A watch channel keeps one value and, for its receiver, whether it has   *)
(* been sent to since the receiver last looked.  Each task is a process of *)
(* its own: the runtime is multi-threaded, so that any two of them may be  *)
(* between two of their awaits at once.                                    *)
(***************************************************************************)
EXTENDS Naturals, Sequences

CONSTANTS
    Zones,             \* the zones, reported in increasing order
    StreamsSurvive,    \* whether a notification stream outlives its link
    MaxChanges,        \* bound: how often the device changes a zone
    MaxDrops,          \* bound: how often the link drops, a poll of it errs
                       \* or the instance restarts
    MaxRequests        \* bound: how many status commands arrive

ASSUME StatusPathAssumption ==
    /\ Zones \subseteq {1, 2}
    /\ StreamsSurvive \in BOOLEAN
    /\ MaxChanges \in Nat /\ MaxDrops \in Nat /\ MaxRequests \in Nat

VARIABLES
    device,      \* which zones are watering
    changes,     \* how many changes the device made
    link,        \* is the BLE link up
    drops,       \* how often it dropped, a poll erred or the instance
                 \* restarted
    subscribed,  \* has this link an ff82 subscription
    authed,      \* was the password written on this link
    sup,         \* where the supervisor is
    ready,       \* connection_ready
    streams,     \* the notification streams opened so far, oldest first
    cache,       \* the status cache: {} is None
    unseen,      \* was the cache sent to since the observer looked
    obs,         \* the valve event observer
    reader,      \* the status command being handled
    requests,    \* how many there were
    had,         \* history: the states the device was in since the
                 \* supervisor last connected
    turned,      \* history: what each zone was reported to have changed
                 \* to, on this link
    pushed,      \* history: the last push of each zone since the observer
                 \* last had no baseline
    shown        \* history: the last status of each zone on MQTT

linkVars == <<link, drops, subscribed, authed>>
deviceVars == <<device, changes, had, turned>>
supVars == <<sup, ready>>
cacheVars == <<cache, unseen>>
readerVars == <<reader, requests>>
history == <<pushed, shown>>
vars == <<deviceVars, linkVars, supVars, streams, cacheVars, obs, readerVars,
          history>>

(* What the bridge keeps of an ff82 payload: which zones are watering. *)
Status == [Zones -> BOOLEAN]
Option(S) == {s \in SUBSET S : \A x, y \in s : x = y}
NoStatus == [z \in Zones |-> FALSE]
Never == [z \in Zones |-> {}]

Stream == [queue : Seq(Status), live : BOOLEAN, spawned : BOOLEAN]
Observer == [at : {"idle", "report"}, prev : Option(Status), new : Status,
             todo : SUBSET Zones]
Reader == [at : {"idle", "gate", "read", "seed", "reply"}, zone : Zones,
           value : Status]

(* The types, and: every stream but the newest has its consumer.           *)
TypeOK ==
    /\ device \in Status /\ changes \in 0 .. MaxChanges
    /\ link \in BOOLEAN /\ drops \in 0 .. MaxDrops
    /\ subscribed \in BOOLEAN /\ authed \in BOOLEAN
    /\ sup \in {"connect", "password", "subscribe", "stream", "reset",
                "names", "watch", "backoff"}
    /\ ready \in BOOLEAN
    /\ streams \in Seq(Stream)
    /\ \A i \in DOMAIN streams : streams[i].spawned \/ i = Len(streams)
    /\ cache \in Option(Status) /\ unseen \in BOOLEAN
    /\ obs \in Observer
    /\ reader \in Reader /\ requests \in 0 .. MaxRequests
    /\ had \in SUBSET Status
    /\ turned \in [Zones -> SUBSET BOOLEAN]
    /\ pushed \in [Zones -> Option(BOOLEAN)]
    /\ shown \in [Zones -> Option(BOOLEAN)]

Init ==
    /\ device = NoStatus /\ changes = 0 /\ had = {device} /\ turned = Never
    /\ link = FALSE /\ drops = 0 /\ subscribed = FALSE /\ authed = FALSE
    /\ sup = "connect" /\ ready = FALSE
    /\ streams = <<>>
    /\ cache = {} /\ unseen = FALSE
    /\ obs = [at |-> "idle", prev |-> {}, new |-> NoStatus, todo |-> {}]
    /\ reader \in [at : {"idle"}, zone : Zones, value : {NoStatus}]
    /\ requests = 0
    /\ pushed = Never /\ shown = Never

-----------------------------------------------------------------------------
(* The device and the link.                                                *)

(* A zone starts or stops, by a command, by its timer or by its button.    *)
(* Every stream that is live gets the notification.                        *)
DeviceChanges(z) ==
    /\ changes < MaxChanges
    /\ changes' = changes + 1
    /\ device' = [device EXCEPT ![z] = ~@]
    /\ had' = had \cup {device'}
    /\ LET reached == {i \in DOMAIN streams : link /\ subscribed /\ streams[i].live}
       IN  /\ streams' = [i \in DOMAIN streams |->
                            IF i \in reached
                            THEN [streams[i] EXCEPT !.queue = Append(@, device')]
                            ELSE streams[i]]
           /\ turned' = IF reached = {} THEN turned
                        ELSE [turned EXCEPT ![z] = @ \cup {device'[z]}]
    /\ UNCHANGED <<linkVars, supVars, cacheVars, obs, readerVars, history>>

(* The subscription and the authentication do not survive the link. *)
LinkDrops ==
    /\ link
    /\ drops < MaxDrops
    /\ drops' = drops + 1
    /\ link' = FALSE /\ subscribed' = FALSE /\ authed' = FALSE
    /\ streams' = [i \in DOMAIN streams |->
                      [streams[i] EXCEPT !.live = @ /\ StreamsSurvive]]
    /\ UNCHANGED <<deviceVars, supVars, cacheVars, obs, readerVars, history>>

-----------------------------------------------------------------------------
(* The supervisor.                                                         *)

(* What ten seconds of scanning leave time for: the consumers have caught  *)
(* up, and a read that was waiting for the device has failed.  Nothing is  *)
(* assumed of the observer, which may wait for the database or for MQTT.   *)
Settled ==
    /\ \A i \in DOMAIN streams : streams[i].queue = <<>>
    /\ reader.at \notin {"read", "seed"}

Connect ==
    /\ sup = "connect"
    /\ Settled
    /\ link' = TRUE
    /\ had' = {device}
    /\ turned' = IF link THEN turned ELSE Never
    /\ sup' = "password"
    /\ UNCHANGED <<device, changes, drops, subscribed, authed, ready, streams,
                   cacheVars, obs, readerVars, history>>

WritePassword ==
    /\ sup = "password"
    /\ link
    /\ authed' = TRUE
    /\ sup' = "subscribe"
    /\ UNCHANGED <<deviceVars, link, drops, subscribed, ready, streams,
                   cacheVars, obs, readerVars, history>>

Subscribe ==
    /\ sup = "subscribe"
    /\ link
    /\ subscribed' = TRUE
    /\ sup' = "stream"
    /\ UNCHANGED <<deviceVars, link, drops, authed, ready, streams,
                   cacheVars, obs, readerVars, history>>

(* The stream buffers from here on; its consumer is spawned later. *)
OpenStream ==
    /\ sup = "stream"
    /\ streams' = Append(streams,
                         [queue |-> <<>>, live |-> link, spawned |-> FALSE])
    /\ sup' = "reset"
    /\ UNCHANGED <<deviceVars, linkVars, ready, cacheVars, obs,
                   readerVars, history>>

(* A variant in which a zone name that cannot be read fails the setup. *)
SetupFails_OnNames ==
    /\ sup \in {"connect", "password", "subscribe", "stream", "names"}
    /\ ready' = FALSE
    /\ sup' = "backoff"
    /\ UNCHANGED <<deviceVars, linkVars, streams, cacheVars, obs,
                   readerVars, history>>

(* The setup of a session fails: the supervisor waits and tries again. *)
SetupFails ==
    /\ sup \in {"connect", "password", "subscribe", "stream"}
    /\ ready' = FALSE
    /\ sup' = "backoff"
    /\ UNCHANGED <<deviceVars, linkVars, streams, cacheVars, obs,
                   readerVars, history>>

Retry ==
    /\ sup = "backoff"
    /\ sup' = "connect"
    /\ UNCHANGED <<deviceVars, linkVars, ready, streams, cacheVars,
                   obs, readerVars, history>>

(* A variant that keeps the cache of the session before. *)
ResetCache_Kept ==
    /\ sup = "reset"
    /\ sup' = "names"
    /\ UNCHANGED <<deviceVars, linkVars, ready, streams, cacheVars,
                   obs, readerVars, history>>

(* The session is set up: the cache forgets the one before. *)
ResetCache ==
    /\ sup = "reset"
    /\ cache' = {}
    /\ unseen' = TRUE
    /\ sup' = "names"
    /\ UNCHANGED <<deviceVars, linkVars, ready, streams, obs,
                   readerVars, history>>

(* The zone names are read (or not), then the consumer is spawned and      *)
(* commands are let through.                                               *)
BecomeReady ==
    /\ sup = "names"
    /\ streams' = [streams EXCEPT ![Len(streams)].spawned = TRUE]
    /\ ready' = TRUE
    /\ sup' = "watch"
    /\ UNCHANGED <<deviceVars, linkVars, cacheVars, obs, readerVars,
                   history>>

(* A variant that reconnects without closing the gate. *)
SeeLinkLost_StillReady ==
    /\ sup = "watch"
    /\ ~link
    /\ sup' = "connect"
    /\ UNCHANGED <<deviceVars, linkVars, ready, streams, cacheVars,
                   obs, readerVars, history>>

(* The poll of wait_for_disconnect_or_shutdown: up to a second late. *)
SeeLinkLost ==
    /\ sup = "watch"
    /\ ~link
    /\ ready' = FALSE
    /\ sup' = "connect"
    /\ UNCHANGED <<deviceVars, linkVars, streams, cacheVars, obs,
                   readerVars, history>>

(* is_connected answers false when the call itself errs: the link is up,   *)
(* and the supervisor sets it up again.                                    *)
PollFails ==
    /\ sup = "watch"
    /\ link
    /\ drops < MaxDrops
    /\ drops' = drops + 1
    /\ ready' = FALSE
    /\ sup' = "connect"
    /\ UNCHANGED <<deviceVars, link, subscribed, authed, streams, cacheVars,
                   obs, readerVars, history>>

(* The poll sees the link up, and sleeps for another second. *)
PollConnected ==
    /\ sup = "watch"
    /\ link
    /\ UNCHANGED vars

-----------------------------------------------------------------------------
(* The consumers and the observer.                                         *)

Differing(a, b) == {z \in Zones : a[z] # b[z]}

(* A consumer takes a notification and sends it to the cache.  (One that   *)
(* does not parse is dropped; the notification of a change is taken to.)   *)
Consume(i) ==
    /\ streams[i].spawned
    /\ streams[i].queue # <<>>
    /\ cache' = {Head(streams[i].queue)}
    /\ unseen' = TRUE
    /\ streams' = [streams EXCEPT ![i].queue = Tail(@)]
    /\ UNCHANGED <<deviceVars, linkVars, supVars, obs, readerVars, history>>

(* The value becomes the baseline, at once if there was none or if no zone *)
(* differs from it, else when the differences are reported.                *)
TakeNew(new) ==
    LET todo == UNION {Differing(old, new) : old \in obs.prev}
    IN  obs' = IF todo = {} THEN [obs EXCEPT !.prev = {new}]
               ELSE [obs EXCEPT !.at = "report", !.new = new, !.todo = todo]

(* A variant that keeps its baseline when the cache is emptied. *)
Observe_KeepsBaseline ==
    /\ obs.at = "idle"
    /\ unseen
    /\ unseen' = FALSE
    /\ \/ /\ cache = {}
          /\ UNCHANGED obs
       \/ \E new \in cache : TakeNew(new)
    /\ UNCHANGED <<deviceVars, linkVars, supVars, streams, cache, readerVars,
                   history>>

(* The observer wakes and takes what the cache holds now, not what it held *)
(* at each send; None takes its baseline away.                             *)
Observe ==
    /\ obs.at = "idle"
    /\ unseen
    /\ unseen' = FALSE
    /\ \/ /\ cache = {}
          /\ obs' = [obs EXCEPT !.prev = {}]
          /\ pushed' = Never
       \/ \E new \in cache :
            /\ TakeNew(new)
            /\ UNCHANGED pushed
    /\ UNCHANGED <<deviceVars, linkVars, supVars, streams, cache, readerVars,
                   shown>>

(* A variant that reports one zone and forgets the other. *)
Report_OnlyFirst ==
    /\ obs.at = "report"
    /\ LET z == CHOOSE y \in obs.todo : \A x \in obs.todo : y <= x
           v == obs.new[z]
       IN  /\ shown' = [shown EXCEPT ![z] = {v}]
           /\ pushed' = [pushed EXCEPT ![z] = {v}]
           /\ obs' = [obs EXCEPT !.at = "idle", !.prev = {obs.new},
                                 !.new = NoStatus, !.todo = {}]
    /\ UNCHANGED <<deviceVars, linkVars, supVars, streams, cacheVars, readerVars>>

(* A variant that forgets to move the baseline once it has reported. *)
Report_KeepsBaseline ==
    /\ obs.at = "report"
    /\ LET z == CHOOSE y \in obs.todo : \A x \in obs.todo : y <= x
           v == obs.new[z]
       IN  /\ shown' = [shown EXCEPT ![z] = {v}]
           /\ pushed' = [pushed EXCEPT ![z] = {v}]
           /\ obs' = IF obs.todo = {z}
                     THEN [obs EXCEPT !.at = "idle", !.new = NoStatus, !.todo = {}]
                     ELSE [obs EXCEPT !.todo = @ \ {z}]
    /\ UNCHANGED <<deviceVars, linkVars, supVars, streams, cacheVars, readerVars>>

(* A valve event is written and a status pushed for the next zone that     *)
(* differs; both awaits may take long, and an error of either is logged.   *)
Report ==
    /\ obs.at = "report"
    /\ LET z == CHOOSE y \in obs.todo : \A x \in obs.todo : y <= x
           v == obs.new[z]
       IN  /\ shown' = [shown EXCEPT ![z] = {v}]
           /\ pushed' = [pushed EXCEPT ![z] = {v}]
           /\ obs' = IF obs.todo = {z}
                     THEN [obs EXCEPT !.at = "idle", !.prev = {obs.new},
                                      !.new = NoStatus, !.todo = {}]
                     ELSE [obs EXCEPT !.todo = @ \ {z}]
    /\ UNCHANGED <<deviceVars, linkVars, supVars, streams, cacheVars, readerVars>>

-----------------------------------------------------------------------------
(* get_status, for one status command at a time (command_lock).            *)

Request(z) ==
    /\ reader.at = "idle"
    /\ requests < MaxRequests
    /\ requests' = requests + 1
    /\ reader' = [at |-> "gate", zone |-> z, value |-> NoStatus]
    /\ UNCHANGED <<deviceVars, linkVars, supVars, streams, cacheVars, obs, history>>

ReaderDone == reader' = [reader EXCEPT !.at = "idle", !.value = NoStatus]

(* ensure_connection_ready lets the command through, which then looks at   *)
(* the cache.                                                              *)
PassGate ==
    /\ reader.at = "gate"
    /\ ready
    /\ \/ /\ cache = {}
          /\ reader' = [reader EXCEPT !.at = "read"]
       \/ \E s \in cache : reader' = [reader EXCEPT !.at = "reply", !.value = s]
    /\ UNCHANGED <<deviceVars, linkVars, supVars, streams, cacheVars, obs,
                   requests, history>>

(* ensure_connection_ready gives up: there is no response. *)
GateTimesOut ==
    /\ reader.at = "gate"
    /\ ~ready
    /\ ReaderDone
    /\ UNCHANGED <<deviceVars, linkVars, supVars, streams, cacheVars, obs,
                   requests, history>>

(* The device answers the read of ff82 ... *)
ReadStatus ==
    /\ reader.at = "read"
    /\ link
    /\ reader' = [reader EXCEPT !.at = "seed",
                     !.value = device]
    /\ UNCHANGED <<deviceVars, linkVars, supVars, streams, cacheVars, obs,
                   requests, history>>

(* ... or does not: there is no response. *)
ReadFails ==
    /\ reader.at = "read"
    /\ ReaderDone
    /\ UNCHANGED <<deviceVars, linkVars, supVars, streams, cacheVars, obs,
                   requests, history>>

(* A variant that overwrites what a notification brought meanwhile. *)
SeedCache_Overwrites ==
    /\ reader.at = "seed"
    /\ cache' = {reader.value}
    /\ unseen' = TRUE
    /\ reader' = [reader EXCEPT !.at = "reply"]
    /\ UNCHANGED <<deviceVars, linkVars, supVars, streams, obs, requests, history>>

(* send_if_modified: the value read fills the cache only if no             *)
(* notification did meanwhile.                                             *)
SeedCache ==
    /\ reader.at = "seed"
    /\ IF cache = {} THEN cache' = {reader.value} /\ unseen' = TRUE
                     ELSE UNCHANGED cacheVars
    /\ reader' = [reader EXCEPT !.at = "reply"]
    /\ UNCHANGED <<deviceVars, linkVars, supVars, streams, obs, requests, history>>

(* The response carries what was read, whatever the cache holds by now. *)
Reply ==
    /\ reader.at = "reply"
    /\ shown' = [shown EXCEPT ![reader.zone] = {reader.value[reader.zone]}]
    /\ ReaderDone
    /\ UNCHANGED <<deviceVars, linkVars, supVars, streams, cacheVars, obs,
                   requests, pushed>>

-----------------------------------------------------------------------------
(* The application instance.                                               *)

(* The MQTT loop fails: the guards of the tasks are dropped, and the next  *)
(* instance starts with channels, an observer and a client of its own,     *)
(* which has subscribed to nothing yet.  The link stays up.  A status      *)
(* command in flight has no client left to publish with.                   *)
InstanceRestart ==
    /\ drops < MaxDrops
    /\ drops' = drops + 1
    /\ sup' = "connect" /\ ready' = FALSE
    /\ subscribed' = FALSE /\ turned' = Never
    /\ streams' = <<>>
    /\ cache' = {} /\ unseen' = FALSE
    /\ obs' = [at |-> "idle", prev |-> {}, new |-> NoStatus, todo |-> {}]
    /\ pushed' = Never
    /\ ReaderDone
    /\ UNCHANGED <<device, changes, had, link, authed, requests, shown>>

-----------------------------------------------------------------------------
Supervise ==
    \/ Connect \/ WritePassword \/ Subscribe \/ OpenStream
    \/ ResetCache \/ BecomeReady \/ SetupFails \/ Retry
    \/ PollConnected \/ PollFails \/ SeeLinkLost

Answer ==
    PassGate \/ GateTimesOut \/ ReadStatus \/ ReadFails \/ SeedCache \/ Reply

Next ==
    \/ \E z \in Zones : DeviceChanges(z) \/ Request(z)
    \/ LinkDrops
    \/ InstanceRestart
    \/ Supervise
    \/ \E i \in DOMAIN streams : Consume(i)
    \/ Observe
    \/ Report
    \/ Answer

(* Tasks the runtime polls and steps that time alone brings are taken      *)
(* eventually, and an operation on a dead link returns its error.  That a  *)
(* setup eventually succeeds is an assumption on the device: strong        *)
(* fairness, since it may fail any number of times before.                 *)
Fairness ==
    /\ WF_vars(Retry) /\ WF_vars(SeeLinkLost) /\ WF_vars(~link /\ SetupFails)
    /\ WF_vars(ResetCache) /\ WF_vars(BecomeReady)
    /\ SF_vars(Connect) /\ SF_vars(WritePassword)
    /\ SF_vars(Subscribe) /\ SF_vars(OpenStream)
    /\ WF_vars(\E i \in DOMAIN streams : Consume(i))
    /\ WF_vars(Observe) /\ WF_vars(Report)
    /\ WF_vars(Answer)

Spec == Init /\ [][Next]_vars
FairSpec == Spec /\ Fairness

-----------------------------------------------------------------------------
(* All that the device has notified has gone as far as it goes. *)
Drained ==
    /\ ready /\ link
    /\ \A i \in DOMAIN streams : streams[i].queue = <<>>

Quiet == Drained /\ ~unseen /\ obs.at = "idle" /\ reader.at = "idle"

(* Once the notifications are drained, a cache that is filled holds the    *)
(* state of the device: whatever the order of seed, notification, drop and *)
(* reset, no value of before stays.                                        *)
CacheFresh == Drained => \A s \in cache : s = device

(* The observer compares with what it last took from the cache: when it    *)
(* has nothing to look at, its baseline is the cache, None included.       *)
BaselineIsCache ==
    obs.at = "idle" /\ ~unseen =>
        obs.prev = cache

(* Once all is quiet, the last push tells the truth, unless the observer   *)
(* lost its baseline since.                                                *)
PushesAreTrue == Quiet => \A z \in Zones : pushed[z] \subseteq {device[z]}

(* No push repeats the one before: what the observer is about to report of *)
(* a zone is not what it reported last, however many notifications were    *)
(* merged, and however far the report of another zone has come.            *)
NoPushTwice ==
    \A z \in obs.todo : pushed[z] # {obs.new[z]}

(* A command that is let through and finds the cache filled is answered    *)
(* with a state that the device was in since the supervisor connected,     *)
(* late notifications of another stream and late seeds included: never     *)
(* with what an earlier session left.                                      *)
AnswersOfThisSession == ready => cache \subseteq had

(* Commands are let through only to a link whose session is complete       *)
(* (password, subscription, a consumer on its stream) or to a link that is *)
(* gone: never to one that is being set up (architecture.md:35).           *)
ReadyMeansSession ==
    ready /\ link => /\ authed /\ subscribed
                     /\ streams[Len(streams)].live
                     /\ streams[Len(streams)].spawned

(* When the device and the link leave off, the bridge comes to hold their  *)
(* state: a session is up, and the cache, if filled, and the observer      *)
(* agree with the device.                                                  *)
EventuallyConsistent ==
    <>[](/\ ready
         /\ \A s \in cache : s = device
         /\ obs.prev = cache)

-----------------------------------------------------------------------------
(* What the documents of the repository say.                               *)

(* README.md:145, "pushes a status response whenever the device reports a  *)
(* zone-state change": a zone whose change arrived is shown.               *)
EveryChangePushed ==
    Quiet => \A z \in Zones : turned[z] # {} => shown[z] # {}

(* README.md:145 again, "so consumers do not have to poll for it": after a *)
(* push, MQTT shows the state the device is in.                            *)
LastWordIsTrue ==
    Quiet => \A z \in Zones : pushed[z] # {} => shown[z] = {device[z]}
=============================================================================
