-------------------------- MODULE StatusPathProofs ---------------------------
(***************************************************************************)
(* Theorems about the path of the status, for any number of changes, drops *)
(* and requests, and whether or not streams survive their link.            *)
(***************************************************************************)
EXTENDS StatusPath, SequenceTheorems, TLAPS

-----------------------------------------------------------------------------
(* What the actions do to the streams.                                     *)

LEMMA StreamsAre ==
    ASSUME NEW n \in Nat, NEW f, DOMAIN f = 1 .. n, \A i \in 1 .. n : f[i] \in Stream,
           f = [i \in 1 .. n |-> f[i]]
    PROVE  f \in Seq(Stream) /\ Len(f) = n
<1>1. f \in [1 .. n -> Stream]
    OBVIOUS
<1>2. f \in Seq(Stream)
    BY <1>1, SeqDef
<1> QED BY <1>1, <1>2, LenProperties

LEMMA DomainIs == TypeOK => DOMAIN streams = 1 .. Len(streams) /\ Len(streams) \in Nat
BY DEF TypeOK

LEMMA StreamIs ==
    TypeOK => \A i \in 1 .. Len(streams) :
                 /\ streams[i] \in Stream
                 /\ streams[i].queue \in Seq(Status)
                 /\ streams[i].live \in BOOLEAN /\ streams[i].spawned \in BOOLEAN
<1>1. ASSUME TypeOK, NEW i \in 1 .. Len(streams)
      PROVE  streams[i] \in Stream
    BY <1>1, ElementOfSeq DEF TypeOK
<1> QED BY <1>1 DEF Stream

(* A notification goes to the end of the queues that it reaches. *)
LEMMA Notified ==
    ASSUME TypeOK, NEW z \in Zones, DeviceChanges(z)
    PROVE  /\ device' \in Status
           /\ streams' \in Seq(Stream) /\ Len(streams') = Len(streams)
           /\ \A i \in 1 .. Len(streams) :
                /\ streams'[i].live = streams[i].live
                /\ streams'[i].spawned = streams[i].spawned
                /\ streams'[i].queue =
                      IF link /\ subscribed /\ streams[i].live
                      THEN Append(streams[i].queue, device')
                      ELSE streams[i].queue
<1>1. device' \in Status
    BY DEF DeviceChanges, TypeOK, Status
<1>2. /\ DOMAIN streams' = 1 .. Len(streams)
      /\ \A i \in 1 .. Len(streams) : streams'[i] =
            IF link /\ subscribed /\ streams[i].live
            THEN [streams[i] EXCEPT !.queue = Append(@, device')]
            ELSE streams[i]
      /\ streams' = [i \in 1 .. Len(streams) |-> streams'[i]]
    BY DomainIs DEF DeviceChanges
<1>3. ASSUME NEW i \in 1 .. Len(streams)
      PROVE  /\ streams'[i] \in Stream
             /\ streams'[i].live = streams[i].live
             /\ streams'[i].spawned = streams[i].spawned
             /\ streams'[i].queue =
                   IF link /\ subscribed /\ streams[i].live
                   THEN Append(streams[i].queue, device')
                   ELSE streams[i].queue
    <2>1. Append(streams[i].queue, device') \in Seq(Status)
        BY <1>1, StreamIs
    <2> QED BY <1>2, <2>1, StreamIs DEF Stream
<1> HIDE DEF Stream
<1>4. streams' \in Seq(Stream) /\ Len(streams') = Len(streams)
    BY <1>2, <1>3, StreamsAre, DomainIs
<1> QED BY <1>1, <1>3, <1>4

(* A drop ends some streams and touches no queue. *)
LEMMA Dropped ==
    ASSUME TypeOK, LinkDrops
    PROVE  /\ streams' \in Seq(Stream) /\ Len(streams') = Len(streams)
           /\ \A i \in 1 .. Len(streams) :
                /\ streams'[i].spawned = streams[i].spawned
                /\ streams'[i].queue = streams[i].queue
<1>1. /\ DOMAIN streams' = 1 .. Len(streams)
      /\ \A i \in 1 .. Len(streams) : streams'[i] =
            [streams[i] EXCEPT !.live = @ /\ StreamsSurvive]
      /\ streams' = [i \in 1 .. Len(streams) |-> streams'[i]]
    BY DomainIs DEF LinkDrops
<1>2. ASSUME NEW i \in 1 .. Len(streams)
      PROVE  /\ streams'[i] \in Stream
             /\ streams'[i].spawned = streams[i].spawned
             /\ streams'[i].queue = streams[i].queue
    <2>1. (streams[i].live /\ StreamsSurvive) \in BOOLEAN
        OBVIOUS
    <2> QED BY <1>1, <2>1, StreamIs DEF Stream
<1>3. streams' \in Seq(Stream) /\ Len(streams') = Len(streams)
    BY <1>1, <1>2, StreamsAre, DomainIs
<1> QED BY <1>2, <1>3

(* A sequence that is one longer. *)
LEMMA Longer ==
    ASSUME NEW S, NEW s \in Seq(S), NEW t \in Seq(S), Len(t) = Len(s) + 1
    PROVE  /\ t # <<>> /\ DOMAIN t = 1 .. Len(t)
           /\ \A i \in 1 .. Len(t) : i # Len(t) => i \in 1 .. Len(s)
           /\ \A i \in 1 .. Len(s) : i \in 1 .. Len(t) /\ i # Len(t)
OBVIOUS

LEMMA Opened ==
    ASSUME TypeOK, OpenStream
    PROVE  /\ streams' \in Seq(Stream) /\ Len(streams') = Len(streams) + 1
           /\ \A i \in 1 .. Len(streams) : streams'[i] = streams[i]
           /\ streams'[Len(streams) + 1] =
                 [queue |-> <<>>, live |-> link, spawned |-> FALSE]
<1>1. [queue |-> <<>>, live |-> link, spawned |-> FALSE] \in Stream
    BY DEF TypeOK, Stream
<1> QED BY <1>1, AppendProperties DEF OpenStream, TypeOK

LEMMA Spawned ==
    ASSUME TypeOK, BecomeReady, streams # <<>>
    PROVE  /\ streams' \in Seq(Stream) /\ Len(streams') = Len(streams)
           /\ \A i \in 1 .. Len(streams) :
                /\ streams'[i].live = streams[i].live
                /\ streams'[i].spawned = (streams[i].spawned \/ i = Len(streams))
                /\ streams'[i].queue = streams[i].queue
<1> DEFINE n == Len(streams)
           s == [streams[n] EXCEPT !.spawned = TRUE]
<1>1. n \in 1 .. Len(streams)
    BY DEF TypeOK
<1>2. s \in Stream /\ s.live = streams[n].live /\ s.queue = streams[n].queue /\ s.spawned
    BY <1>1, StreamIs DEF Stream
<1>3. streams' = [streams EXCEPT ![n] = s]
    BY DEF BecomeReady
<1> HIDE DEF s
<1>4. /\ streams' \in Seq(Stream) /\ Len(streams') = Len(streams)
      /\ \A i \in 1 .. Len(streams) : streams'[i] = IF i = n THEN s ELSE streams[i]
    BY <1>1, <1>2, <1>3, ExceptSeq DEF TypeOK
<1> QED BY <1>1, <1>2, <1>4, StreamIs

LEMMA Taken ==
    ASSUME TypeOK, NEW i \in DOMAIN streams, Consume(i)
    PROVE  /\ i \in 1 .. Len(streams)
           /\ Head(streams[i].queue) \in Status
           /\ streams' \in Seq(Stream) /\ Len(streams') = Len(streams)
           /\ \A j \in 1 .. Len(streams) :
                /\ streams'[j].live = streams[j].live
                /\ streams'[j].spawned = streams[j].spawned
                /\ streams'[j].queue = IF j = i THEN Tail(streams[i].queue)
                                                ELSE streams[j].queue
<1> DEFINE s == [streams[i] EXCEPT !.queue = Tail(@)]
<1>1. i \in 1 .. Len(streams)
    BY DEF TypeOK
<1>2. /\ Head(streams[i].queue) \in Status
      /\ Tail(streams[i].queue) \in Seq(Status)
    BY <1>1, StreamIs, HeadTailProperties DEF Consume
<1>3. /\ s \in Stream /\ s.live = streams[i].live /\ s.spawned = streams[i].spawned
      /\ s.queue = Tail(streams[i].queue)
    BY <1>1, <1>2, StreamIs DEF Stream
<1>4. streams' = [streams EXCEPT ![i] = s]
    BY DEF Consume
<1> HIDE DEF s
<1>5. /\ streams' \in Seq(Stream) /\ Len(streams') = Len(streams)
      /\ \A j \in 1 .. Len(streams) : streams'[j] = IF j = i THEN s ELSE streams[j]
    BY <1>1, <1>3, <1>4, ExceptSeq DEF TypeOK
<1> QED BY <1>1, <1>2, <1>3, <1>5

-----------------------------------------------------------------------------
(* Types, and the session that the gate stands for.                        *)

(* Every stream has its consumer, except that the stream of the session    *)
(* being set up gets its own last.                                         *)
Consumers ==
    /\ sup \in {"reset", "names", "watch"} => streams # <<>>
    /\ sup \notin {"reset", "names"} =>
         \A i \in 1 .. Len(streams) : streams[i].spawned

(* How far the session has come on a link that is up. *)
Session ==
    /\ ready => sup = "watch"
    /\ link /\ sup \in {"subscribe", "stream", "reset", "names", "watch"} => authed
    /\ link /\ sup \in {"stream", "reset", "names", "watch"} => subscribed
    /\ link /\ sup \in {"reset", "names", "watch"} => streams[Len(streams)].live

LEMMA ThroughOption ==
    /\ \A S : {} \in Option(S)
    /\ \A S : \A x \in S : {x} \in Option(S)
    /\ \A S : \A s \in Option(S) : \A x \in s : x \in S /\ s = {x}
BY DEF Option

LEMMA InitTypeOK == Init => TypeOK /\ Consumers /\ Session
<1>1. ASSUME Init PROVE TypeOK
    <2>1. NoStatus \in Status /\ {} \in Option(Status) /\ {} \in Option(BOOLEAN)
        BY ThroughOption DEF NoStatus, Status
    <2>2. reader \in Reader
        BY <1>1, <2>1 DEF Init, Reader
    <2>3. Never \in [Zones -> SUBSET BOOLEAN] /\ Never \in [Zones -> Option(BOOLEAN)]
        BY <2>1 DEF Never
    <2>4. obs \in Observer
        BY <1>1, <2>1 DEF Init, Observer
    <2>5. streams \in Seq(Stream) /\ DOMAIN streams = {}
        BY <1>1 DEF Init
    <2>6. /\ changes \in 0 .. MaxChanges /\ drops \in 0 .. MaxDrops
          /\ requests \in 0 .. MaxRequests
        BY <1>1, StatusPathAssumption DEF Init
    <2> QED BY <1>1, <2>1, <2>2, <2>3, <2>4, <2>5, <2>6 DEF Init, TypeOK
<1>2. ASSUME Init PROVE Consumers
    <2>1. streams = <<>> /\ Len(streams) = 0 /\ sup = "connect"
        BY <1>2 DEF Init
    <2> QED BY <2>1 DEF Consumers
<1>3. ASSUME Init PROVE Session
    <2>1. ~ready /\ ~link
        BY <1>3 DEF Init
    <2> QED BY <2>1 DEF Session
<1> QED BY <1>1, <1>2, <1>3

(* The streams and their consumers. *)
LEMMA NextConsumers ==
    ASSUME TypeOK, Consumers, [Next]_vars
    PROVE  /\ Consumers'
           /\ streams' \in Seq(Stream)
           /\ \A i \in DOMAIN streams' : streams'[i].spawned \/ i = Len(streams')
<1> DEFINE Goal == /\ Consumers'
                   /\ streams' \in Seq(Stream)
                   /\ \A i \in DOMAIN streams' :
                        streams'[i].spawned \/ i = Len(streams')
<1> SUFFICES Goal
    OBVIOUS
<1>t. /\ streams \in Seq(Stream) /\ DOMAIN streams = 1 .. Len(streams)
      /\ Len(streams) \in Nat
      /\ \A i \in 1 .. Len(streams) : streams[i].spawned \/ i = Len(streams)
    BY DEF TypeOK
<1>e. \A s \in Seq(Stream) : DOMAIN s = 1 .. Len(s) /\ (s # <<>> <=> Len(s) # 0)
    OBVIOUS
<1>1. ASSUME NEW z \in Zones, DeviceChanges(z) PROVE Goal
    <2>1. sup' = sup
        BY <1>1 DEF DeviceChanges, supVars
    <2> QED BY <1>1, <1>t, <1>e, <2>1, Notified DEF Consumers
<1>2. CASE LinkDrops
    <2>1. sup' = sup
        BY <1>2 DEF LinkDrops, supVars
    <2> QED BY <1>2, <1>t, <1>e, <2>1, Dropped DEF Consumers
<1>3. CASE InstanceRestart
    BY <1>3 DEF InstanceRestart, Consumers
<1>4. CASE OpenStream
    <2>1. sup = "stream" /\ sup' = "reset"
        BY <1>4 DEF OpenStream
    <2>2. \A i \in 1 .. Len(streams) : streams[i].spawned
        BY <2>1 DEF Consumers
    <2>o. /\ streams' \in Seq(Stream) /\ Len(streams') = Len(streams) + 1
          /\ \A i \in 1 .. Len(streams) : streams'[i] = streams[i]
        BY <1>4, Opened, Zenon
    <2>d. DOMAIN streams' = 1 .. Len(streams') /\ streams' # <<>>
        BY <1>t, <2>o, Longer
    <2>3. \A i \in DOMAIN streams' : i # Len(streams') => streams'[i].spawned
        <3>1. ASSUME NEW i \in DOMAIN streams', i # Len(streams')
              PROVE  streams'[i].spawned
            <4>1. i \in 1 .. Len(streams) /\ streams'[i] = streams[i]
                BY <1>t, <2>o, <2>d, <3>1, Longer
            <4> QED BY <2>2, <4>1
        <3> QED BY <3>1
    <2>4. streams' \in Seq(Stream) /\ streams' # <<>>
        BY <2>o, <2>d
    <2> QED BY <2>1, <2>3, <2>4 DEF Consumers
<1>5. CASE BecomeReady
    <2>1. sup = "names" /\ sup' = "watch" /\ streams # <<>>
        BY <1>5 DEF BecomeReady, Consumers
    <2> QED BY <1>5, <1>t, <1>e, <2>1, Spawned DEF Consumers
<1>6. ASSUME NEW i \in DOMAIN streams, Consume(i) PROVE Goal
    <2>1. sup' = sup
        BY <1>6 DEF Consume, supVars
    <2> QED BY <1>6, <1>t, <1>e, <2>1, Taken DEF Consumers
<1>7. CASE Connect \/ WritePassword \/ Subscribe \/ ResetCache \/ SetupFails
              \/ Retry \/ PollConnected \/ SeeLinkLost \/ PollFails
    <2>1. /\ streams' = streams
          /\ sup' \in {"reset", "names", "watch"} =>
                sup \in {"reset", "names", "watch"}
          /\ sup' \in {"reset", "names"} <=> sup \in {"reset", "names"}
        BY <1>7 DEF Connect, WritePassword, Subscribe, ResetCache, SetupFails,
           Retry, PollConnected, SeeLinkLost, PollFails, vars, supVars
    <2> QED BY <1>t, <2>1 DEF Consumers
<1>8. CASE (\E z \in Zones : Request(z)) \/ Observe \/ Report \/ Answer \/ UNCHANGED vars
    <2>1. UNCHANGED <<streams, sup>>
        BY <1>8 DEF Request, Observe, Report, Answer, PassGate, GateTimesOut,
           ReadStatus, ReadFails, SeedCache, Reply, vars, supVars
    <2> QED BY <1>t, <2>1 DEF Consumers
<1> QED BY <1>1, <1>2, <1>3, <1>4, <1>5, <1>6, <1>7, <1>8 DEF Next, Supervise

(* The observer and the reader keep their types. *)
LEMMA ObserverType ==
    ASSUME TypeOK, Observe \/ Report
    PROVE  /\ obs' \in Observer
           /\ pushed' \in [Zones -> Option(BOOLEAN)]
           /\ shown' \in [Zones -> Option(BOOLEAN)]
<1>1. /\ obs.at \in {"idle", "report"} /\ obs.prev \in Option(Status)
      /\ obs.new \in Status /\ obs.todo \in SUBSET Zones
      /\ obs = [at |-> obs.at, prev |-> obs.prev, new |-> obs.new, todo |-> obs.todo]
    BY DEF TypeOK, Observer
<1>2. Never \in [Zones -> Option(BOOLEAN)]
    BY ThroughOption DEF Never
<1>3. CASE Observe
    <2>1. ASSUME obs' = [obs EXCEPT !.prev = {}]
          PROVE  obs' \in Observer
        <3>1. {} \in Option(Status)
            BY ThroughOption
        <3> QED BY <1>1, <2>1, <3>1 DEF Observer
    <2>3. /\ pushed' \in [Zones -> Option(BOOLEAN)]
          /\ shown' \in [Zones -> Option(BOOLEAN)]
        BY <1>2, <1>3 DEF Observe, TypeOK
    <2>2. ASSUME NEW new \in cache, TakeNew(new) PROVE obs' \in Observer
        <3>1. new \in Status /\ {new} \in Option(Status)
            BY ThroughOption DEF TypeOK
        <3> DEFINE todo == UNION {Differing(old, new) : old \in obs.prev}
        <3>2. todo \in SUBSET Zones
            BY DEF Differing
        <3>3. obs' = IF todo = {} THEN [obs EXCEPT !.prev = {new}]
                     ELSE [obs EXCEPT !.at = "report", !.new = new, !.todo = todo]
            BY <2>2 DEF TakeNew
        <3> HIDE DEF todo
        <3> QED BY <1>1, <3>1, <3>2, <3>3 DEF Observer
    <2> QED BY <1>3, <2>1, <2>2, <2>3 DEF Observe
<1>4. CASE Report
    <2> DEFINE z == CHOOSE y \in obs.todo : \A x \in obs.todo : y <= x
               v == obs.new[z]
    <2>1. /\ shown' = [shown EXCEPT ![z] = {v}]
          /\ pushed' = [pushed EXCEPT ![z] = {v}]
          /\ obs' = IF obs.todo = {z}
                    THEN [obs EXCEPT !.at = "idle", !.prev = {obs.new},
                                     !.new = NoStatus, !.todo = {}]
                    ELSE [obs EXCEPT !.todo = @ \ {z}]
        BY <1>4 DEF Report
    <2> HIDE DEF z
    <2>2. /\ NoStatus \in Status /\ {obs.new} \in Option(Status)
          /\ obs.todo \ {z} \in SUBSET Zones
        BY <1>1, ThroughOption DEF NoStatus, Status
    <2>3. obs' \in Observer
        BY <1>1, <2>1, <2>2 DEF Observer
    <2>4. z \in Zones => v \in BOOLEAN
        BY <1>1 DEF Status
    <2>5. z \in Zones => {v} \in Option(BOOLEAN)
        BY <2>4, ThroughOption
    <2> HIDE DEF v
    <2> QED BY <2>1, <2>3, <2>5 DEF TypeOK
<1> QED BY <1>3, <1>4

LEMMA ReaderType ==
    ASSUME TypeOK, Answer
    PROVE  /\ reader' \in Reader
           /\ cache' \in Option(Status) /\ unseen' \in BOOLEAN
           /\ shown' \in [Zones -> Option(BOOLEAN)]
<1>1. /\ reader.at \in {"idle", "gate", "read", "seed", "reply"}
      /\ reader.zone \in Zones /\ reader.value \in Status
      /\ reader = [at |-> reader.at, zone |-> reader.zone, value |-> reader.value]
      /\ NoStatus \in Status /\ device \in Status
    BY DEF TypeOK, Reader, NoStatus, Status
<1>2. CASE PassGate
    <2>1. UNCHANGED <<cache, unseen, shown>>
        BY <1>2 DEF PassGate, cacheVars, history
    <2>2. ASSUME NEW s \in cache PROVE s \in Status
        BY <2>2, ThroughOption DEF TypeOK
    <2>3. reader' \in Reader
        BY <1>1, <1>2, <2>2 DEF PassGate, Reader
    <2> QED BY <2>1, <2>3 DEF TypeOK
<1>3. CASE GateTimesOut \/ ReadStatus \/ ReadFails
    BY <1>1, <1>3 DEF GateTimesOut, ReadStatus, ReadFails, ReaderDone, Reader,
       TypeOK, cacheVars, history
<1>4. CASE SeedCache
    <2>1. reader' \in Reader /\ UNCHANGED shown
        BY <1>1, <1>4 DEF SeedCache, Reader, history
    <2>2. {reader.value} \in Option(Status)
        BY <1>1, ThroughOption
    <2> QED BY <1>4, <2>1, <2>2 DEF SeedCache, TypeOK, cacheVars
<1>5. CASE Reply
    <2>1. {reader.value[reader.zone]} \in Option(BOOLEAN)
        BY <1>1, ThroughOption DEF Status
    <2> QED BY <1>1, <1>5, <2>1 DEF Reply, ReaderDone, Reader, TypeOK, cacheVars
<1> QED BY <1>2, <1>3, <1>4, <1>5 DEF Answer

LEMMA NextTypeOK ==
    ASSUME TypeOK, Consumers, [Next]_vars
    PROVE  TypeOK'
<1> DEFINE Scalars ==
             /\ device \in Status /\ changes \in 0 .. MaxChanges
             /\ had \in SUBSET Status
             /\ link \in BOOLEAN /\ drops \in 0 .. MaxDrops
             /\ subscribed \in BOOLEAN /\ authed \in BOOLEAN
             /\ sup \in {"connect", "password", "subscribe", "stream", "reset",
                         "names", "watch", "backoff"}
             /\ ready \in BOOLEAN
             /\ cache \in Option(Status) /\ unseen \in BOOLEAN
             /\ obs \in Observer
             /\ reader \in Reader /\ requests \in 0 .. MaxRequests
             /\ turned \in [Zones -> SUBSET BOOLEAN]
             /\ pushed \in [Zones -> Option(BOOLEAN)]
             /\ shown \in [Zones -> Option(BOOLEAN)]
<1> SUFFICES Scalars'
    BY NextConsumers DEF TypeOK
<1>t. Scalars
    BY DEF TypeOK
<1>n. /\ Never \in [Zones -> SUBSET BOOLEAN] /\ Never \in [Zones -> Option(BOOLEAN)]
      /\ NoStatus \in Status /\ {} \in Option(Status)
    BY ThroughOption DEF Never, NoStatus, Status
<1>r. /\ reader.zone \in Zones
      /\ [reader EXCEPT !.at = "idle", !.value = NoStatus] \in Reader
    BY <1>n DEF TypeOK, Reader
<1>1. ASSUME NEW z \in Zones, DeviceChanges(z) PROVE Scalars'
    <2>1. device' \in Status /\ device'[z] \in BOOLEAN
        BY <1>1, Notified DEF Status
    <2>2. turned' \in [Zones -> SUBSET BOOLEAN]
        BY <1>1, <2>1 DEF DeviceChanges, TypeOK
    <2>3. changes' \in 0 .. MaxChanges
        BY <1>1, StatusPathAssumption DEF DeviceChanges, TypeOK
    <2>4. had' \in SUBSET Status
        BY <1>1, <1>t, <2>1 DEF DeviceChanges
    <2> QED BY <1>1, <1>t, <2>1, <2>2, <2>3, <2>4
         DEF DeviceChanges, linkVars, supVars, cacheVars, readerVars, history
<1>2. ASSUME NEW z \in Zones, Request(z) PROVE Scalars'
    <2>1. reader' \in Reader
        BY <1>2, <1>n DEF Request, Reader
    <2>2. requests' \in 0 .. MaxRequests
        BY <1>2, StatusPathAssumption DEF Request, TypeOK
    <2> QED BY <1>2, <1>t, <2>1, <2>2
         DEF Request, deviceVars, linkVars, supVars, cacheVars, history
<1>3. CASE LinkDrops
    <2>1. drops' \in 0 .. MaxDrops
        BY <1>3, StatusPathAssumption DEF LinkDrops, TypeOK
    <2> QED BY <1>3, <1>t, <2>1
         DEF LinkDrops, deviceVars, supVars, cacheVars, readerVars, history
<1>4. CASE InstanceRestart
    <2>1. drops' \in 0 .. MaxDrops
        BY <1>4, StatusPathAssumption DEF InstanceRestart, TypeOK
    <2>2. obs' \in Observer /\ reader' \in Reader
        BY <1>4, <1>n, <1>r DEF InstanceRestart, ReaderDone, Observer
    <2> QED BY <1>4, <1>t, <1>n, <2>1, <2>2 DEF InstanceRestart
<1>5. CASE Supervise
    <2>0. drops' \in 0 .. MaxDrops
        <3>1. CASE PollFails
            BY <3>1, <1>t, StatusPathAssumption DEF PollFails
        <3>2. CASE ~PollFails
            BY <3>2, <1>5, <1>t DEF Supervise, Connect, WritePassword, Subscribe,
               OpenStream, ResetCache, BecomeReady, SetupFails, Retry,
               PollConnected, SeeLinkLost, linkVars, vars
        <3> QED BY <3>1, <3>2
    <2>1. UNCHANGED <<device, changes, obs, reader, requests, pushed, shown>>
        BY <1>5 DEF Supervise, Connect, WritePassword, Subscribe, OpenStream,
           ResetCache, BecomeReady, SetupFails, Retry, PollConnected,
           SeeLinkLost, PollFails, deviceVars, linkVars, readerVars, history, vars
    <2>2. /\ link' \in BOOLEAN /\ subscribed' \in BOOLEAN /\ authed' \in BOOLEAN
          /\ ready' \in BOOLEAN /\ unseen' \in BOOLEAN
          /\ cache' \in Option(Status)
          /\ had' \in SUBSET Status
          /\ turned' \in [Zones -> SUBSET BOOLEAN]
          /\ sup' \in {"connect", "password", "subscribe", "stream", "reset",
                       "names", "watch", "backoff"}
        BY <1>5, <1>t, <1>n DEF Supervise, Connect, WritePassword, Subscribe,
           OpenStream, ResetCache, BecomeReady, SetupFails, Retry,
           PollConnected, SeeLinkLost, PollFails, deviceVars, linkVars, cacheVars,
           supVars, vars
    <2> QED BY <1>t, <2>0, <2>1, <2>2
<1>6. ASSUME NEW i \in DOMAIN streams, Consume(i) PROVE Scalars'
    <2>1. cache' \in Option(Status) /\ unseen' \in BOOLEAN
        BY <1>6, Taken, ThroughOption DEF Consume
    <2> QED BY <1>6, <1>t, <2>1
         DEF Consume, deviceVars, linkVars, supVars, readerVars, history
<1>7. CASE Observe \/ Report
    <2>1. unseen' \in BOOLEAN
        BY <1>7, <1>t DEF Observe, Report, cacheVars
    <2>2. UNCHANGED <<deviceVars, linkVars, supVars, cache, readerVars>>
        BY <1>7 DEF Observe, Report, cacheVars
    <2> QED BY <1>7, <1>t, <2>1, <2>2, ObserverType
         DEF deviceVars, linkVars, supVars, readerVars
<1>8. CASE Answer
    <2>1. UNCHANGED <<deviceVars, linkVars, supVars, obs, requests, pushed>>
        BY <1>8 DEF Answer, PassGate, GateTimesOut, ReadStatus, ReadFails,
           SeedCache, Reply, history
    <2> QED BY <1>8, <1>t, <2>1, ReaderType DEF deviceVars, linkVars, supVars
<1>9. CASE UNCHANGED vars
    BY <1>9, <1>t DEF vars, deviceVars, linkVars, supVars, cacheVars,
       readerVars, history
<1> QED BY <1>1, <1>2, <1>3, <1>4, <1>5, <1>6, <1>7, <1>8, <1>9 DEF Next

(* The types, for every value of the constants. *)
THEOREM TypeCorrect == Spec => []TypeOK
<1>1. Init => TypeOK /\ Consumers
    BY InitTypeOK
<1>2. (TypeOK /\ Consumers) /\ [Next]_vars => (TypeOK /\ Consumers)'
    BY NextTypeOK, NextConsumers
<1> QED BY <1>1, <1>2, PTL DEF Spec

LEMMA NextSession ==
    ASSUME TypeOK, Consumers, Session, [Next]_vars
    PROVE  Session'
<1>t. /\ Len(streams) \in Nat
      /\ sup \in {"reset", "names", "watch"} => Len(streams) \in 1 .. Len(streams)
    BY DEF TypeOK, Consumers
<1>1. ASSUME NEW z \in Zones, DeviceChanges(z) PROVE Session'
    <2>1. UNCHANGED <<link, subscribed, authed, sup, ready>>
        BY <1>1 DEF DeviceChanges, linkVars, supVars
    <2>2. /\ Len(streams') = Len(streams)
          /\ \A i \in 1 .. Len(streams) : streams'[i].live = streams[i].live
        BY <1>1, Notified
    <2> QED BY <1>t, <2>1, <2>2 DEF Session
<1>2. CASE LinkDrops \/ InstanceRestart
    <2>1. (~link' /\ UNCHANGED supVars) \/ (sup' = "connect" /\ ready' = FALSE)
        BY <1>2 DEF LinkDrops, InstanceRestart
    <2> QED BY <2>1 DEF Session, supVars
<1>3. CASE Connect \/ SetupFails \/ Retry \/ SeeLinkLost \/ PollFails
    <2>1. sup' \in {"connect", "password", "backoff"} /\ ~ready'
        BY <1>3 DEF Connect, SetupFails, Retry, SeeLinkLost, PollFails, Session
    <2> QED BY <2>1 DEF Session
<1>4. CASE WritePassword \/ Subscribe \/ ResetCache
    BY <1>4 DEF WritePassword, Subscribe, ResetCache, Session, linkVars
<1>5. CASE OpenStream
    <2>1. /\ sup = "stream" /\ sup' = "reset"
          /\ UNCHANGED <<link, subscribed, authed, ready>>
        BY <1>5 DEF OpenStream, linkVars
    <2>2. streams'[Len(streams')].live = link
        <3>1. Len(streams') = Len(streams) + 1
            BY <1>5, Opened, Zenon
        <3>2. streams'[Len(streams) + 1] =
                 [queue |-> <<>>, live |-> link, spawned |-> FALSE]
            BY <1>5, Opened, Zenon
        <3> QED BY <3>1, <3>2
    <2> QED BY <2>1, <2>2 DEF Session
<1>6. CASE BecomeReady
    <2>1. /\ sup = "names" /\ sup' = "watch" /\ ready'
          /\ UNCHANGED <<link, subscribed, authed>> /\ streams # <<>>
        BY <1>6 DEF BecomeReady, linkVars, Consumers
    <2>2. /\ Len(streams') = Len(streams)
          /\ \A i \in 1 .. Len(streams) : streams'[i].live = streams[i].live
        BY <1>6, <2>1, Spawned
    <2> QED BY <1>t, <2>1, <2>2 DEF Session
<1>7. ASSUME NEW i \in DOMAIN streams, Consume(i) PROVE Session'
    <2>1. UNCHANGED <<link, subscribed, authed, sup, ready>>
        BY <1>7 DEF Consume, linkVars, supVars
    <2>2. /\ Len(streams') = Len(streams)
          /\ \A j \in 1 .. Len(streams) : streams'[j].live = streams[j].live
        BY <1>7, Taken
    <2> QED BY <1>t, <2>1, <2>2 DEF Session
<1>8. CASE (\E z \in Zones : Request(z)) \/ Observe \/ Report \/ Answer
              \/ PollConnected \/ UNCHANGED vars
    <2>1. UNCHANGED <<link, subscribed, authed, sup, ready, streams>>
        BY <1>8 DEF Request, Observe, Report, Answer, PassGate, GateTimesOut,
           ReadStatus, ReadFails, SeedCache, Reply, PollConnected, vars,
           supVars, linkVars
    <2> QED BY <2>1 DEF Session
<1> QED BY <1>1, <1>2, <1>3, <1>4, <1>5, <1>6, <1>7, <1>8 DEF Next, Supervise

(* Whenever the gate is open and the link is up, the session is complete:  *)
(* password, subscription and consumer, in whatever order links drop,      *)
(* setups fail and instances restart.                                      *)
THEOREM ReadyAlwaysMeansSession == Spec => []ReadyMeansSession
<1>1. Init => TypeOK /\ Consumers /\ Session
    BY InitTypeOK
<1>2. (TypeOK /\ Consumers /\ Session) /\ [Next]_vars
          => (TypeOK /\ Consumers /\ Session)'
    BY NextTypeOK, NextConsumers, NextSession
<1>3. TypeOK /\ Consumers /\ Session => ReadyMeansSession
    <2> SUFFICES ASSUME TypeOK, Consumers, Session, ready, link
                 PROVE  /\ authed /\ subscribed
                        /\ streams[Len(streams)].live
                        /\ streams[Len(streams)].spawned
        BY DEF ReadyMeansSession
    <2>1. sup = "watch"
        BY DEF Session
    <2>2. Len(streams) \in 1 .. Len(streams)
        BY <2>1 DEF Consumers, TypeOK
    <2> QED BY <2>1, <2>2 DEF Session, Consumers
<1> QED BY <1>1, <1>2, <1>3, PTL DEF Spec

-----------------------------------------------------------------------------
(* The cache and the device.                                               *)

Pending == \E i \in 1 .. Len(streams) : streams[i].queue # <<>>

(* While the link is up, a queue ends in the state of the device.          *)
QueuesEndTrue ==
    link => \A i \in 1 .. Len(streams) :
        streams[i].queue # <<>> =>
            /\ subscribed /\ streams[i].live
            /\ streams[i].queue[Len(streams[i].queue)] = device

(* What the device changes is notified. *)
Notifying == subscribed /\ streams # <<>> /\ streams[Len(streams)].live

(* Who reads the device does so in a session, in what is left of one, or   *)
(* in vain.                                                                *)
ReadsInSession ==
    reader.at \in {"read", "seed"} =>
        \/ sup = "watch"
        \/ sup \in {"connect", "backoff"} /\ (link => Notifying)

(* What the cache holds, or the reader brings to an empty one, is true or  *)
(* about to be overtaken.                                                  *)
TrueOrPending ==
    /\ link /\ sup \in {"names", "watch"} =>
         (\A s \in cache : s = device) \/ Pending
    /\ link /\ reader.at = "seed" =>
         reader.value = device \/ cache # {} \/ Pending

Fresh == QueuesEndTrue /\ ReadsInSession /\ TrueOrPending

LEMMA InitFresh == Init => Fresh
<1> SUFFICES ASSUME Init PROVE Fresh
    OBVIOUS
<1>1. ~link /\ reader.at = "idle"
    BY DEF Init
<1> QED BY <1>1 DEF Fresh, QueuesEndTrue, ReadsInSession, TrueOrPending

(* A queue that a notification reaches ends in it; a queue that is taken   *)
(* from ends as before, or in what was taken if that was all.              *)
LEMMA EndOfQueue ==
    ASSUME NEW S, NEW q \in Seq(S)
    PROVE  /\ \A v \in S : /\ Append(q, v) # <<>>
                           /\ Append(q, v)[Len(Append(q, v))] = v
           /\ q # <<>> =>
                /\ Tail(q) = <<>> => Head(q) = q[Len(q)]
                /\ Tail(q) # <<>> => Tail(q)[Len(Tail(q))] = q[Len(q)]
<1>1. \A v \in S : Append(q, v) # <<>> /\ Append(q, v)[Len(Append(q, v))] = v
    BY AppendProperties
<1>2. ASSUME q # <<>>
      PROVE  /\ Tail(q) = <<>> => Head(q) = q[Len(q)]
             /\ Tail(q) # <<>> => Tail(q)[Len(Tail(q))] = q[Len(q)]
    <2>1. /\ Len(q) \in Nat \ {0} /\ Tail(q) \in Seq(S)
          /\ Len(Tail(q)) = Len(q) - 1 /\ Head(q) = q[1]
          /\ \A i \in 1 .. Len(Tail(q)) : Tail(q)[i] = q[i + 1]
        BY <1>2, HeadTailProperties, EmptySeq
    <2>2. CASE Tail(q) = <<>>
        <3>1. Len(q) = 1
            BY <2>1, <2>2, EmptySeq
        <3> QED BY <2>1, <2>2, <3>1
    <2>3. CASE Tail(q) # <<>>
        <3>1. Len(Tail(q)) \in 1 .. Len(Tail(q))
            BY <2>1, <2>3, EmptySeq
        <3> QED BY <2>1, <2>3, <3>1
    <2> QED BY <2>2, <2>3
<1> QED BY <1>1, <1>2

LEMMA ChangeFresh ==
    ASSUME TypeOK, Consumers, Session, Fresh, NEW z \in Zones, DeviceChanges(z)
    PROVE  Fresh'
<1>1. UNCHANGED <<link, subscribed, sup, reader, cache>>
    BY DEF DeviceChanges, linkVars, supVars, readerVars, cacheVars
<1>2. Len(streams') = Len(streams)
    BY Notified
<1>3. ASSUME link, NEW i \in 1 .. Len(streams), streams'[i].queue # <<>>
      PROVE  /\ subscribed /\ streams'[i].live
             /\ streams'[i].queue[Len(streams'[i].queue)] = device'
    <2>1. /\ streams'[i].live = streams[i].live /\ device' \in Status
          /\ streams'[i].queue = IF link /\ subscribed /\ streams[i].live
                                 THEN Append(streams[i].queue, device')
                                 ELSE streams[i].queue
        BY Notified
    <2>2. subscribed /\ streams[i].live
        BY <1>3, <2>1 DEF Fresh, QueuesEndTrue
    <2>3. streams'[i].queue = Append(streams[i].queue, device')
        BY <1>3, <2>1, <2>2
    <2>4. streams[i].queue \in Seq(Status)
        BY StreamIs
    <2> QED BY <2>1, <2>2, <2>3, <2>4, EndOfQueue
<1>4. ASSUME link, sup \in {"names", "watch"} \/ Notifying PROVE Pending'
    <2>0. streams # <<>> /\ subscribed /\ streams[Len(streams)].live
        BY <1>4 DEF Consumers, Session, Notifying
    <2>1. /\ Len(streams) \in 1 .. Len(streams)
          /\ subscribed /\ streams[Len(streams)].live
        BY <2>0 DEF TypeOK
    <2>2. /\ device' \in Status
          /\ streams'[Len(streams)].queue
                = Append(streams[Len(streams)].queue, device')
        BY <1>4, <2>1, Notified
    <2>3. streams[Len(streams)].queue \in Seq(Status)
        BY <2>1, StreamIs
    <2>4. streams'[Len(streams)].queue # <<>>
        BY <2>2, <2>3, EndOfQueue
    <2> QED BY <1>2, <2>1, <2>4 DEF Pending
<1>5. QueuesEndTrue'
    BY <1>1, <1>2, <1>3 DEF QueuesEndTrue
<1>6. ReadsInSession'
    <2>1. Notifying => Notifying'
        <3> SUFFICES ASSUME Notifying PROVE Notifying'
            OBVIOUS
        <3>1. Len(streams) \in 1 .. Len(streams)
            BY DEF Notifying, TypeOK
        <3>2. streams' # <<>>
            BY <1>2, <3>1
        <3>3. streams'[Len(streams)].live = streams[Len(streams)].live
            BY <3>1, Notified
        <3> QED BY <1>1, <1>2, <3>2, <3>3 DEF Notifying
    <2> QED BY <1>1, <2>1 DEF Fresh, ReadsInSession
<1>7. TrueOrPending'
    BY <1>1, <1>4 DEF Fresh, ReadsInSession, TrueOrPending
<1> QED BY <1>5, <1>6, <1>7 DEF Fresh

LEMMA ConsumeFresh ==
    ASSUME TypeOK, Consumers, Session, Fresh, NEW i \in DOMAIN streams, Consume(i)
    PROVE  Fresh'
<1>1. UNCHANGED <<link, subscribed, sup, reader, device>>
    BY DEF Consume, linkVars, supVars, readerVars, deviceVars
<1>2. /\ i \in 1 .. Len(streams) /\ Len(streams') = Len(streams)
      /\ cache' = {Head(streams[i].queue)} /\ streams[i].queue # <<>>
      /\ \A j \in 1 .. Len(streams) :
            /\ streams'[j].live = streams[j].live
            /\ streams'[j].queue = IF j = i THEN Tail(streams[i].queue)
                                            ELSE streams[j].queue
    BY Taken DEF Consume
<1>3. /\ streams[i].queue \in Seq(Status)
      /\ Tail(streams[i].queue) = <<>> =>
            Head(streams[i].queue) = streams[i].queue[Len(streams[i].queue)]
      /\ Tail(streams[i].queue) # <<>> =>
            Tail(streams[i].queue)[Len(Tail(streams[i].queue))]
                = streams[i].queue[Len(streams[i].queue)]
    BY <1>2, StreamIs, EndOfQueue
<1>4. ASSUME link, NEW j \in 1 .. Len(streams), streams'[j].queue # <<>>
      PROVE  /\ subscribed /\ streams'[j].live
             /\ streams'[j].queue[Len(streams'[j].queue)] = device
    <2>1. CASE j = i
        <3>1. streams'[i].queue = Tail(streams[i].queue) /\ streams'[i].live = streams[i].live
            BY <1>2
        <3>2. /\ subscribed /\ streams[i].live
              /\ streams[i].queue[Len(streams[i].queue)] = device
            BY <1>2, <1>4 DEF Fresh, QueuesEndTrue
        <3> QED BY <1>3, <1>4, <2>1, <3>1, <3>2
    <2>2. CASE j # i
        BY <1>2, <1>4, <2>2 DEF Fresh, QueuesEndTrue
    <2> QED BY <2>1, <2>2
<1>5. ASSUME link PROVE (\A s \in cache' : s = device) \/ Pending'
    <2>1. CASE Tail(streams[i].queue) = <<>>
        <3>1. streams[i].queue[Len(streams[i].queue)] = device
            BY <1>2, <1>5 DEF Fresh, QueuesEndTrue
        <3> QED BY <1>2, <1>3, <2>1, <3>1
    <2>2. CASE Tail(streams[i].queue) # <<>>
        BY <1>2, <2>2 DEF Pending
    <2> QED BY <2>1, <2>2
<1>6. QueuesEndTrue'
    BY <1>1, <1>2, <1>4 DEF QueuesEndTrue
<1>7. ReadsInSession'
    <2>1. Notifying => Notifying'
        <3> SUFFICES ASSUME Notifying PROVE Notifying'
            OBVIOUS
        <3>1. Len(streams) \in 1 .. Len(streams)
            BY DEF Notifying, TypeOK
        <3>2. streams' # <<>>
            BY <1>2, <3>1
        <3> QED BY <1>1, <1>2, <3>1, <3>2 DEF Notifying
    <2> QED BY <1>1, <2>1 DEF Fresh, ReadsInSession
<1>8. TrueOrPending'
    BY <1>1, <1>2, <1>5 DEF TrueOrPending
<1> QED BY <1>6, <1>7, <1>8 DEF Fresh

LEMMA AnswerFresh ==
    ASSUME TypeOK, Session, Fresh, Answer
    PROVE  Fresh'
<1>1. UNCHANGED <<device, link, subscribed, sup, ready, streams>>
    BY DEF Answer, PassGate, GateTimesOut, ReadStatus, ReadFails, SeedCache,
       Reply, deviceVars, linkVars, supVars
<1>2. QueuesEndTrue'
    BY <1>1 DEF Fresh, QueuesEndTrue
<1>3. reader = [at |-> reader.at, zone |-> reader.zone, value |-> reader.value]
    BY DEF TypeOK, Reader
<1>4. CASE PassGate
    <2>1. ready /\ reader'.at \in {"read", "reply"} /\ UNCHANGED cache
        BY <1>3, <1>4 DEF PassGate, cacheVars
    <2> QED BY <1>1, <1>2, <2>1
         DEF Session, Fresh, ReadsInSession, TrueOrPending, Pending, Notifying
<1>5. CASE GateTimesOut \/ ReadFails \/ Reply
    <2>1. reader'.at = "idle" /\ UNCHANGED cache
        BY <1>3, <1>5 DEF GateTimesOut, ReadFails, Reply, ReaderDone, cacheVars
    <2> QED BY <1>1, <1>2, <2>1 DEF Fresh, ReadsInSession, TrueOrPending, Pending, Notifying
<1>6. CASE ReadStatus
    <2>1. /\ reader.at = "read" /\ reader'.at = "seed" /\ reader'.value = device
          /\ UNCHANGED cache
        BY <1>3, <1>6 DEF ReadStatus, cacheVars
    <2> QED BY <1>1, <1>2, <2>1 DEF Fresh, ReadsInSession, TrueOrPending, Pending, Notifying
<1>7. CASE SeedCache
    <2>1. /\ reader.at = "seed" /\ reader'.at = "reply"
          /\ cache' = IF cache = {} THEN {reader.value} ELSE cache
        BY <1>3, <1>7 DEF SeedCache, cacheVars
    <2> QED BY <1>1, <1>2, <2>1 DEF Fresh, ReadsInSession, TrueOrPending, Pending, Notifying
<1> QED BY <1>4, <1>5, <1>6, <1>7 DEF Answer

(* The queues stay, whatever the supervisor does. *)
LEMMA SuperviseQueues ==
    ASSUME TypeOK, Consumers, Supervise
    PROVE  /\ \A i \in 1 .. Len(streams') : streams'[i].queue # <<>> =>
                /\ i \in 1 .. Len(streams)
                /\ streams'[i].queue = streams[i].queue
                /\ streams'[i].live = streams[i].live
           /\ Pending => Pending'
<1>1. CASE OpenStream
    <2>1. /\ streams' \in Seq(Stream) /\ streams \in Seq(Stream)
          /\ Len(streams') = Len(streams) + 1
          /\ \A i \in 1 .. Len(streams) : streams'[i] = streams[i]
        BY <1>1, Opened, Zenon DEF TypeOK
    <2>2. streams'[Len(streams')].queue = <<>>
        <3>1. streams'[Len(streams) + 1] =
                 [queue |-> <<>>, live |-> link, spawned |-> FALSE]
            BY <1>1, Opened, Zenon
        <3> QED BY <2>1, <3>1
    <2>3. /\ \A i \in 1 .. Len(streams') : i # Len(streams') => i \in 1 .. Len(streams)
          /\ \A i \in 1 .. Len(streams) : i \in 1 .. Len(streams')
        BY <2>1, Longer
    <2> QED BY <2>1, <2>2, <2>3 DEF Pending
<1>2. CASE BecomeReady
    <2>1. streams # <<>>
        BY <1>2 DEF BecomeReady, Consumers
    <2>2. /\ Len(streams') = Len(streams)
          /\ \A i \in 1 .. Len(streams) :
                /\ streams'[i].live = streams[i].live
                /\ streams'[i].queue = streams[i].queue
        BY <1>2, <2>1, Spawned
    <2> QED BY <2>2 DEF Pending
<1>3. CASE ~OpenStream /\ ~BecomeReady
    <2>1. streams' = streams
        BY <1>3 DEF Supervise, Connect, WritePassword, Subscribe, ResetCache,
           SetupFails, Retry, PollConnected, SeeLinkLost, PollFails, vars
    <2> QED BY <2>1 DEF Pending
<1> QED BY <1>1, <1>2, <1>3

LEMMA SuperviseFresh ==
    ASSUME TypeOK, Consumers, Session, Fresh, Supervise
    PROVE  Fresh'
<1>1. UNCHANGED <<device, reader>>
    BY DEF Supervise, Connect, WritePassword, Subscribe, OpenStream, ResetCache,
       BecomeReady, SetupFails, Retry, PollConnected, SeeLinkLost, PollFails, vars,
       deviceVars, readerVars
<1>2. CASE Connect
    <2>1. /\ streams' = streams /\ DOMAIN streams = 1 .. Len(streams)
          /\ \A i \in DOMAIN streams : streams[i].queue = <<>>
          /\ reader.at \notin {"read", "seed"} /\ sup' = "password"
        BY <1>2, DomainIs DEF Connect, Settled
    <2> QED BY <1>1, <2>1 DEF Fresh, QueuesEndTrue, ReadsInSession, TrueOrPending
<1>3. CASE ~Connect
    <2>1. link' = link /\ (subscribed => subscribed')
        BY <1>3 DEF Supervise, WritePassword, Subscribe, OpenStream, ResetCache,
           BecomeReady, SetupFails, Retry, PollConnected, SeeLinkLost, PollFails, vars, linkVars
    <2>2. QueuesEndTrue'
        BY <1>1, <2>1, SuperviseQueues DEF Fresh, QueuesEndTrue
    <2>3. ReadsInSession'
        <3>1. CASE PollFails
            <4>1. /\ sup = "watch" /\ link /\ sup' = "connect"
                  /\ UNCHANGED <<subscribed, streams>>
                BY <3>1 DEF PollFails
            <4>2. Notifying
                BY <4>1 DEF Session, Consumers, Notifying
            <4> QED BY <1>1, <4>1, <4>2 DEF ReadsInSession, Notifying
        <3>2. CASE SetupFails \/ Retry
            <4>1. /\ sup' \in {"connect", "backoff"} /\ sup # "watch"
                  /\ UNCHANGED <<link, subscribed, streams>>
                BY <3>2 DEF SetupFails, Retry, linkVars
            <4> QED BY <1>1, <4>1 DEF Fresh, ReadsInSession, Notifying
        <3>3. CASE ~PollFails /\ ~SetupFails /\ ~Retry
            BY <1>1, <1>3, <2>1, <3>3 DEF Supervise, WritePassword, Subscribe,
               OpenStream, ResetCache, BecomeReady, PollConnected, SeeLinkLost,
               Fresh, ReadsInSession, Notifying, vars, supVars, linkVars
        <3> QED BY <3>1, <3>2, <3>3
    <2>4. CASE ResetCache
        <3>1. sup = "reset" /\ cache' = {}
            BY <2>4 DEF ResetCache
        <3> QED BY <1>1, <2>2, <2>3, <3>1
             DEF Fresh, ReadsInSession, TrueOrPending
    <2>5. CASE ~ResetCache
        <3>1. /\ cache' = cache
              /\ sup' \in {"names", "watch"} => sup \in {"names", "watch"}
            BY <1>3, <2>5 DEF Supervise, WritePassword, Subscribe, OpenStream,
               BecomeReady, SetupFails, Retry, PollConnected, SeeLinkLost, PollFails, vars,
               supVars, cacheVars
        <3> QED BY <1>1, <2>1, <2>2, <2>3, <3>1, SuperviseQueues
             DEF Fresh, TrueOrPending
    <2> QED BY <2>4, <2>5
<1> QED BY <1>2, <1>3

LEMMA NextFresh ==
    ASSUME TypeOK, Consumers, Session, Fresh, [Next]_vars
    PROVE  Fresh'
<1>1. CASE LinkDrops
    <2>1. ~link' /\ UNCHANGED <<sup, reader>>
        BY <1>1 DEF LinkDrops, supVars, readerVars
    <2>2. sup \in {"connect", "backoff"} \/ sup = "watch" \/ reader.at \notin {"read", "seed"}
        BY DEF Fresh, ReadsInSession
    <2> QED BY <2>1, <2>2 DEF Fresh, QueuesEndTrue, ReadsInSession, TrueOrPending
<1>2. CASE InstanceRestart
    <2>1. streams' = <<>> /\ sup' = "connect" /\ reader'.at = "idle"
        BY <1>2 DEF InstanceRestart, ReaderDone, TypeOK, Reader
    <2> QED BY <2>1 DEF Fresh, QueuesEndTrue, ReadsInSession, TrueOrPending
<1>3. CASE Observe \/ Report \/ (\E z \in Zones : Request(z)) \/ UNCHANGED vars
    <2>1. UNCHANGED <<device, link, subscribed, sup, streams, cache>>
        BY <1>3 DEF Observe, Report, Request, vars, deviceVars, linkVars,
           supVars, cacheVars
    <2>2. reader' = reader \/ reader'.at = "gate"
        BY <1>3 DEF Observe, Report, Request, vars, readerVars
    <2> QED BY <2>1, <2>2
         DEF Fresh, QueuesEndTrue, ReadsInSession, TrueOrPending, Pending, Notifying
<1> QED BY <1>1, <1>2, <1>3, ChangeFresh, ConsumeFresh, AnswerFresh, SuperviseFresh DEF Next

(* Whatever the order of notifications, reads, drops, setups and restarts, *)
(* no value of a session before stays in the cache.                        *)
THEOREM CacheAlwaysFresh == Spec => []CacheFresh
<1>1. Init => TypeOK /\ Consumers /\ Session /\ Fresh
    BY InitTypeOK, InitFresh
<1>2. (TypeOK /\ Consumers /\ Session /\ Fresh) /\ [Next]_vars
          => (TypeOK /\ Consumers /\ Session /\ Fresh)'
    BY NextTypeOK, NextConsumers, NextSession, NextFresh
<1>3. TypeOK /\ Session /\ Fresh => CacheFresh
    <2> SUFFICES ASSUME TypeOK, Session, Fresh, Drained
                 PROVE  \A s \in cache : s = device
        BY DEF CacheFresh
    <2>1. link /\ sup = "watch" /\ ~Pending
        BY DomainIs DEF Drained, Session, Pending
    <2> QED BY <2>1 DEF Fresh, TrueOrPending
<1> QED BY <1>1, <1>2, <1>3, PTL DEF Spec

-----------------------------------------------------------------------------
(* The observer's baseline.                                                *)

(* What the observer took last is what the cache holds, unless it has been *)
(* sent to since; what was pushed is the baseline, or for a zone already   *)
(* reported the value that is about to become it.                          *)
Baseline ==
    /\ obs.at = "idle" /\ ~unseen => obs.prev = cache
    /\ obs.at = "report" => /\ obs.prev # {} /\ obs.todo # {}
                            /\ ~unseen => cache = {obs.new}
    /\ \A z \in Zones : pushed[z] # {} => obs.prev # {}
    /\ \A p \in obs.prev : \A z \in Zones :
         pushed[z] \subseteq {IF obs.at = "idle" \/ z \in obs.todo THEN p[z]
                             ELSE obs.new[z]}

LEMMA InitBaseline == Init => Baseline
<1> SUFFICES ASSUME Init PROVE Baseline
    OBVIOUS
<1>1. /\ obs.at = "idle" /\ obs.prev = {} /\ cache = {}
      /\ \A z \in Zones : pushed[z] = {}
    BY DEF Init, Never
<1> QED BY <1>1 DEF Baseline

LEMMA ObserverIs ==
    TypeOK => /\ obs = [at |-> obs.at, prev |-> obs.prev, new |-> obs.new,
                        todo |-> obs.todo]
              /\ obs.at \in {"idle", "report"}
              /\ obs.prev \in Option(Status)
              /\ obs.new \in Status /\ obs.todo \in SUBSET Zones
BY DEF TypeOK, Observer

LEMMA ObserveBaseline ==
    ASSUME TypeOK, Baseline, Observe
    PROVE  Baseline'
<1>1. obs.at = "idle" /\ ~unseen' /\ cache' = cache
    BY DEF Observe
<1>2. CASE cache = {} /\ obs' = [obs EXCEPT !.prev = {}] /\ pushed' = Never
    <2>1. obs'.at = "idle" /\ obs'.prev = {} /\ \A z \in Zones : pushed'[z] = {}
        BY <1>1, <1>2, ObserverIs DEF Never
    <2> QED BY <1>1, <1>2, <2>1 DEF Baseline
<1>3. ASSUME NEW new \in cache, TakeNew(new), UNCHANGED pushed
      PROVE  Baseline'
    <2> DEFINE todo == UNION {Differing(old, new) : old \in obs.prev}
    <2>1. new \in Status /\ cache = {new}
        BY ThroughOption DEF TypeOK
    <2>2. obs' = IF todo = {} THEN [obs EXCEPT !.prev = {new}]
                 ELSE [obs EXCEPT !.at = "report", !.new = new, !.todo = todo]
        BY <1>3 DEF TakeNew
    <2>3. \A p \in obs.prev : obs.prev = {p} /\ p \in Status
        BY ObserverIs, ThroughOption
    <2>4. \A p \in obs.prev : \A z \in Zones : z \in todo <=> p[z] # new[z]
        BY <2>3 DEF Differing
    <2>5. \A z \in Zones : pushed[z] # {} => obs.prev # {}
        BY DEF Baseline
    <2>6. \A p \in obs.prev : \A z \in Zones : pushed[z] \subseteq {p[z]}
        BY <1>1 DEF Baseline
    <2>7. todo # {} => obs.prev # {}
        OBVIOUS
    <2> HIDE DEF todo
    <2>8. CASE todo = {}
        <3>1. obs'.at = "idle" /\ obs'.prev = {new}
            BY <1>1, <2>2, <2>8, ObserverIs
        <3>2. \A z \in Zones : pushed[z] \subseteq {new[z]}
            BY <2>4, <2>5, <2>6, <2>8
        <3> QED BY <1>1, <1>3, <2>1, <3>1, <3>2 DEF Baseline
    <2>9. CASE todo # {}
        <3>1. /\ obs'.at = "report" /\ obs'.prev = obs.prev
              /\ obs'.new = new /\ obs'.todo = todo
            BY <2>2, <2>9, ObserverIs
        <3>2. \A p \in obs.prev : \A z \in Zones :
                 pushed[z] \subseteq {IF z \in todo THEN p[z] ELSE new[z]}
            BY <2>4, <2>6
        <3> QED BY <1>1, <1>3, <2>1, <2>5, <2>7, <2>9, <3>1, <3>2 DEF Baseline
    <2> QED BY <2>8, <2>9
<1> QED BY <1>2, <1>3 DEF Observe

LEMMA ReportBaseline ==
    ASSUME TypeOK, Baseline, Report
    PROVE  Baseline'
<1> DEFINE z == CHOOSE y \in obs.todo : \A x \in obs.todo : y <= x
           v == obs.new[z]
<1>1. /\ obs.at = "report" /\ UNCHANGED cacheVars
      /\ pushed' = [pushed EXCEPT ![z] = {v}]
      /\ obs' = IF obs.todo = {z}
                THEN [obs EXCEPT !.at = "idle", !.prev = {obs.new},
                                 !.new = NoStatus, !.todo = {}]
                ELSE [obs EXCEPT !.todo = @ \ {z}]
    BY DEF Report
<1>2. z \in obs.todo /\ z \in Zones
    <2>1. obs.todo # {} /\ obs.todo \subseteq {1, 2}
        BY <1>1, ObserverIs, StatusPathAssumption DEF Baseline
    <2>2. \E y \in obs.todo : \A x \in obs.todo : y <= x
        BY <2>1
    <2> QED BY <2>2, ObserverIs
<1> HIDE DEF z
<1>3. \A y \in Zones : pushed'[y] = IF y = z THEN {v} ELSE pushed[y]
    BY <1>1, <1>2 DEF TypeOK
<1>4. CASE obs.todo = {z}
    <2>1. obs'.at = "idle" /\ obs'.prev = {obs.new}
        BY <1>1, <1>4, ObserverIs
    <2>2. \A y \in Zones : pushed'[y] \subseteq {obs.new[y]}
        BY <1>1, <1>3, <1>4 DEF Baseline
    <2> QED BY <1>1, <2>1, <2>2 DEF Baseline, cacheVars
<1>5. CASE obs.todo # {z}
    <2>1. /\ obs'.at = "report" /\ obs'.prev = obs.prev /\ obs'.new = obs.new
          /\ obs'.todo = obs.todo \ {z} /\ obs'.todo # {}
        BY <1>1, <1>2, <1>5, ObserverIs
    <2>2. \A p \in obs.prev : \A y \in Zones :
             pushed'[y] \subseteq {IF y \in obs'.todo THEN p[y] ELSE obs.new[y]}
        BY <1>1, <1>3, <2>1 DEF Baseline
    <2> QED BY <1>1, <2>1, <2>2 DEF Baseline, cacheVars
<1> QED BY <1>4, <1>5

LEMMA NextBaseline ==
    ASSUME TypeOK, Baseline, [Next]_vars
    PROVE  Baseline'
<1>1. CASE InstanceRestart
    <2>1. /\ obs'.at = "idle" /\ obs'.prev = {} /\ cache' = {}
          /\ \A z \in Zones : pushed'[z] = {}
        BY <1>1 DEF InstanceRestart, Never
    <2> QED BY <2>1 DEF Baseline
<1>2. CASE ~InstanceRestart /\ ~Observe /\ ~Report
    <2>1. UNCHANGED <<obs, pushed>>
        BY <1>2 DEF Next, DeviceChanges, Request, LinkDrops, Supervise, Connect,
           WritePassword, Subscribe, OpenStream, ResetCache, BecomeReady,
           SetupFails, Retry, PollConnected, SeeLinkLost, PollFails, Consume, Answer,
           PassGate, GateTimesOut, ReadStatus, ReadFails, SeedCache, Reply,
           vars, history
    <2>2. unseen' \/ UNCHANGED cacheVars
        BY <1>2 DEF Next, DeviceChanges, Request, LinkDrops, Supervise, Connect,
           WritePassword, Subscribe, OpenStream, ResetCache, BecomeReady,
           SetupFails, Retry, PollConnected, SeeLinkLost, PollFails, Consume, Answer,
           PassGate, GateTimesOut, ReadStatus, ReadFails, SeedCache, Reply,
           vars
    <2> QED BY <2>1, <2>2 DEF Baseline, cacheVars
<1> QED BY <1>1, <1>2, ObserveBaseline, ReportBaseline

(* The observer's baseline is the cache whenever it has nothing to look    *)
(* at.                                                                     *)
THEOREM BaselineIsAlwaysCache == Spec => []BaselineIsCache
<1>1. Init => TypeOK /\ Consumers /\ Baseline
    BY InitTypeOK, InitBaseline
<1>2. (TypeOK /\ Consumers /\ Baseline) /\ [Next]_vars
          => (TypeOK /\ Consumers /\ Baseline)'
    BY NextTypeOK, NextConsumers, NextBaseline
<1>3. Baseline => BaselineIsCache
    BY DEF Baseline, BaselineIsCache
<1> QED BY <1>1, <1>2, <1>3, PTL DEF Spec

(* When all is quiet, what was pushed last for a zone since the observer   *)
(* has a baseline is what the device does: the cache is true, the baseline *)
(* is the cache, and the pushes are the baseline.                          *)
THEOREM PushesAreAlwaysTrue == Spec => []PushesAreTrue
<1>1. Init => TypeOK /\ Consumers /\ Session /\ Fresh /\ Baseline
    BY InitTypeOK, InitFresh, InitBaseline
<1>2. (TypeOK /\ Consumers /\ Session /\ Fresh /\ Baseline) /\ [Next]_vars
          => (TypeOK /\ Consumers /\ Session /\ Fresh /\ Baseline)'
    BY NextTypeOK, NextConsumers, NextSession, NextFresh, NextBaseline
<1>3. TypeOK /\ Session /\ Fresh /\ Baseline => PushesAreTrue
    <2> SUFFICES ASSUME TypeOK, Session, Fresh, Baseline, Quiet, NEW z \in Zones
                 PROVE  pushed[z] \subseteq {device[z]}
        BY DEF PushesAreTrue
    <2>1. link /\ sup = "watch" /\ ~Pending
        BY DomainIs DEF Quiet, Drained, Session, Pending
    <2>2. \A p \in obs.prev : p = device
        BY <2>1 DEF Fresh, TrueOrPending, Baseline, Quiet
    <2> QED BY <2>2 DEF Baseline, Quiet
<1> QED BY <1>1, <1>2, <1>3, PTL DEF Spec

-----------------------------------------------------------------------------
(* Whose state a command is answered with.                                 *)

(* What the device was in since the supervisor connected is all there is   *)
(* in the queues, in a read that may still seed the cache, and, once the   *)
(* cache was reset, in the cache.                                          *)
OfThisSession ==
    /\ device \in had
    /\ \A i \in 1 .. Len(streams) : streams[i].queue \in Seq(had)
    /\ reader.at = "seed" => reader.value \in had
    /\ sup \in {"names", "watch"} => cache \subseteq had

LEMMA InitOfThisSession == Init => OfThisSession
<1> SUFFICES ASSUME Init PROVE OfThisSession
    OBVIOUS
<1>1. /\ had = {device} /\ Len(streams) = 0 /\ reader.at = "idle"
      /\ sup = "connect"
    BY DEF Init
<1> QED BY <1>1 DEF OfThisSession

LEMMA QueueGrows ==
    ASSUME NEW S, NEW T, S \subseteq T, NEW q \in Seq(S)
    PROVE  q \in Seq(T) /\ \A v \in T : Append(q, v) \in Seq(T)
<1>1. q \in Seq(T)
    OBVIOUS
<1> QED BY <1>1

LEMMA ChangeOfThisSession ==
    ASSUME TypeOK, OfThisSession, NEW z \in Zones, DeviceChanges(z)
    PROVE  OfThisSession'
<1>1. had' = had \cup {device'} /\ UNCHANGED <<sup, reader, cache>>
    BY DEF DeviceChanges, supVars, readerVars, cacheVars
<1>2. had \subseteq had' /\ device' \in had'
    BY <1>1
<1>3. ASSUME NEW i \in 1 .. Len(streams')
      PROVE  streams'[i].queue \in Seq(had')
    <2>1. i \in 1 .. Len(streams)
        BY <1>3, Notified
    <2>2. \/ streams'[i].queue = Append(streams[i].queue, device')
          \/ streams'[i].queue = streams[i].queue
        BY <2>1, Notified
    <2>3. streams[i].queue \in Seq(had)
        BY <2>1 DEF OfThisSession
    <2>4. /\ streams[i].queue \in Seq(had')
          /\ Append(streams[i].queue, device') \in Seq(had')
        BY <1>2, <2>3, QueueGrows
    <2> QED BY <2>2, <2>4
<1> QED BY <1>1, <1>2, <1>3 DEF OfThisSession

LEMMA ConsumeOfThisSession ==
    ASSUME TypeOK, OfThisSession, NEW i \in DOMAIN streams, Consume(i)
    PROVE  OfThisSession'
<1>1. UNCHANGED <<device, had, sup, reader>>
    BY DEF Consume, deviceVars, supVars, readerVars
<1>2. /\ i \in 1 .. Len(streams) /\ Len(streams') = Len(streams)
      /\ cache' = {Head(streams[i].queue)} /\ streams[i].queue # <<>>
      /\ \A j \in 1 .. Len(streams) :
            streams'[j].queue = IF j = i THEN Tail(streams[i].queue)
                                         ELSE streams[j].queue
    BY Taken DEF Consume
<1>3. streams[i].queue \in Seq(had)
    BY <1>2 DEF OfThisSession
<1>4. Head(streams[i].queue) \in had /\ Tail(streams[i].queue) \in Seq(had)
    BY <1>2, <1>3, HeadTailProperties
<1>5. \A j \in 1 .. Len(streams') : streams'[j].queue \in Seq(had')
    BY <1>1, <1>2, <1>4 DEF OfThisSession
<1> QED BY <1>1, <1>2, <1>4, <1>5 DEF OfThisSession

LEMMA AnswerOfThisSession ==
    ASSUME TypeOK, OfThisSession, Answer
    PROVE  OfThisSession'
<1>1. UNCHANGED <<device, had, sup, streams>>
    BY DEF Answer, PassGate, GateTimesOut, ReadStatus, ReadFails, SeedCache,
       Reply, deviceVars, supVars
<1>2. reader = [at |-> reader.at, zone |-> reader.zone, value |-> reader.value]
    BY DEF TypeOK, Reader
<1>3. CASE ReadStatus
    <2>1. reader'.value = device /\ UNCHANGED cache
        BY <1>2, <1>3 DEF ReadStatus, cacheVars
    <2> QED BY <1>1, <2>1 DEF OfThisSession
<1>4. CASE SeedCache
    <2>1. /\ reader.at = "seed" /\ reader'.at = "reply"
          /\ cache' = {reader.value} \/ cache' = cache
        BY <1>2, <1>4 DEF SeedCache, cacheVars
    <2> QED BY <1>1, <2>1 DEF OfThisSession
<1>5. CASE PassGate \/ GateTimesOut \/ ReadFails \/ Reply
    <2>1. reader'.at # "seed" /\ UNCHANGED cache
        BY <1>2, <1>5 DEF PassGate, GateTimesOut, ReadFails, Reply,
           ReaderDone, cacheVars
    <2> QED BY <1>1, <2>1 DEF OfThisSession
<1> QED BY <1>3, <1>4, <1>5 DEF Answer

(* Nothing of before the connect is on its way: what the ten seconds of    *)
(* scanning wait for.                                                      *)
LEMMA ConnectOfThisSession ==
    ASSUME TypeOK, OfThisSession, Connect
    PROVE  OfThisSession'
<1>1. /\ UNCHANGED <<device, streams, reader>> /\ had' = {device}
      /\ sup' = "password" /\ Settled
    BY DEF Connect, readerVars
<1>2. reader.at # "seed"
    BY <1>1 DEF Settled
<1>3. \A i \in 1 .. Len(streams') : streams'[i].queue \in Seq(had')
    <2>1. \A i \in 1 .. Len(streams) : streams[i].queue = <<>>
        BY <1>1, DomainIs DEF Settled
    <2>2. <<>> \in Seq(had')
        OBVIOUS
    <2> QED BY <1>1, <2>1, <2>2
<1>4. device' \in had' /\ reader'.at # "seed" /\ sup' \notin {"names", "watch"}
    BY <1>1, <1>2
<1> QED BY <1>3, <1>4 DEF OfThisSession

LEMMA SuperviseOfThisSession ==
    ASSUME TypeOK, Consumers, OfThisSession, Supervise, ~Connect
    PROVE  OfThisSession'
<1>1. UNCHANGED <<device, had, reader>>
    BY DEF Supervise, WritePassword, Subscribe, OpenStream, ResetCache,
       BecomeReady, SetupFails, Retry, PollConnected, SeeLinkLost, PollFails, vars,
       deviceVars, readerVars
<1>2. ASSUME NEW i \in 1 .. Len(streams')
      PROVE  streams'[i].queue \in Seq(had)
    <2>1. CASE streams'[i].queue = <<>>
        BY <2>1
    <2>2. CASE streams'[i].queue # <<>>
        BY <1>2, <2>2, SuperviseQueues DEF OfThisSession
    <2> QED BY <2>1, <2>2
<1>3. \/ cache' = {}
      \/ /\ cache' = cache
         /\ sup' \in {"names", "watch"} => sup \in {"names", "watch"}
    BY DEF Supervise, WritePassword, Subscribe, OpenStream, ResetCache,
       BecomeReady, SetupFails, Retry, PollConnected, SeeLinkLost, PollFails, vars,
       supVars, cacheVars
<1> QED BY <1>1, <1>2, <1>3 DEF OfThisSession

LEMMA NextOfThisSession ==
    ASSUME TypeOK, Consumers, OfThisSession, [Next]_vars
    PROVE  OfThisSession'
<1>1. CASE LinkDrops
    <2>1. UNCHANGED <<device, had, sup, reader, cache>>
        BY <1>1 DEF LinkDrops, deviceVars, supVars, readerVars, cacheVars
    <2>2. \A i \in 1 .. Len(streams') : streams'[i].queue \in Seq(had)
        BY <1>1, Dropped DEF OfThisSession
    <2> QED BY <2>1, <2>2 DEF OfThisSession
<1>2. CASE InstanceRestart
    <2>1. /\ UNCHANGED <<device, had>> /\ Len(streams') = 0
          /\ sup' = "connect" /\ reader'.at = "idle"
        BY <1>2 DEF InstanceRestart, ReaderDone, TypeOK, Reader
    <2> QED BY <2>1 DEF OfThisSession
<1>3. CASE Observe \/ Report \/ (\E z \in Zones : Request(z)) \/ UNCHANGED vars
    <2>1. UNCHANGED <<device, had, sup, streams, cache>>
        BY <1>3 DEF Observe, Report, Request, vars, deviceVars, supVars, cacheVars
    <2>2. reader' = reader \/ reader'.at = "gate"
        BY <1>3 DEF Observe, Report, Request, vars, readerVars
    <2> QED BY <2>1, <2>2 DEF OfThisSession
<1> QED BY <1>1, <1>2, <1>3, ChangeOfThisSession, ConsumeOfThisSession,
      AnswerOfThisSession, ConnectOfThisSession, SuperviseOfThisSession DEF Next

(* A command that finds the cache filled is answered with a state that the *)
(* device was in since the supervisor connected, in whatever order links   *)
(* drop, setups fail, notifications wait and reads come late.              *)
THEOREM AnswersAreOfThisSession == Spec => []AnswersOfThisSession
<1>1. Init => TypeOK /\ Consumers /\ Session /\ OfThisSession
    BY InitTypeOK, InitOfThisSession
<1>2. (TypeOK /\ Consumers /\ Session /\ OfThisSession) /\ [Next]_vars
          => (TypeOK /\ Consumers /\ Session /\ OfThisSession)'
    BY NextTypeOK, NextConsumers, NextSession, NextOfThisSession
<1>3. Session /\ OfThisSession => AnswersOfThisSession
    BY DEF Session, OfThisSession, AnswersOfThisSession
<1> QED BY <1>1, <1>2, <1>3, PTL DEF Spec

-----------------------------------------------------------------------------
(* What the observer is about to report.                                   *)

(* What remains to report differs from the baseline. *)
ReportsChange ==
    /\ obs.at = "idle" => obs.todo = {}
    /\ \A p \in obs.prev : \A z \in obs.todo : p[z] # obs.new[z]

LEMMA ObserveReportsChange ==
    ASSUME TypeOK, ReportsChange, Observe
    PROVE  ReportsChange'
<1>1. obs.at = "idle" /\ obs.todo = {}
    BY DEF Observe, ReportsChange
<1>2. CASE obs' = [obs EXCEPT !.prev = {}]
    BY <1>1, <1>2, ObserverIs DEF ReportsChange
<1>3. ASSUME NEW new \in cache, TakeNew(new)
      PROVE  ReportsChange'
    <2> DEFINE todo == UNION {Differing(old, new) : old \in obs.prev}
    <2>1. obs' = IF todo = {} THEN [obs EXCEPT !.prev = {new}]
                 ELSE [obs EXCEPT !.at = "report", !.new = new, !.todo = todo]
        BY <1>3 DEF TakeNew
    <2>2. \A p \in obs.prev : obs.prev = {p}
        BY ObserverIs, ThroughOption
    <2>3. \A p \in obs.prev : \A z \in todo : p[z] # new[z]
        BY <2>2 DEF Differing
    <2> HIDE DEF todo
    <2>4. CASE todo = {}
        <3>1. obs'.at = "idle" /\ obs'.todo = {}
            BY <1>1, <2>1, <2>4, ObserverIs
        <3> QED BY <3>1 DEF ReportsChange
    <2>5. CASE todo # {}
        <3>1. /\ obs'.at = "report" /\ obs'.prev = obs.prev
              /\ obs'.new = new /\ obs'.todo = todo
            BY <2>1, <2>5, ObserverIs
        <3> QED BY <2>3, <3>1 DEF ReportsChange
    <2> QED BY <2>4, <2>5
<1> QED BY <1>2, <1>3 DEF Observe

LEMMA ReportReportsChange ==
    ASSUME TypeOK, ReportsChange, Report
    PROVE  ReportsChange'
<1>1. \/ obs' = [obs EXCEPT !.at = "idle", !.prev = {obs.new},
                            !.new = NoStatus, !.todo = {}]
      \/ \E z : obs' = [obs EXCEPT !.todo = @ \ {z}]
    BY DEF Report
<1>2. CASE obs' = [obs EXCEPT !.at = "idle", !.prev = {obs.new},
                              !.new = NoStatus, !.todo = {}]
    <2>1. obs'.todo = {}
        BY <1>2, ObserverIs
    <2> QED BY <2>1 DEF ReportsChange
<1>3. ASSUME NEW z, obs' = [obs EXCEPT !.todo = @ \ {z}]
      PROVE  ReportsChange'
    <2>1. /\ obs'.at = obs.at /\ obs'.prev = obs.prev /\ obs'.new = obs.new
          /\ obs'.todo = obs.todo \ {z}
        BY <1>3, ObserverIs
    <2>2. obs'.at = "report"
        BY <2>1 DEF Report
    <2> QED BY <2>1, <2>2 DEF ReportsChange
<1> QED BY <1>1, <1>2, <1>3

LEMMA NextReportsChange ==
    ASSUME TypeOK, ReportsChange, [Next]_vars
    PROVE  ReportsChange'
<1>1. CASE InstanceRestart
    <2>1. obs'.todo = {}
        BY <1>1 DEF InstanceRestart
    <2> QED BY <2>1 DEF ReportsChange
<1>2. CASE ~InstanceRestart /\ ~Observe /\ ~Report
    <2>1. UNCHANGED obs
        BY <1>2 DEF Next, DeviceChanges, Request, LinkDrops, Supervise, Connect,
           WritePassword, Subscribe, OpenStream, ResetCache, BecomeReady,
           SetupFails, Retry, PollConnected, SeeLinkLost, PollFails, Consume, Answer,
           PassGate, GateTimesOut, ReadStatus, ReadFails, SeedCache, Reply, vars
    <2> QED BY <2>1 DEF ReportsChange
<1> QED BY <1>1, <1>2, ObserveReportsChange, ReportReportsChange

(* The observer never repeats itself: what was pushed last for a zone it   *)
(* is about to report is the baseline, from which the report differs.      *)
THEOREM NeverPushedTwice == Spec => []NoPushTwice
<1>1. Init => TypeOK /\ Consumers /\ Baseline /\ ReportsChange
    <2>1. Init => ReportsChange
        BY DEF Init, ReportsChange
    <2> QED BY <2>1, InitTypeOK, InitBaseline
<1>2. (TypeOK /\ Consumers /\ Baseline /\ ReportsChange) /\ [Next]_vars
          => (TypeOK /\ Consumers /\ Baseline /\ ReportsChange)'
    BY NextTypeOK, NextConsumers, NextBaseline, NextReportsChange
<1>3. TypeOK /\ Baseline /\ ReportsChange => NoPushTwice
    <2> SUFFICES ASSUME TypeOK, Baseline, ReportsChange, NEW z \in obs.todo
                 PROVE  pushed[z] # {obs.new[z]}
        BY DEF NoPushTwice
    <2>1. z \in Zones /\ obs.at = "report"
        BY ObserverIs DEF ReportsChange
    <2>2. PICK p \in obs.prev : TRUE
        BY <2>1 DEF Baseline
    <2>3. pushed[z] \subseteq {p[z]}
        BY <2>1, <2>2 DEF Baseline
    <2>4. p[z] # obs.new[z]
        BY <2>2 DEF ReportsChange
    <2> QED BY <2>3, <2>4
<1> QED BY <1>1, <1>2, <1>3, PTL DEF Spec
=============================================================================
