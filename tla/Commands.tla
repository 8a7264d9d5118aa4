------------------------------ MODULE Commands ------------------------------
(***************************************************************************)
(* The commands that arrive over MQTT and what they do to the device       *)
(* (src/src/lib.rs, handle_mqtt_message and run_command).                  *)
(*                                                                         *)
(* The MQTT loop spawns a task for each message.  A task waits for the     *)
(* command lock of its instance, then for the session, reads the settings  *)
(* (ff83: the manual switches of all zones), changes one switch in its     *)
(* copy and writes the copy back; a start programs the run time of the     *)
(* zone first (ff86, ff8b).  Every operation on the device can fail, with  *)
(* or without effect.  Meanwhile the device turns zones by itself, and an  *)
(* instance that restarts leaves its tasks running beside its successor's, *)
(* which has a lock of its own.                                            *)
(***************************************************************************)
EXTENDS RunDuration, Sequences

CONSTANTS
    Zones,          \* the zones
    Requests,       \* what a message may ask for
    MaxMessages,    \* bound: how many messages arrive
    MaxTurns,       \* bound: how often the device turns a zone by itself
    MaxRestarts,    \* bound: how often the instance restarts
    PublishFails    \* whether the MQTT client may refuse a response

Kinds == {"start", "stop", "status", "bare", "unknown", "garbled"}

ASSUME CommandsAssumption ==
    /\ Requests \subseteq [kind : Kinds, zone : Zones, secs : Nat]
    /\ Requests # {}
    /\ MaxMessages \in Nat /\ MaxTurns \in Nat /\ MaxRestarts \in Nat
    /\ PublishFails \in BOOLEAN

Messages == 1 .. MaxMessages
Instances == 1 .. MaxRestarts + 1

VARIABLES
    request,   \* what each message asks for
    at,        \* where the task of each message is
    inst,      \* the instance it was spawned in
    copy,      \* the settings it read and changes
    ok,        \* the success it responds with
    answered,  \* whether its response was published
    lock,      \* who waits for command_lock, per instance; the head holds it
    ready,     \* connection_ready, per instance
    cur,       \* the instance that runs
    switches,  \* the device: the manual switch of each zone (ff83)
    duration,  \* the device: the run time programmed, if any (ff86, ff8b)
    turns,     \* how often the device turned a zone by itself
    since,     \* history: what befell the device since a task's read
    last       \* history: the last start or stop to queue, per zone

vars == <<request, at, inst, copy, ok, answered, lock, ready, cur, switches,
          duration, turns, since, last>>

Switches == [Zones -> BOOLEAN]
AllOff == [z \in Zones |-> FALSE]
Option(S) == {s \in SUBSET S : \A x, y \in s : x = y}

(* A task holds the lock from "gate" to "respond", and its copy of the     *)
(* settings in the three places of Copied.                                 *)
Copied == {"status", "duration", "write"}
Locked == Copied \cup {"gate", "waiting", "look", "settings", "respond"}
Locations == Locked \cup {"coming", "spawned", "queued", "done"}

Types ==
    /\ request \in [Messages -> Requests]
    /\ at \in [Messages -> Locations]
    /\ inst \in [Messages -> Instances]
    /\ copy \in [Messages -> Switches]
    /\ ok \in [Messages -> BOOLEAN] /\ answered \in [Messages -> BOOLEAN]
    /\ lock \in [Instances -> Seq(Messages)]
    /\ ready \in [Instances -> BOOLEAN] /\ cur \in Instances
    /\ switches \in Switches
    /\ duration \in [Zones -> Option(Time)]
    /\ turns \in 0 .. MaxTurns
    /\ since \in [Messages -> SUBSET {"turn", "settings", "duration"}]
    /\ last \in [Zones -> Option(Messages)]

(* The line at each lock: the tasks of its instance that wait for it or    *)
(* hold it, each once; all but the first still wait.                       *)
Line ==
    /\ \A i \in Instances : \A k \in DOMAIN lock[i] :
         /\ inst[lock[i][k]] = i
         /\ at[lock[i][k]] \in Locked \cup {"queued"}
         /\ k # 1 => at[lock[i][k]] = "queued"
         /\ \A l \in DOMAIN lock[i] : lock[i][k] = lock[i][l] => k = l
    /\ \A m \in Messages : at[m] \in Locked \cup {"queued"} =>
         \E k \in DOMAIN lock[inst[m]] : lock[inst[m]][k] = m

(* The types, and: who works on the device holds the lock, and who has     *)
(* ended does not.                                                         *)
TypeOK == Types /\ Line

Init ==
    /\ request \in [Messages -> Requests]
    /\ at = [m \in Messages |-> "coming"]
    /\ inst = [m \in Messages |-> 1]
    /\ copy = [m \in Messages |-> AllOff]
    /\ ok = [m \in Messages |-> FALSE]
    /\ answered = [m \in Messages |-> FALSE]
    /\ lock = [i \in Instances |-> <<>>]
    /\ ready = [i \in Instances |-> FALSE]
    /\ cur = 1
    /\ switches = AllOff
    /\ duration = [z \in Zones |-> {}]
    /\ turns = 0
    /\ since = [m \in Messages |-> {}]
    /\ last = [z \in Zones |-> {}]

-----------------------------------------------------------------------------
(* The command lock and the gate.                                          *)

Goto(m, l) == at' = [at EXCEPT ![m] = l]

(* The guard of the lock and the copy go with the task. *)
End(m) ==
    /\ Goto(m, "done")
    /\ lock' = [lock EXCEPT ![inst[m]] = Tail(@)]
    /\ copy' = [copy EXCEPT ![m] = AllOff]
    /\ since' = [since EXCEPT ![m] = {}]

(* The MQTT loop of the running instance spawns a task. *)
Receive(m) ==
    /\ at[m] = "coming"
    /\ \A n \in 1 .. m - 1 : at[n] # "coming"
    /\ Goto(m, "spawned")
    /\ inst' = [inst EXCEPT ![m] = cur]
    /\ UNCHANGED <<request, copy, ok, answered, lock, ready, cur, switches,
                   duration, turns, since, last>>

(* The runtime polls the task for the first time: it parses the message    *)
(* and queues for the lock, which is fair.  Which of two tasks is polled   *)
(* first is up to the runtime.                                             *)
FirstPoll(m) ==
    /\ at[m] = "spawned"
    /\ IF request[m].kind = "garbled"
       THEN Goto(m, "done") /\ UNCHANGED <<lock, last>>
       ELSE /\ Goto(m, "queued")
            /\ lock' = [lock EXCEPT ![inst[m]] = Append(@, m)]
            /\ last' = IF request[m].kind \in {"start", "stop"}
                       THEN [last EXCEPT ![request[m].zone] = {m}]
                       ELSE last
    /\ UNCHANGED <<request, inst, copy, ok, answered, ready, cur, switches,
                   duration, turns, since>>

(* A variant without the lock. *)
Acquires_Always(m) == at[m] = "queued"

(* A variant in which the lock goes to any waiter. *)
Acquires_AnyOrder(m) ==
    /\ at[m] = "queued"
    /\ \A n \in Messages : inst[n] = inst[m] => at[n] \notin Locked

Acquires(m) == at[m] = "queued" /\ m = Head(lock[inst[m]])

(* An on_off without a value is answered at once, an unknown command not   *)
(* at all.                                                                 *)
Begin(m) ==
    /\ Acquires(m)
    /\ IF request[m].kind = "unknown"
       THEN End(m)
       ELSE /\ Goto(m, IF request[m].kind = "bare" THEN "respond" ELSE "gate")
            /\ UNCHANGED <<lock, copy, since>>
    /\ UNCHANGED <<request, inst, ok, answered, ready, cur, switches,
                   duration, turns, last>>

(* A variant that returns with the lock held. *)
GiveUp_KeepsLock(m) ==
    /\ Goto(m, IF request[m].kind = "status" THEN "done" ELSE "respond")
    /\ UNCHANGED <<lock, copy, since>>

(* An error: a start or stop responds that it failed, a status ends.       *)
GiveUp(m) ==
    IF request[m].kind = "status"
    THEN End(m)
    ELSE Goto(m, "respond") /\ UNCHANGED <<lock, copy, since>>

PassGate(m) ==
    /\ at[m] \in {"gate", "waiting"}
    /\ ready[inst[m]]
    /\ Goto(m, IF request[m].kind = "status" THEN "look" ELSE "settings")
    /\ UNCHANGED <<request, inst, copy, ok, answered, lock, ready, cur,
                   switches, duration, turns, since, last>>

Wait(m) ==
    /\ at[m] = "gate"
    /\ ~ready[inst[m]]
    /\ Goto(m, "waiting")
    /\ UNCHANGED <<request, inst, copy, ok, answered, lock, ready, cur,
                   switches, duration, turns, since, last>>

(* A variant without a deadline. *)
GateTimesOut_Never(m) ==
    /\ at[m] = "waiting" /\ ready[inst[m]]
    /\ GiveUp(m)
    /\ UNCHANGED <<request, inst, ok, answered, ready, cur, switches,
                   duration, turns, last>>

(* CONNECTION_READY_TIMEOUT has passed; the session may be up this moment. *)
GateTimesOut(m) ==
    /\ at[m] = "waiting"
    /\ GiveUp(m)
    /\ UNCHANGED <<request, inst, ok, answered, ready, cur, switches,
                   duration, turns, last>>

-----------------------------------------------------------------------------
(* The operations on the device.  Each of them may fail without effect.    *)

(* A variant that takes an error for a success. *)
Fail_Ok(m) ==
    /\ at[m] \in {"look", "settings", "status", "duration", "write"}
    /\ GiveUp(m)
    /\ ok' = [ok EXCEPT ![m] = TRUE]
    /\ UNCHANGED <<request, inst, answered, ready, cur, switches, duration,
                   turns, last>>

Fail(m) ==
    /\ at[m] \in {"look", "settings", "status", "duration", "write"}
    /\ GiveUp(m)
    /\ UNCHANGED <<request, inst, ok, answered, ready, cur, switches,
                   duration, turns, last>>

(* get_status, from the cache or from the device. *)
Look(m) ==
    /\ at[m] = "look"
    /\ Goto(m, "respond")
    /\ UNCHANGED <<request, inst, copy, ok, answered, lock, ready, cur,
                   switches, duration, turns, since, last>>

ReadSettings(m) ==
    /\ at[m] = "settings"
    /\ copy' = [copy EXCEPT ![m] = switches]
    /\ since' = [since EXCEPT ![m] = {}]
    /\ Goto(m, "status")
    /\ UNCHANGED <<request, inst, ok, answered, lock, ready, cur, switches,
                   duration, turns, last>>

(* The status is read and not used.  A start that is refused for its run   *)
(* time is so only now.                                                    *)
ReadStatus(m) ==
    /\ at[m] = "status"
    /\ Goto(m, IF request[m].kind = "stop" THEN "write"
               ELSE IF Representable(request[m].secs) THEN "duration"
               ELSE "respond")
    /\ UNCHANGED <<request, inst, copy, ok, answered, lock, ready, cur,
                   switches, duration, turns, since, last>>

(* What one instance does to the device befalls the tasks of the others    *)
(* that have read it.                                                      *)
Befalls(what, m) ==
    since' = [n \in Messages |->
                 IF at[n] \in Copied /\ inst[n] # inst[m]
                 THEN since[n] \cup {what} ELSE since[n]]

(* The device takes the write; its answer may be lost. *)
WriteDuration(m) ==
    /\ at[m] = "duration"
    /\ duration' = [duration EXCEPT
                       ![request[m].zone] = {Parts(request[m].secs)}]
    /\ Befalls("duration", m)
    /\ Goto(m, "write") \/ Goto(m, "respond")
    /\ UNCHANGED <<request, inst, copy, ok, answered, lock, ready, cur,
                   switches, turns, last>>

WriteSettings(m) ==
    /\ at[m] = "write"
    /\ switches' = [copy[m] EXCEPT
                       ![request[m].zone] = request[m].kind = "start"]
    /\ Befalls("settings", m)
    /\ \E taken \in BOOLEAN : ok' = [ok EXCEPT ![m] = taken]
    /\ Goto(m, "respond")
    /\ UNCHANGED <<request, inst, copy, answered, lock, ready, cur, duration,
                   turns, last>>

(* The MQTT client may refuse the response, which ends the task; that of   *)
(* an instance that is gone publishes nothing.                             *)
Respond(m) ==
    /\ at[m] = "respond"
    /\ \E refused \in {FALSE, PublishFails} :
         answered' = [answered EXCEPT ![m] = ~refused /\ inst[m] = cur]
    /\ End(m)
    /\ UNCHANGED <<request, inst, ok, ready, cur, switches, duration, turns,
                   last>>

-----------------------------------------------------------------------------
(* What happens around them.                                               *)

(* A zone starts or stops by a timer of the device or by its button. *)
DeviceTurns(z) ==
    /\ turns < MaxTurns
    /\ turns' = turns + 1
    /\ switches' = [switches EXCEPT ![z] = ~@]
    /\ since' = [n \in Messages |-> IF at[n] \in Copied
                                    THEN since[n] \cup {"turn"} ELSE since[n]]
    /\ UNCHANGED <<request, at, inst, copy, ok, answered, lock, ready, cur,
                   duration, last>>

(* The supervisor of the running instance opens and closes the gate.  The  *)
(* gate of an instance that is gone stays as it was.                       *)
Session ==
    /\ ready' = [ready EXCEPT ![cur] = ~@]
    /\ UNCHANGED <<request, at, inst, copy, ok, answered, lock, cur, switches,
                   duration, turns, since, last>>

(* The MQTT loop fails and the instance starts anew.  Its tasks go on.     *)
InstanceRestart ==
    /\ cur <= MaxRestarts
    /\ cur' = cur + 1
    /\ UNCHANGED <<request, at, inst, copy, ok, answered, lock, ready,
                   switches, duration, turns, since, last>>

-----------------------------------------------------------------------------
Operate(m) ==
    \/ Fail(m) \/ Look(m) \/ ReadSettings(m) \/ ReadStatus(m)
    \/ WriteDuration(m) \/ WriteSettings(m)

Handle(m) ==
    \/ FirstPoll(m) \/ Begin(m) \/ PassGate(m) \/ Wait(m) \/ GateTimesOut(m)
    \/ Operate(m) \/ Respond(m)

Next ==
    \/ \E m \in Messages : Receive(m) \/ Handle(m)
    \/ \E z \in Zones : DeviceTurns(z)
    \/ Session
    \/ InstanceRestart

(* The runtime polls the tasks that can go on, and an operation on the     *)
(* device ends in an answer or an error.                                   *)
Spec == Init /\ [][Next]_vars
FairSpec == Spec /\ \A m \in Messages : WF_vars(Handle(m))

-----------------------------------------------------------------------------
(* A command changes the zone it names and no other: what it writes back   *)
(* of the other zone is what the device holds, unless the device or a task *)
(* of another instance changed it since the read (lib.rs:74).              *)
OtherZoneKept ==
    [][\A m \in Messages :
         at[m] = "write" /\ since[m] \cap {"turn", "settings"} = {}
             /\ switches' # switches /\ at'[m] # "write"
         => \A z \in Zones \ {request[m].zone} : switches'[z] = switches[z]]_vars

(* The fail-safe (README.md:104): before a start turns its zone on, the    *)
(* device is programmed to stop it after the time that was asked for,      *)
(* unless a task of another instance programmed one since.                 *)
DurationInPlace ==
    \A m \in Messages :
        at[m] = "write" /\ request[m].kind = "start" /\ "duration" \notin since[m]
        => \E t \in duration[request[m].zone] : Seconds(t) = request[m].secs

(* Of the commands for a zone the last to queue wins (lib.rs:237): if it   *)
(* succeeded, the zone is as it said, whatever commands for this and other *)
(* zones came before, in between or after, and failed or not.              *)
LastQueuedWins ==
    cur = 1 /\ turns = 0 =>
        \A z \in Zones : \A m \in last[z] :
            at[m] = "done" /\ ok[m] => switches[z] = (request[m].kind = "start")

(* Every command ends, with the session up or not, and though its instance *)
(* be gone: then nobody sends to the gate it may be waiting at.            *)
EveryCommandEnds ==
    \A m \in Messages : at[m] = "spawned" ~> at[m] = "done"

-----------------------------------------------------------------------------
(* The instances serve their commands one at a time.                       *)

Phase(l) ==
    CASE l \in {"coming", "spawned"} -> "away"
      [] l \in {"queued", "gate", "waiting", "look", "settings"} -> "waiting"
      [] l \in Copied -> "working"
      [] l = "respond" -> "served"
      [] l = "done" -> "gone"

Server == INSTANCE CommandServer WITH
    phase <- [m \in Messages |-> Phase(at[m])],
    line <- lock,
    stale <- {m \in Messages : since[m] \cap {"turn", "settings"} # {}},
    overtaken <- {m \in Messages : "duration" \in since[m]},
    duration <- [z \in Zones |-> {Seconds(t) : t \in duration[z]}]

(* Whatever fails, times out or restarts, each command takes effect at one *)
(* moment of its turn or never, on its zone, with the run time it asked    *)
(* for, and answers a success only after it (lib.rs:235-320).              *)
ServedOneByOne == Server!Spec

-----------------------------------------------------------------------------
(* README.md:137, "The bridge publishes a response for every command". *)
EveryCommandAnswered ==
    \A m \in Messages :
        at[m] = "done" /\ request[m].kind \in {"start", "stop", "status"}
        => answered[m]
=============================================================================
