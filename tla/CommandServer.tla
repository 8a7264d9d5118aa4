--------------------------- MODULE CommandServer ----------------------------
(***************************************************************************)
(* What command_lock promises of the commands (src/src/lib.rs:74), with    *)
(* nothing of how the instances keep it.  Each instance serves its         *)
(* commands one at a time, in the order of a line.  A command reads the    *)
(* device, and then changes its own zone at one moment or never; what the  *)
(* device did meanwhile, or another instance, is all that its write may    *)
(* undo.  It is answered after that moment, and a success is the answer of *)
(* a command that had it.                                                  *)
(***************************************************************************)
EXTENDS Naturals, Sequences

CONSTANTS Zones, Messages, Instances

VARIABLES
    request,    \* what each command asks for
    phase,      \* "away", "waiting", "working" (has read), "served", "gone"
    line,       \* the line of each instance
    stale,      \* the commands to whom the device was switched since they read
    overtaken,  \* the commands to whom it was programmed since they read
    switches,   \* the device: which zones are on
    duration,   \* the device: the run time programmed in seconds, if any
    ok,         \* the commands that succeeded
    answered    \* the commands whose response was published

vars == <<request, phase, line, stale, overtaken, switches, duration, ok,
          answered>>

Init ==
    /\ phase = [m \in Messages |-> "away"]
    /\ line = [i \in Instances |-> <<>>]
    /\ stale = {} /\ overtaken = {}
    /\ switches = [z \in Zones |-> FALSE]
    /\ duration = [z \in Zones |-> {}]
    /\ ok = [m \in Messages |-> FALSE]
    /\ answered = [m \in Messages |-> FALSE]

Working == {m \in Messages : phase[m] = "working"}
Enter(m, p) == phase' = [phase EXCEPT ![m] = p]
FirstOf(i, m) == line[i] # <<>> /\ m = Head(line[i])
First(m) == \E i \in Instances : FirstOf(i, m)

Join(m) ==
    /\ phase[m] = "away"
    /\ Enter(m, "waiting")
    /\ \E i \in Instances : line' = [line EXCEPT ![i] = Append(@, m)]
    /\ UNCHANGED <<request, stale, overtaken, switches, duration, ok, answered>>

(* A message that is no command. *)
Reject(m) ==
    /\ phase[m] = "away"
    /\ Enter(m, "gone")
    /\ UNCHANGED <<request, line, stale, overtaken, switches, duration, ok,
                   answered>>

Read(m) ==
    /\ phase[m] = "waiting" /\ First(m)
    /\ Enter(m, "working")
    /\ stale' = stale \ {m} /\ overtaken' = overtaken \ {m}
    /\ UNCHANGED <<request, line, switches, duration, ok, answered>>

(* A start programs its run time; its answer may be lost. *)
Program(m) ==
    /\ phase[m] = "working" /\ First(m)
    /\ request[m].kind = "start"
    /\ duration' = [duration EXCEPT ![request[m].zone] = {request[m].secs}]
    /\ overtaken' = overtaken \cup (Working \ {m})
    /\ UNCHANGED phase \/ Enter(m, "served")
    /\ UNCHANGED <<request, line, stale, switches, ok, answered>>

(* The moment at which a command takes effect. *)
Apply(m) ==
    /\ phase[m] = "working" /\ First(m)
    /\ request[m].kind \in {"start", "stop"}
    /\ request[m].kind = "start" /\ m \notin overtaken
       => duration[request[m].zone] = {request[m].secs}
    /\ switches' \in [Zones -> BOOLEAN]
    /\ switches'[request[m].zone] = (request[m].kind = "start")
    /\ m \notin stale => \A z \in Zones \ {request[m].zone} :
                            switches'[z] = switches[z]
    /\ stale' = stale \cup (Working \ {m})
    /\ Enter(m, "served")
    /\ \E taken \in BOOLEAN : ok' = [ok EXCEPT ![m] = taken]
    /\ UNCHANGED <<request, line, overtaken, duration, answered>>

(* A command is through without an effect: it failed, or has none. *)
Conclude(m) ==
    /\ phase[m] \in {"waiting", "working"} /\ First(m)
    /\ Enter(m, "served")
    /\ UNCHANGED <<request, line, stale, overtaken, switches, duration, ok,
                   answered>>

(* Its turn is over. Only who was served is answered. *)
Leave(m) ==
    /\ phase[m] \in {"waiting", "working", "served"}
    /\ Enter(m, "gone")
    /\ \E i \in Instances : FirstOf(i, m) /\ line' = [line EXCEPT ![i] = Tail(@)]
    /\ stale' = stale \ {m} /\ overtaken' = overtaken \ {m}
    /\ \/ UNCHANGED answered
       \/ /\ phase[m] = "served"
          /\ \E told \in BOOLEAN : answered' = [answered EXCEPT ![m] = told]
    /\ UNCHANGED <<request, switches, duration, ok>>

(* The device turns a zone by itself. *)
Turn(z) ==
    /\ switches' = [switches EXCEPT ![z] = ~@]
    /\ stale' = stale \cup Working
    /\ UNCHANGED <<request, phase, line, overtaken, duration, ok, answered>>

Serve(m) ==
    \/ Join(m) \/ Reject(m) \/ Read(m) \/ Program(m) \/ Apply(m)
    \/ Conclude(m) \/ Leave(m)

Next ==
    \/ \E m \in Messages : Serve(m)
    \/ \E z \in Zones : Turn(z)

Spec == Init /\ [][Next]_vars
=============================================================================
