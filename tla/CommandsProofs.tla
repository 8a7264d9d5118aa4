--------------------------- MODULE CommandsProofs ---------------------------
(***************************************************************************)
(* Theorems about the commands, for every set of zones and requests, any   *)
(* number of messages, of turns of the device and of restarts.             *)
(***************************************************************************)
EXTENDS Commands, NumberProofs, TLAPS

-----------------------------------------------------------------------------
(* The line at the lock.                                                   *)

(* Who is past the lock is first in line. *)
LEMMA FirstInLine ==
    ASSUME TypeOK, NEW m \in Messages, at[m] \in Locked
    PROVE  /\ lock[inst[m]] \in Seq(Messages) /\ lock[inst[m]] # <<>>
           /\ m = Head(lock[inst[m]])
<1>1. inst[m] \in Instances /\ lock[inst[m]] \in Seq(Messages)
    BY DEF TypeOK, Types
<1>2. PICK k \in DOMAIN lock[inst[m]] : lock[inst[m]][k] = m
    BY DEF TypeOK, Line
<1>3. k = 1
    BY <1>1, <1>2 DEF TypeOK, Line, Locked, Copied
<1> QED BY <1>1, <1>2, <1>3

(* Mutual exclusion. *)
LEMMA OneHolder ==
    ASSUME TypeOK, NEW m \in Messages, NEW n \in Messages,
           at[m] \in Locked, at[n] \in Locked, inst[m] = inst[n]
    PROVE  m = n
BY FirstInLine

(* A task that goes on with the lock in its hand keeps the line. *)
LEMMA MoveKeeps ==
    ASSUME TypeOK, NEW m \in Messages, at[m] \in Locked, NEW l \in Locked,
           Goto(m, l), UNCHANGED <<lock, inst>>
    PROVE  Line' /\ at' \in [Messages -> Locations]
<1>1. /\ at' \in [Messages -> Locations]
      /\ at'[m] = l
      /\ \A n \in Messages \ {m} : at'[n] = at[n]
    BY DEF Goto, TypeOK, Types, Locations
<1>2. ASSUME NEW i \in Instances, NEW k \in DOMAIN lock[i]
      PROVE  /\ inst[lock[i][k]] = i
             /\ at'[lock[i][k]] \in Locked \cup {"queued"}
             /\ k # 1 => at'[lock[i][k]] = "queued"
    <2>1. lock[i][k] \in Messages
        BY <1>2 DEF TypeOK, Types
    <2>2. CASE lock[i][k] = m
        BY <1>1, <2>2, <1>2 DEF TypeOK, Line, Locked, Copied
    <2>3. CASE lock[i][k] # m
        BY <1>1, <2>1, <2>3, <1>2 DEF TypeOK, Line
    <2> QED BY <2>2, <2>3
<1>3. \A n \in Messages : at'[n] \in Locked \cup {"queued"} =>
          at[n] \in Locked \cup {"queued"}
    BY <1>1
<1> QED BY <1>1, <1>2, <1>3 DEF TypeOK, Line

(* The first in line takes the lock. *)
LEMMA AcquireKeeps ==
    ASSUME TypeOK, NEW m \in Messages, Acquires(m), NEW l \in Locked,
           Goto(m, l), UNCHANGED <<lock, inst>>
    PROVE  Line' /\ at' \in [Messages -> Locations]
<1>1. /\ at' \in [Messages -> Locations]
      /\ at'[m] = l
      /\ \A n \in Messages \ {m} : at'[n] = at[n]
    BY DEF Goto, TypeOK, Types, Locations
<1>2. at[m] = "queued" /\ m = Head(lock[inst[m]])
    BY DEF Acquires
<1>3. ASSUME NEW i \in Instances, NEW k \in DOMAIN lock[i]
      PROVE  /\ inst[lock[i][k]] = i
             /\ at'[lock[i][k]] \in Locked \cup {"queued"}
             /\ k # 1 => at'[lock[i][k]] = "queued"
    <2>1. lock[i] \in Seq(Messages) /\ lock[i][k] \in Messages
        BY <1>3 DEF TypeOK, Types
    <2>2. CASE lock[i][k] = m
        <3>1. inst[m] = i /\ lock[i] # <<>>
            BY <2>1, <2>2, <1>3 DEF TypeOK, Line
        <3>2. lock[i][1] = m /\ 1 \in DOMAIN lock[i]
            BY <1>2, <2>1, <3>1
        <3>3. k = 1
            BY <2>2, <3>2, <1>3 DEF TypeOK, Line
        <3> QED BY <1>1, <2>2, <3>1, <3>3
    <2>3. CASE lock[i][k] # m
        BY <1>1, <2>1, <2>3, <1>3 DEF TypeOK, Line
    <2> QED BY <2>2, <2>3
<1>4. \A n \in Messages : at'[n] \in Locked \cup {"queued"} =>
          at[n] \in Locked \cup {"queued"}
    BY <1>1, <1>2
<1> QED BY <1>1, <1>3, <1>4 DEF TypeOK, Line

(* A task that ends lets the next one in line. *)
LEMMA EndKeeps ==
    ASSUME TypeOK, NEW m \in Messages, at[m] \in Locked \/ Acquires(m),
           End(m), UNCHANGED inst
    PROVE  /\ Line'
           /\ at' \in [Messages -> Locations]
           /\ lock' \in [Instances -> Seq(Messages)]
           /\ copy' \in [Messages -> Switches]
           /\ since' \in [Messages -> SUBSET {"turn", "settings", "duration"}]
<1> DEFINE q == lock[inst[m]]
<1>1. inst[m] \in Instances /\ q \in Seq(Messages) /\ at[m] \in Locked \cup {"queued"}
    BY DEF TypeOK, Types, Acquires
<1>2. q # <<>> /\ m = q[1]
    <2>1. CASE at[m] \in Locked
        BY <2>1, FirstInLine
    <2>2. CASE Acquires(m)
        <3>1. PICK k \in DOMAIN q : q[k] = m
            BY <1>1 DEF TypeOK, Line
        <3> QED BY <1>1, <2>2, <3>1 DEF Acquires
    <2> QED BY <2>1, <2>2
<1>3. /\ at' \in [Messages -> Locations]
      /\ at'[m] = "done"
      /\ \A n \in Messages \ {m} : at'[n] = at[n]
    BY DEF End, Goto, TypeOK, Types, Locations
<1>4. /\ lock' \in [Instances -> Seq(Messages)]
      /\ lock'[inst[m]] = Tail(q)
      /\ \A i \in Instances \ {inst[m]} : lock'[i] = lock[i]
    BY <1>1, <1>2 DEF End, TypeOK, Types
<1>5. copy' \in [Messages -> Switches]
    BY DEF End, TypeOK, Types, Switches, AllOff
<1>6. since' \in [Messages -> SUBSET {"turn", "settings", "duration"}]
    BY DEF End, TypeOK, Types
<1>t. /\ Len(q) \in Nat \ {0} /\ DOMAIN q = 1 .. Len(q)
      /\ DOMAIN Tail(q) = 1 .. Len(q) - 1
      /\ \A k \in 1 .. Len(q) - 1 : Tail(q)[k] = q[k + 1]
    <2>1. Len(q) \in Nat \ {0} /\ DOMAIN q = 1 .. Len(q)
        BY <1>1, <1>2
    <2>2. DOMAIN Tail(q) = 1 .. Len(q) - 1
        BY <1>1, <1>2
    <2>3. \A k \in 1 .. Len(q) - 1 : Tail(q)[k] = q[k + 1]
        BY <1>1, <1>2
    <2> QED BY <2>1, <2>2, <2>3
<1> HIDE DEF q
<1>7. \A k \in DOMAIN Tail(q) : k + 1 \in DOMAIN q /\ Tail(q)[k] = q[k + 1] /\ k \in Nat \ {0}
    BY <1>t
<1>8. \A k \in DOMAIN q : k # 1 => k - 1 \in DOMAIN Tail(q) /\ Tail(q)[k - 1] = q[k]
    <2> SUFFICES ASSUME NEW k \in DOMAIN q, k # 1
                 PROVE  k - 1 \in DOMAIN Tail(q) /\ Tail(q)[k - 1] = q[k]
        OBVIOUS
    <2>1. k - 1 \in 1 .. Len(q) - 1 /\ (k - 1) + 1 = k
        BY <1>t
    <2> QED BY <1>t, <2>1
<1>9. ASSUME NEW i \in Instances, NEW k \in DOMAIN lock'[i]
      PROVE  /\ inst[lock'[i][k]] = i
             /\ at'[lock'[i][k]] \in Locked \cup {"queued"}
             /\ k # 1 => at'[lock'[i][k]] = "queued"
             /\ \A l \in DOMAIN lock'[i] : lock'[i][k] = lock'[i][l] => k = l
    <2>1. CASE i = inst[m]
        <3>1. /\ k + 1 \in DOMAIN q /\ lock'[i][k] = q[k + 1]
              /\ k \in Nat \ {0} /\ k + 1 # 1
            <4>1. lock'[i] = Tail(q)
                BY <1>4, <2>1
            <4>2. k \in DOMAIN Tail(q)
                BY <4>1, <1>9, Zenon
            <4>3. /\ k + 1 \in DOMAIN q /\ lock'[i][k] = q[k + 1]
                  /\ k \in Nat \ {0}
                BY <1>7, <4>1, <4>2, Zenon
            <4> QED BY <4>3
        <3>2. q[k + 1] \in Messages /\ q[k + 1] # m
            BY <1>1, <1>2, <3>1 DEF TypeOK, Line, q
        <3>3. inst[q[k + 1]] = i /\ at[q[k + 1]] = "queued"
            BY <1>1, <2>1, <3>1 DEF TypeOK, Line, q
        <3>4. ASSUME NEW l \in DOMAIN lock'[i], lock'[i][k] = lock'[i][l]
              PROVE  k = l
            <4>0. lock'[i] = Tail(q)
                BY <1>4, <2>1
            <4>1. /\ l + 1 \in DOMAIN q /\ lock'[i][l] = q[l + 1]
                  /\ l \in Nat
                BY <1>7, <3>4, <4>0, Zenon
            <4>3. q[k + 1] = q[l + 1]
                BY <3>1, <3>4, <4>1
            <4>4. \A x, y \in DOMAIN q : q[x] = q[y] => x = y
                BY <1>1 DEF TypeOK, Line, q
            <4>2. k + 1 = l + 1
                BY <3>1, <4>1, <4>3, <4>4, Zenon
            <4> QED BY <3>1, <4>1, <4>2
        <3> QED BY <1>3, <3>1, <3>2, <3>3, <3>4
    <2>2. CASE i # inst[m]
        <3>1. lock'[i] = lock[i]
            BY <1>4, <2>2
        <3>2. lock[i][k] \in Messages /\ inst[lock[i][k]] = i
            BY <1>9, <3>1 DEF TypeOK, Types, Line
        <3>3. lock[i][k] # m
            BY <2>2, <3>2
        <3>4. k \in DOMAIN lock[i] /\ at'[lock[i][k]] = at[lock[i][k]]
            BY <1>3, <1>9, <3>1, <3>2, <3>3
        <3> QED BY <3>1, <3>4 DEF TypeOK, Line
    <2> QED BY <2>1, <2>2
<1>10. ASSUME NEW n \in Messages, at'[n] \in Locked \cup {"queued"}
       PROVE  \E k \in DOMAIN lock'[inst[n]] : lock'[inst[n]][k] = n
    <2>1. n # m /\ at[n] \in Locked \cup {"queued"} /\ inst[n] \in Instances
        BY <1>3, <1>10 DEF TypeOK, Types, Locked, Copied
    <2>2. PICK k \in DOMAIN lock[inst[n]] : lock[inst[n]][k] = n
        BY <2>1 DEF TypeOK, Line
    <2>3. CASE inst[n] = inst[m]
        <3>1. k \in DOMAIN q /\ q[k] = n /\ k # 1
            BY <1>2, <2>1, <2>2, <2>3 DEF q
        <3>2. k - 1 \in DOMAIN Tail(q) /\ Tail(q)[k - 1] = n
            BY <1>8, <3>1
        <3> QED BY <1>4, <2>3, <3>2
    <2>4. CASE inst[n] # inst[m]
        BY <1>4, <2>1, <2>2, <2>4
    <2> QED BY <2>3, <2>4
<1> QED BY <1>3, <1>4, <1>5, <1>6, <1>9, <1>10 DEF Line

(* A task that is polled for the first time joins the end of the line. *)
LEMMA EnqueueKeeps ==
    ASSUME TypeOK, NEW m \in Messages, at[m] = "spawned", Goto(m, "queued"),
           lock' = [lock EXCEPT ![inst[m]] = Append(@, m)], UNCHANGED inst
    PROVE  /\ Line'
           /\ at' \in [Messages -> Locations]
           /\ lock' \in [Instances -> Seq(Messages)]
<1> DEFINE q == lock[inst[m]]
<1>1. inst[m] \in Instances /\ q \in Seq(Messages)
    BY DEF TypeOK, Types
<1>2. /\ at' \in [Messages -> Locations]
      /\ at'[m] = "queued"
      /\ \A n \in Messages \ {m} : at'[n] = at[n]
    BY DEF Goto, TypeOK, Types, Locations
<1>3. /\ lock' \in [Instances -> Seq(Messages)]
      /\ lock'[inst[m]] = Append(q, m)
      /\ \A i \in Instances \ {inst[m]} : lock'[i] = lock[i]
    BY <1>1 DEF TypeOK, Types
<1>4. \A i \in Instances : \A k \in DOMAIN lock[i] :
          lock[i][k] \in Messages /\ lock[i][k] # m
    <2> SUFFICES ASSUME NEW i \in Instances, NEW k \in DOMAIN lock[i]
                 PROVE  lock[i][k] \in Messages /\ lock[i][k] # m
        OBVIOUS
    <2>1. lock[i] \in Seq(Messages)
        BY DEF TypeOK, Types
    <2>2. at[lock[i][k]] \in Locked \cup {"queued"}
        BY DEF TypeOK, Line
    <2>3. "spawned" \notin Locked \cup {"queued"}
        BY DEF Locked, Copied
    <2> QED BY <2>1, <2>2, <2>3
<1>5. \A k \in DOMAIN Append(q, m) :
          \/ k \in DOMAIN q /\ Append(q, m)[k] = q[k]
          \/ k = Len(q) + 1 /\ Append(q, m)[k] = m
    BY <1>1
<1>6. /\ DOMAIN q \subseteq DOMAIN Append(q, m)
      /\ \A k \in DOMAIN q : Append(q, m)[k] = q[k]
      /\ Len(q) + 1 \in DOMAIN Append(q, m)
      /\ Append(q, m)[Len(q) + 1] = m
    <2>1. DOMAIN q = 1 .. Len(q) /\ Len(q) \in Nat
        BY <1>1
    <2>2. DOMAIN Append(q, m) = 1 .. Len(q) + 1
        BY <1>1
    <2>3. Append(q, m)[Len(q) + 1] = m
        BY <1>1
    <2>4. \A k \in DOMAIN q : Append(q, m)[k] = q[k]
        BY <1>1
    <2> HIDE DEF q
    <2> QED BY <2>1, <2>2, <2>3, <2>4
<1> HIDE DEF q
<1>7. ASSUME NEW i \in Instances, NEW k \in DOMAIN lock'[i]
      PROVE  /\ inst[lock'[i][k]] = i
             /\ at'[lock'[i][k]] \in Locked \cup {"queued"}
             /\ k # 1 => at'[lock'[i][k]] = "queued"
             /\ \A l \in DOMAIN lock'[i] : lock'[i][k] = lock'[i][l] => k = l
    <2>1. CASE i # inst[m]
        BY <1>2, <1>3, <1>4, <1>7, <2>1 DEF TypeOK, Line
    <2>2. CASE i = inst[m] /\ k \in DOMAIN q
        <3>1. lock'[i][k] = q[k] /\ q[k] # m /\ q[k] \in Messages
            BY <1>1, <1>3, <1>4, <1>6, <2>2 DEF q
        <3>2. /\ inst[q[k]] = i /\ at[q[k]] \in Locked \cup {"queued"}
              /\ k # 1 => at[q[k]] = "queued"
            BY <1>1, <2>2 DEF TypeOK, Line, q
        <3>3. ASSUME NEW l \in DOMAIN lock'[i], lock'[i][k] = lock'[i][l]
              PROVE  k = l
            <4>1. l \in DOMAIN q /\ lock'[i][l] = q[l]
                BY <1>3, <1>5, <2>2, <3>1, <3>3
            <4> QED BY <1>1, <2>2, <3>1, <3>3, <4>1 DEF TypeOK, Line, q
        <3> QED BY <1>2, <3>1, <3>2, <3>3
    <2>3. CASE i = inst[m] /\ k \notin DOMAIN q
        <3>1. k = Len(q) + 1 /\ lock'[i][k] = m
            BY <1>3, <1>5, <1>7, <2>3
        <3>2. ASSUME NEW l \in DOMAIN lock'[i], lock'[i][k] = lock'[i][l]
              PROVE  k = l
            <4>1. lock'[i] = Append(q, m) /\ l \in DOMAIN Append(q, m)
                BY <1>3, <2>3, <3>2
            <4>2. l \notin DOMAIN q
                <5>1. l \in DOMAIN q => q[l] # m
                    BY <1>1, <1>4 DEF q
                <5>2. Append(q, m)[l] = m
                    BY <3>1, <3>2, <4>1, Zenon
                <5>3. \A j \in DOMAIN q : Append(q, m)[j] = q[j]
                    BY <1>6
                <5> QED BY <5>1, <5>2, <5>3, Zenon
            <4> QED BY <1>5, <3>1, <4>1, <4>2
        <3> QED BY <1>2, <2>3, <3>1, <3>2
    <2> QED BY <2>1, <2>2, <2>3
<1>8. ASSUME NEW n \in Messages, at'[n] \in Locked \cup {"queued"}
      PROVE  \E k \in DOMAIN lock'[inst[n]] : lock'[inst[n]][k] = n
    <2>1. CASE n = m
        BY <1>3, <1>6, <2>1
    <2>2. CASE n # m
        <3>1. at[n] \in Locked \cup {"queued"} /\ inst[n] \in Instances
            BY <1>2, <1>8, <2>2 DEF TypeOK, Types
        <3>2. PICK k \in DOMAIN lock[inst[n]] : lock[inst[n]][k] = n
            BY <3>1 DEF TypeOK, Line
        <3>3. CASE inst[n] = inst[m]
            BY <1>3, <1>6, <3>2, <3>3 DEF q
        <3>4. CASE inst[n] # inst[m]
            BY <1>3, <3>1, <3>2, <3>4
        <3> QED BY <3>3, <3>4
    <2> QED BY <2>1, <2>2
<1> QED BY <1>2, <1>3, <1>7, <1>8 DEF Line

(* A task that is not in line does not disturb it by going elsewhere. *)
LEMMA OutsideKeeps ==
    ASSUME TypeOK, NEW m \in Messages, at[m] \notin Locked \cup {"queued"},
           NEW l \in {"spawned", "done"}, Goto(m, l), UNCHANGED lock,
           inst' \in [Messages -> Instances],
           \A n \in Messages \ {m} : inst'[n] = inst[n]
    PROVE  Line' /\ at' \in [Messages -> Locations]
<1>1. /\ at' \in [Messages -> Locations]
      /\ at'[m] = l
      /\ \A n \in Messages \ {m} : at'[n] = at[n]
    BY DEF Goto, TypeOK, Types, Locations
<1>2. l \notin Locked \cup {"queued"}
    BY DEF Locked, Copied
<1>3. ASSUME NEW i \in Instances, NEW k \in DOMAIN lock[i]
      PROVE  /\ inst'[lock[i][k]] = i
             /\ at'[lock[i][k]] \in Locked \cup {"queued"}
             /\ k # 1 => at'[lock[i][k]] = "queued"
    <2>1. lock[i] \in Seq(Messages) /\ lock[i][k] \in Messages
        BY <1>3 DEF TypeOK, Types
    <2>2. lock[i][k] # m
        BY <1>3 DEF TypeOK, Line
    <2> QED BY <1>1, <1>3, <2>1, <2>2 DEF TypeOK, Line
<1>4. ASSUME NEW n \in Messages, at'[n] \in Locked \cup {"queued"}
      PROVE  \E k \in DOMAIN lock[inst'[n]] : lock[inst'[n]][k] = n
    <2>1. n # m
        BY <1>1, <1>2, <1>4
    <2> QED BY <1>1, <1>4, <2>1 DEF TypeOK, Line
<1> QED BY <1>1, <1>3, <1>4 DEF TypeOK, Line

-----------------------------------------------------------------------------
(* The types and the line.                                                 *)

(* GiveUp by a task past the lock. *)
LEMMA GiveUpKeeps ==
    ASSUME TypeOK, NEW m \in Messages, at[m] \in Locked, GiveUp(m),
           UNCHANGED inst
    PROVE  /\ Line'
           /\ at' \in [Messages -> Locations]
           /\ lock' \in [Instances -> Seq(Messages)]
           /\ copy' \in [Messages -> Switches]
           /\ since' \in [Messages -> SUBSET {"turn", "settings", "duration"}]
<1>1. CASE End(m)
    BY <1>1, EndKeeps
<1>2. CASE Goto(m, "respond") /\ UNCHANGED <<lock, copy, since>>
    <2>1. "respond" \in Locked
        BY DEF Locked
    <2>2. Line' /\ at' \in [Messages -> Locations]
        BY <1>2, <2>1, MoveKeeps
    <2> QED BY <1>2, <2>2 DEF TypeOK, Types
<1> QED BY <1>1, <1>2 DEF GiveUp

LEMMA BefallsType ==
    ASSUME TypeOK, NEW m \in Messages, NEW what \in {"settings", "duration"},
           Befalls(what, m)
    PROVE  since' \in [Messages -> SUBSET {"turn", "settings", "duration"}]
BY DEF Befalls, TypeOK, Types

LEMMA HandleTypeOK ==
    ASSUME TypeOK, NEW m \in Messages, Handle(m)
    PROVE  TypeOK'
<1> USE DEF Locked, Copied
<1>1. CASE FirstPoll(m)
    <2>1. last' \in [Zones -> Option(Messages)]
        <3>1. {m} \in Option(Messages)
            BY DEF Option
        <3>2. CASE last' = last
            BY <3>2 DEF TypeOK, Types
        <3>3. CASE last' = [last EXCEPT ![request[m].zone] = {m}]
            BY <3>1, <3>3 DEF TypeOK, Types
        <3> QED BY <1>1, <3>2, <3>3 DEF FirstPoll
    <2>2. CASE request[m].kind = "garbled"
        <3>1. Goto(m, "done") /\ UNCHANGED <<lock, inst>>
            BY <1>1, <2>2 DEF FirstPoll
        <3>2. Line' /\ at' \in [Messages -> Locations]
            BY <1>1, <3>1, OutsideKeeps DEF FirstPoll, TypeOK, Types
        <3> QED BY <1>1, <2>1, <3>1, <3>2 DEF FirstPoll, TypeOK, Types
    <2>3. CASE request[m].kind # "garbled"
        <3>1. /\ Line' /\ at' \in [Messages -> Locations]
              /\ lock' \in [Instances -> Seq(Messages)]
            BY <1>1, <2>3, EnqueueKeeps DEF FirstPoll
        <3> QED BY <1>1, <2>1, <3>1 DEF FirstPoll, TypeOK, Types
    <2> QED BY <2>2, <2>3
<1>2. CASE Begin(m)
    <2>1. CASE request[m].kind = "unknown"
        <3>1. End(m) /\ Acquires(m) /\ UNCHANGED inst
            BY <1>2, <2>1 DEF Begin
        <3> QED BY <1>2, <3>1, EndKeeps DEF Begin, TypeOK, Types
    <2>2. CASE request[m].kind # "unknown"
        <3>1. PICK l \in {"respond", "gate"} : Goto(m, l)
            BY <1>2, <2>2 DEF Begin
        <3>2. Acquires(m) /\ UNCHANGED <<lock, inst, copy, since>>
            BY <1>2, <2>2 DEF Begin
        <3>3. l \in Locked
            OBVIOUS
        <3>4. Line' /\ at' \in [Messages -> Locations]
            BY <3>1, <3>2, <3>3, AcquireKeeps
        <3> QED BY <1>2, <3>2, <3>4 DEF Begin, TypeOK, Types
    <2> QED BY <2>1, <2>2
<1>3. CASE PassGate(m) \/ Wait(m) \/ Look(m) \/ ReadStatus(m)
    <2>1. PICK l \in Locked : Goto(m, l)
        BY <1>3 DEF PassGate, Wait, Look, ReadStatus
    <2>2. at[m] \in Locked /\ UNCHANGED <<lock, inst>>
        BY <1>3 DEF PassGate, Wait, Look, ReadStatus
    <2>3. Line' /\ at' \in [Messages -> Locations]
        BY <2>1, <2>2, MoveKeeps
    <2> QED BY <1>3, <2>3 DEF PassGate, Wait, Look, ReadStatus, TypeOK, Types
<1>4. CASE GateTimesOut(m) \/ Fail(m)
    <2>1. at[m] \in Locked /\ GiveUp(m) /\ UNCHANGED inst
        BY <1>4 DEF GateTimesOut, Fail
    <2> QED BY <1>4, <2>1, GiveUpKeeps DEF GateTimesOut, Fail, TypeOK, Types
<1>5. CASE ReadSettings(m)
    <2>1. Line' /\ at' \in [Messages -> Locations]
        BY <1>5, MoveKeeps DEF ReadSettings
    <2> QED BY <1>5, <2>1 DEF ReadSettings, TypeOK, Types, Switches
<1>6. CASE WriteDuration(m)
    <2>1. Line' /\ at' \in [Messages -> Locations]
        BY <1>6, MoveKeeps DEF WriteDuration
    <2>2. since' \in [Messages -> SUBSET {"turn", "settings", "duration"}]
        BY <1>6, BefallsType DEF WriteDuration
    <2>3. duration' \in [Zones -> Option(Time)]
        <3>1. request[m].secs \in Nat
            BY CommandsAssumption DEF TypeOK, Types
        <3>2. {Parts(request[m].secs)} \in Option(Time)
            BY <3>1 DEF Option, Time, Parts, Byte
        <3> QED BY <1>6, <3>2 DEF WriteDuration, TypeOK, Types
    <2> QED BY <1>6, <2>1, <2>2, <2>3 DEF WriteDuration, TypeOK, Types
<1>7. CASE WriteSettings(m)
    <2>1. Line' /\ at' \in [Messages -> Locations]
        BY <1>7, MoveKeeps DEF WriteSettings
    <2>2. since' \in [Messages -> SUBSET {"turn", "settings", "duration"}]
        BY <1>7, BefallsType DEF WriteSettings
    <2>3. switches' \in Switches
        BY <1>7 DEF WriteSettings, TypeOK, Types, Switches
    <2>4. ok' \in [Messages -> BOOLEAN]
        BY <1>7 DEF WriteSettings, TypeOK, Types
    <2> QED BY <1>7, <2>1, <2>2, <2>3, <2>4 DEF WriteSettings, TypeOK, Types
<1>8. CASE Respond(m)
    <2>1. at[m] \in Locked /\ End(m) /\ UNCHANGED inst
        BY <1>8 DEF Respond
    <2>2. answered' \in [Messages -> BOOLEAN]
        BY <1>8 DEF Respond, TypeOK, Types
    <2> QED BY <1>8, <2>1, <2>2, EndKeeps DEF Respond, TypeOK, Types
<1> QED BY <1>1, <1>2, <1>3, <1>4, <1>5, <1>6, <1>7, <1>8 DEF Handle, Operate

LEMMA NextTypeOK == TypeOK /\ [Next]_vars => TypeOK'
<1> SUFFICES ASSUME TypeOK, [Next]_vars PROVE TypeOK'
    OBVIOUS
<1>1. ASSUME NEW m \in Messages, Receive(m) PROVE TypeOK'
    <2>1. inst' \in [Messages -> Instances] /\ \A n \in Messages \ {m} : inst'[n] = inst[n]
        BY <1>1 DEF Receive, TypeOK, Types
    <2>2. Line' /\ at' \in [Messages -> Locations]
        BY <1>1, <2>1, OutsideKeeps DEF Receive, Locked, Copied
    <2> QED BY <1>1, <2>1, <2>2 DEF Receive, TypeOK, Types
<1>2. ASSUME NEW z \in Zones, DeviceTurns(z) PROVE TypeOK'
    <2>1. since' \in [Messages -> SUBSET {"turn", "settings", "duration"}]
        BY <1>2 DEF DeviceTurns, TypeOK, Types
    <2>2. switches' \in Switches
        BY <1>2 DEF DeviceTurns, TypeOK, Types, Switches
    <2>3. turns' \in 0 .. MaxTurns
        BY <1>2, CommandsAssumption DEF DeviceTurns, TypeOK, Types
    <2> QED BY <1>2, <2>1, <2>2, <2>3 DEF DeviceTurns, TypeOK, Types, Line
<1>3. CASE Session
    BY <1>3 DEF Session, TypeOK, Types, Line
<1>4. CASE InstanceRestart
    <2>1. cur' \in Instances
        BY <1>4, CommandsAssumption DEF InstanceRestart, TypeOK, Types, Instances
    <2> QED BY <1>4, <2>1 DEF InstanceRestart, TypeOK, Types, Line
<1>5. CASE UNCHANGED vars
    BY <1>5 DEF vars, TypeOK, Types, Line
<1> QED BY <1>1, <1>2, <1>3, <1>4, <1>5, HandleTypeOK DEF Next

LEMMA InitTypeOK == Init => TypeOK
<1> SUFFICES ASSUME Init PROVE TypeOK
    OBVIOUS
<1>1. 1 \in Instances
    BY CommandsAssumption DEF Instances
<1>2. lock \in [Instances -> Seq(Messages)] /\ \A i \in Instances : lock[i] = <<>>
    BY DEF Init
<1>3. Types
    BY <1>1, <1>2, CommandsAssumption
       DEF Init, Types, Switches, AllOff, Option, Locations
<1>4. Line
    BY <1>2 DEF Init, Line, Locked, Copied
<1> QED BY <1>3, <1>4 DEF TypeOK

(* The types, and the line at the lock: a task works on the device only    *)
(* with the lock of its instance, and gives it back however it ends.       *)
THEOREM TypeCorrect == Spec => []TypeOK
BY InitTypeOK, NextTypeOK, PTL DEF Spec

-----------------------------------------------------------------------------
(* What a task has in its hand.                                            *)

(* The copy that a task will write back is what the device holds, unless   *)
(* somebody outside the lock has changed the device since.                 *)
CopyIsCurrent ==
    \A m \in Messages :
        at[m] \in Copied /\ since[m] \cap {"turn", "settings"} = {}
        => copy[m] = switches

(* A run time that does not fit never gets to be written. *)
FitsWhenWritten ==
    \A m \in Messages : at[m] = "duration" => Representable(request[m].secs)

InHand == CopyIsCurrent /\ FitsWhenWritten /\ DurationInPlace

LEMMA InitInHand == Init => InHand
BY DEF Init, InHand, CopyIsCurrent, FitsWhenWritten, DurationInPlace, Copied

(* What every step of another task, and the world, leaves to a task. *)
Undisturbed(n) ==
    /\ at'[n] = at[n] /\ copy'[n] = copy[n] /\ request' = request
    /\ since[n] \subseteq since'[n]

LEMMA DurationFits ==
    ASSUME TypeOK, InHand, NEW m \in Messages, WriteDuration(m)
    PROVE  \E t \in duration'[request[m].zone] : Seconds(t) = request[m].secs
<1>1. Representable(request[m].secs) /\ request[m].secs \in Nat
    BY CommandsAssumption
       DEF WriteDuration, InHand, FitsWhenWritten, TypeOK, Types
<1>2. Seconds(Parts(request[m].secs)) = request[m].secs
    BY <1>1, DurationKept
<1>3. request[m].zone \in Zones
    BY CommandsAssumption DEF TypeOK, Types
<1>4. duration'[request[m].zone] = {Parts(request[m].secs)}
    BY <1>3 DEF WriteDuration, TypeOK, Types
<1> QED BY <1>2, <1>4

(* A step of one task leaves the others undisturbed: what it changes of    *)
(* the device befalls only tasks of other instances, which are told.       *)
LEMMA OthersUndisturbed ==
    ASSUME TypeOK, NEW m \in Messages, NEW n \in Messages, n # m, Handle(m)
    PROVE  /\ Undisturbed(n)
           /\ at[n] \in Copied =>
                /\ switches' = switches \/ "settings" \in since'[n]
                /\ duration' = duration \/ "duration" \in since'[n]
<1>0. \A l : Goto(m, l) => at'[n] = at[n]
    BY DEF Goto, TypeOK, Types
<1>1. End(m) => at'[n] = at[n] /\ copy'[n] = copy[n] /\ since'[n] = since[n]
    BY <1>0 DEF End, TypeOK, Types
<1>2. GiveUp(m) => at'[n] = at[n] /\ copy'[n] = copy[n] /\ since'[n] = since[n]
    BY <1>0, <1>1 DEF GiveUp
<1>3. CASE FirstPoll(m) \/ Begin(m) \/ PassGate(m) \/ Wait(m)
    BY <1>0, <1>1, <1>3 DEF FirstPoll, Begin, PassGate, Wait, Undisturbed
<1>4. CASE GateTimesOut(m) \/ Fail(m) \/ Respond(m)
    BY <1>1, <1>2, <1>4 DEF GateTimesOut, Fail, Respond, Undisturbed
<1>5. CASE Look(m) \/ ReadStatus(m)
    BY <1>0, <1>5 DEF Look, ReadStatus, Undisturbed
<1>6. CASE ReadSettings(m)
    BY <1>0, <1>6 DEF ReadSettings, Undisturbed, TypeOK, Types
<1>7. ASSUME at[n] \in Copied, at[m] \in Copied PROVE inst[n] # inst[m]
    BY <1>7, OneHolder DEF Locked
<1>8. CASE WriteDuration(m)
    <2>1. since'[n] = IF at[n] \in Copied /\ inst[n] # inst[m]
                      THEN since[n] \cup {"duration"} ELSE since[n]
        BY <1>8 DEF WriteDuration, Befalls
    <2> QED BY <1>0, <1>7, <1>8, <2>1 DEF WriteDuration, Undisturbed, Copied
<1>9. CASE WriteSettings(m)
    <2>1. since'[n] = IF at[n] \in Copied /\ inst[n] # inst[m]
                      THEN since[n] \cup {"settings"} ELSE since[n]
        BY <1>9 DEF WriteSettings, Befalls
    <2> QED BY <1>0, <1>7, <1>9, <2>1 DEF WriteSettings, Undisturbed, Copied
<1> QED BY <1>3, <1>4, <1>5, <1>6, <1>8, <1>9 DEF Handle, Operate

(* What a task has in its hand after a step of its own. *)
LEMMA OwnStep ==
    ASSUME TypeOK, InHand, NEW m \in Messages, Handle(m)
    PROVE  /\ at'[m] \in Copied /\ since'[m] \cap {"turn", "settings"} = {}
              => copy'[m] = switches'
           /\ at'[m] = "duration" => Representable(request'[m].secs)
           /\ at'[m] = "write" /\ request'[m].kind = "start"
              => \E t \in duration'[request'[m].zone] : Seconds(t) = request'[m].secs
<1> USE DEF Copied
<1>0. \A l : Goto(m, l) => at'[m] = l
    BY DEF Goto, TypeOK, Types
<1>1. GiveUp(m) \/ End(m) => at'[m] \in {"done", "respond"}
    BY <1>0 DEF GiveUp, End
<1>2. CASE FirstPoll(m) \/ Begin(m) \/ PassGate(m) \/ Wait(m) \/ Look(m)
    BY <1>0, <1>1, <1>2 DEF FirstPoll, Begin, PassGate, Wait, Look
<1>3. CASE GateTimesOut(m) \/ Fail(m) \/ Respond(m) \/ WriteSettings(m)
    BY <1>0, <1>1, <1>3 DEF GateTimesOut, Fail, Respond, WriteSettings
<1>4. CASE ReadSettings(m)
    BY <1>0, <1>4 DEF ReadSettings, TypeOK, Types
<1>5. CASE ReadStatus(m)
    <2>1. /\ at[m] = "status" /\ UNCHANGED <<request, copy, since, switches>>
          /\ at'[m] = "write" => request[m].kind = "stop"
          /\ at'[m] = "duration" => Representable(request[m].secs)
        BY <1>0, <1>5 DEF ReadStatus
    <2> QED BY <2>1 DEF InHand, CopyIsCurrent
<1>6. CASE WriteDuration(m)
    <2>1. /\ at[m] = "duration" /\ UNCHANGED <<request, copy, switches>>
          /\ at'[m] \in {"write", "respond"}
        BY <1>0, <1>6 DEF WriteDuration
    <2>2. since'[m] = since[m]
        BY <1>6 DEF WriteDuration, Befalls
    <2>3. \E t \in duration'[request[m].zone] : Seconds(t) = request[m].secs
        BY <1>6, DurationFits
    <2> QED BY <2>1, <2>2, <2>3 DEF InHand, CopyIsCurrent
<1> QED BY <1>2, <1>3, <1>4, <1>5, <1>6 DEF Handle, Operate

LEMMA NextInHand == TypeOK /\ InHand /\ [Next]_vars => InHand'
<1> SUFFICES ASSUME TypeOK, InHand, [Next]_vars PROVE InHand'
    OBVIOUS
<1>1. ASSUME NEW m \in Messages, Handle(m) PROVE InHand'
    <2> SUFFICES ASSUME NEW n \in Messages
                 PROVE  /\ at'[n] \in Copied /\ since'[n] \cap {"turn", "settings"} = {}
                           => copy'[n] = switches'
                        /\ at'[n] = "duration" => Representable(request'[n].secs)
                        /\ at'[n] = "write" /\ request'[n].kind = "start"
                              /\ "duration" \notin since'[n]
                           => \E t \in duration'[request'[n].zone] :
                                 Seconds(t) = request'[n].secs
        BY DEF InHand, CopyIsCurrent, FitsWhenWritten, DurationInPlace
    <2>1. CASE n = m
        BY <1>1, <2>1, OwnStep
    <2>2. CASE n # m
        <3>1. /\ Undisturbed(n)
              /\ at[n] \in Copied =>
                   /\ switches' = switches \/ "settings" \in since'[n]
                   /\ duration' = duration \/ "duration" \in since'[n]
            BY <1>1, <2>2, OthersUndisturbed
        <3> QED BY <3>1 DEF Undisturbed, Copied, InHand, CopyIsCurrent,
                            FitsWhenWritten, DurationInPlace
    <2> QED BY <2>1, <2>2
<1>2. ASSUME NEW m \in Messages, Receive(m) PROVE InHand'
    <2>1. /\ \A n \in Messages : at'[n] = IF n = m THEN "spawned" ELSE at[n]
          /\ UNCHANGED <<request, copy, since, switches, duration>>
        BY <1>2 DEF Receive, Goto, TypeOK, Types
    <2> QED BY <2>1 DEF InHand, CopyIsCurrent, FitsWhenWritten,
                        DurationInPlace, Copied
<1>3. ASSUME NEW z \in Zones, DeviceTurns(z) PROVE InHand'
    <2>1. /\ \A n \in Messages : at[n] \in Copied =>
               "turn" \in since'[n] /\ since[n] \subseteq since'[n]
          /\ UNCHANGED <<request, at, copy, duration>>
        BY <1>3 DEF DeviceTurns
    <2> QED BY <2>1 DEF InHand, CopyIsCurrent, FitsWhenWritten,
                        DurationInPlace, Copied
<1>4. CASE Session \/ InstanceRestart \/ UNCHANGED vars
    <2>1. UNCHANGED <<request, at, copy, since, switches, duration>>
        BY <1>4 DEF Session, InstanceRestart, vars
    <2> QED BY <2>1 DEF InHand, CopyIsCurrent, FitsWhenWritten, DurationInPlace
<1> QED BY <1>1, <1>2, <1>3, <1>4 DEF Next

(* The fail-safe: whatever the commands, the faults and the restarts, a    *)
(* start that is about to turn its zone on has programmed the device to    *)
(* stop it after the time that was asked for.                              *)
THEOREM DurationAlwaysInPlace == Spec => []DurationInPlace
<1>1. Init => TypeOK /\ InHand
    BY InitTypeOK, InitInHand
<1>2. (TypeOK /\ InHand) /\ [Next]_vars => (TypeOK /\ InHand)'
    BY NextTypeOK, NextInHand
<1>3. TypeOK /\ InHand => DurationInPlace
    BY DEF InHand
<1> QED BY <1>1, <1>2, <1>3, PTL DEF Spec

(* A command changes the zone it names and no other. *)
THEOREM OtherZonesKept == Spec => OtherZoneKept
<1> DEFINE Kept ==
        \A m \in Messages :
            at[m] = "write" /\ since[m] \cap {"turn", "settings"} = {}
                /\ switches' # switches /\ at'[m] # "write"
            => \A z \in Zones \ {request[m].zone} : switches'[z] = switches[z]
<1>1. TypeOK /\ InHand /\ [Next]_vars => Kept
    <2> SUFFICES ASSUME TypeOK, InHand, [Next]_vars, NEW m \in Messages,
                        at[m] = "write", since[m] \cap {"turn", "settings"} = {},
                        switches' # switches, at'[m] # "write"
                 PROVE  \A z \in Zones \ {request[m].zone} : switches'[z] = switches[z]
        OBVIOUS
    <2>1. copy[m] = switches /\ switches \in Switches
        BY DEF InHand, CopyIsCurrent, Copied, TypeOK, Types
    <2>2. PICK n \in Messages : Handle(n)
        BY DEF Next, Receive, DeviceTurns, Session, InstanceRestart, vars
    <2>3. n = m
        BY <2>2, OthersUndisturbed DEF Undisturbed
    <2>4. WriteSettings(m)
        BY <2>2, <2>3 DEF Handle, Operate, FirstPoll, Begin, PassGate, Wait,
              GateTimesOut, Fail, Look, ReadSettings, ReadStatus, WriteDuration,
              Respond
    <2> QED BY <2>1, <2>4 DEF WriteSettings, Switches
<1>2. Init => TypeOK /\ InHand
    BY InitTypeOK, InitInHand
<1>3. (TypeOK /\ InHand) /\ [Next]_vars => (TypeOK /\ InHand)'
    BY NextTypeOK, NextInHand
<1>4. Spec => [](TypeOK /\ InHand)
    BY <1>2, <1>3, PTL DEF Spec
<1>5. Spec => [][Kept]_vars
    BY <1>1, <1>4, PTL DEF Spec
<1> QED BY <1>5 DEF OtherZoneKept

-----------------------------------------------------------------------------
(* The last to queue wins.                                                 *)

Toggles(n, z) == request[n].kind \in {"start", "stop"} /\ request[n].zone = z

Before(n, m) ==
    \E k, l \in DOMAIN lock[1] : k < l /\ lock[1][k] = n /\ lock[1][l] = m

(* While the first instance runs, all tasks are its own, and without a     *)
(* turn of the device nothing befalls their copies.                        *)
Calm ==
    cur = 1 =>
        \A m \in Messages :
            /\ inst[m] = 1
            /\ turns = 0 => since[m] \cap {"turn", "settings"} = {}

(* Only starts and stops get to work on the settings. *)
KindAtWork ==
    \A m \in Messages :
        /\ at[m] = "queued" => request[m].kind # "garbled"
        /\ at[m] = "duration" => request[m].kind = "start"
        /\ at[m] \in {"gate", "waiting", "settings"} \cup Copied
           => request[m].kind \in {"start", "stop", "status"}
        /\ at[m] \in {"settings"} \cup Copied => request[m].kind # "status"

(* The last to queue for a zone has queued, behind every other that still  *)
(* is in line for that zone.                                               *)
LastInLine ==
    /\ \A z \in Zones : \A m \in last[z] :
         Toggles(m, z) /\ at[m] \notin {"coming", "spawned"}
    /\ cur = 1 =>
         \A z \in Zones : \A m \in last[z] : \A n \in Messages \ {m} :
             Toggles(n, z) /\ at[n] \in Locked \cup {"queued"}
             => at[m] = "queued" /\ Before(n, m)

(* A success is one of a task that wrote, and if it is the last to queue   *)
(* its zone is as it said.                                                 *)
Winner ==
    /\ \A m \in Messages : ok[m] => at[m] \in {"respond", "done"}
    /\ cur = 1 /\ turns = 0 =>
         \A z \in Zones : \A m \in last[z] :
             ok[m] => switches[z] = (request[m].kind = "start")

Order == Calm /\ KindAtWork /\ LastInLine /\ Winner

LEMMA InitOrder == Init => Order
BY DEF Init, Order, Calm, KindAtWork, LastInLine, Winner, Locked, Copied

(* Where a step of a task may take it from where it is. *)
LEMMA OwnPlace ==
    ASSUME TypeOK, NEW m \in Messages, Handle(m)
    PROVE  /\ at[m] \in {"spawned", "queued"} \cup Locked
           /\ at'[m] \in {"queued", "done"} \cup Locked
           /\ \A n \in Messages \ {m} : at'[n] = at[n]
           /\ UNCHANGED <<request, inst, cur, turns>>
<1>0. \A l : Goto(m, l) => at'[m] = l
    BY DEF Goto, TypeOK, Types
<1>1. GiveUp(m) \/ End(m) => at'[m] \in {"done", "respond"}
    BY <1>0 DEF GiveUp, End
<1>2. \A n \in Messages \ {m} : at'[n] = at[n]
    BY OthersUndisturbed DEF Undisturbed
<1> USE DEF Locked, Copied
<1>3. CASE FirstPoll(m) \/ Begin(m) \/ PassGate(m) \/ Wait(m) \/ Look(m)
    BY <1>0, <1>1, <1>2, <1>3
       DEF FirstPoll, Begin, Acquires, PassGate, Wait, Look
<1>4. CASE GateTimesOut(m) \/ Fail(m) \/ Respond(m) \/ WriteSettings(m)
    BY <1>0, <1>1, <1>2, <1>4 DEF GateTimesOut, Fail, Respond, WriteSettings
<1>5. CASE ReadSettings(m) \/ ReadStatus(m) \/ WriteDuration(m)
    BY <1>0, <1>2, <1>5 DEF ReadSettings, ReadStatus, WriteDuration
<1> QED BY <1>3, <1>4, <1>5 DEF Handle, Operate

LEMMA NextCalm == TypeOK /\ Calm /\ [Next]_vars => Calm'
<1> SUFFICES ASSUME TypeOK, Calm, [Next]_vars, cur' = 1, NEW m \in Messages
             PROVE  /\ inst'[m] = 1
                    /\ turns' = 0 => since'[m] \cap {"turn", "settings"} = {}
    BY DEF Calm
<1>1. ASSUME NEW n \in Messages, Handle(n)
      PROVE  /\ inst'[m] = 1
             /\ turns' = 0 => since'[m] \cap {"turn", "settings"} = {}
    <2>1. cur = 1 /\ UNCHANGED <<inst, turns>> /\ \A o \in Messages : inst[o] = 1
        BY <1>1, OwnPlace DEF Calm
    <2>2. CASE WriteDuration(n) \/ WriteSettings(n)
        BY <2>1, <2>2 DEF WriteDuration, WriteSettings, Befalls, Calm
    <2>3. CASE since' = [since EXCEPT ![n] = {}] \/ UNCHANGED since
        BY <2>1, <2>3 DEF Calm, TypeOK, Types
    <2>4. \/ WriteDuration(n) \/ WriteSettings(n)
          \/ since' = [since EXCEPT ![n] = {}] \/ UNCHANGED since
        BY <1>1 DEF Handle, Operate, FirstPoll, Begin, PassGate, Wait, GateTimesOut,
           Fail, GiveUp, End, Look, ReadSettings, ReadStatus, Respond
    <2> QED BY <2>1, <2>2, <2>3, <2>4
<1>2. ASSUME NEW n \in Messages, Receive(n)
      PROVE  /\ inst'[m] = 1
             /\ turns' = 0 => since'[m] \cap {"turn", "settings"} = {}
    BY <1>2 DEF Receive, Calm, TypeOK, Types
<1>3. ASSUME NEW z \in Zones, DeviceTurns(z)
      PROVE  inst'[m] = 1 /\ turns' # 0
    BY <1>3, CommandsAssumption DEF DeviceTurns, Calm, TypeOK, Types
<1>4. ~InstanceRestart
    BY DEF InstanceRestart, TypeOK, Types, Instances
<1>5. CASE Session \/ UNCHANGED vars
    BY <1>5 DEF Session, vars, Calm
<1> QED BY <1>1, <1>2, <1>3, <1>4, <1>5 DEF Next

LEMMA NextKind == TypeOK /\ KindAtWork /\ [Next]_vars => KindAtWork'
<1> SUFFICES ASSUME TypeOK, KindAtWork, [Next]_vars PROVE KindAtWork'
    OBVIOUS
<1> USE DEF Copied
<1>1. ASSUME NEW m \in Messages, Handle(m) PROVE KindAtWork'
    <2>0. \A l : Goto(m, l) => at'[m] = l
        BY DEF Goto, TypeOK, Types
    <2>1. GiveUp(m) \/ End(m) => at'[m] \in {"done", "respond"}
        BY <2>0 DEF GiveUp, End
    <2>2. request[m].kind \in Kinds
        BY CommandsAssumption DEF TypeOK, Types
    <2>3. /\ at'[m] = "queued" => request[m].kind # "garbled"
          /\ at'[m] = "duration" => request[m].kind = "start"
          /\ at'[m] \in {"gate", "waiting", "settings"} \cup Copied
             => request[m].kind \in {"start", "stop", "status"}
          /\ at'[m] \in {"settings"} \cup Copied => request[m].kind # "status"
        <3>1. CASE FirstPoll(m) \/ Begin(m)
            BY <2>0, <2>1, <2>2, <3>1
               DEF FirstPoll, Begin, Acquires, KindAtWork, Kinds
        <3>2. CASE PassGate(m) \/ Wait(m) \/ Look(m)
            BY <2>0, <3>2 DEF PassGate, Wait, Look, KindAtWork
        <3>3. CASE GateTimesOut(m) \/ Fail(m) \/ Respond(m) \/ WriteSettings(m)
            BY <2>0, <2>1, <3>3 DEF GateTimesOut, Fail, Respond, WriteSettings
        <3>4. CASE ReadSettings(m) \/ ReadStatus(m) \/ WriteDuration(m)
            BY <2>0, <3>4 DEF ReadSettings, ReadStatus, WriteDuration, KindAtWork
        <3> QED BY <1>1, <3>1, <3>2, <3>3, <3>4 DEF Handle, Operate
    <2> QED BY <1>1, <2>3, OwnPlace DEF KindAtWork
<1>2. ASSUME NEW m \in Messages, Receive(m) PROVE KindAtWork'
    BY <1>2 DEF Receive, Goto, KindAtWork, TypeOK, Types
<1>3. CASE (\E z \in Zones : DeviceTurns(z)) \/ Session \/ InstanceRestart
           \/ UNCHANGED vars
    <2>1. UNCHANGED <<request, at>>
        BY <1>3 DEF DeviceTurns, Session, InstanceRestart, vars
    <2> QED BY <2>1 DEF KindAtWork
<1> QED BY <1>1, <1>2, <1>3 DEF Next

(* The line moves up: who was before another is so still. *)
LEMMA BeforeInTail ==
    ASSUME lock[1] \in Seq(Messages), lock[1] # <<>>,
           lock'[1] = Tail(lock[1]),
           NEW n \in Messages, NEW m \in Messages, n # Head(lock[1]), Before(n, m)
    PROVE  Before(n, m)'
<1>1. PICK k, l \in DOMAIN lock[1] : k < l /\ lock[1][k] = n /\ lock[1][l] = m
    BY DEF Before
<1>2. k \in Nat \ {0, 1} /\ l \in Nat \ {0, 1}
    BY <1>1
<1>3. /\ k - 1 \in DOMAIN lock'[1] /\ lock'[1][k - 1] = n
      /\ l - 1 \in DOMAIN lock'[1] /\ lock'[1][l - 1] = m
    BY <1>1, <1>2
<1>4. k - 1 < l - 1
    BY <1>1, <1>2
<1> QED BY <1>3, <1>4 DEF Before

(* Joining the line puts nobody before anybody in it. *)
LEMMA BeforeInAppend ==
    ASSUME lock[1] \in Seq(Messages), NEW p \in Messages,
           lock'[1] = Append(lock[1], p),
           NEW n \in Messages, NEW m \in Messages, Before(n, m)
    PROVE  Before(n, m)'
<1>1. PICK k, l \in DOMAIN lock[1] : k < l /\ lock[1][k] = n /\ lock[1][l] = m
    BY DEF Before
<1>2. /\ k \in DOMAIN lock'[1] /\ lock'[1][k] = n
      /\ l \in DOMAIN lock'[1] /\ lock'[1][l] = m
    BY <1>1
<1> QED BY <1>1, <1>2 DEF Before

LEMMA NewIsBehind ==
    ASSUME lock[1] \in Seq(Messages), NEW p \in Messages,
           lock'[1] = Append(lock[1], p),
           NEW n \in Messages, \E k \in DOMAIN lock[1] : lock[1][k] = n
    PROVE  Before(n, p)'
<1>1. PICK k \in DOMAIN lock[1] : lock[1][k] = n
    OBVIOUS
<1>2. k \in DOMAIN lock'[1] /\ lock'[1][k] = n
    BY <1>1
<1> DEFINE l == Len(lock[1]) + 1
<1>3. l \in DOMAIN lock'[1] /\ lock'[1][l] = p /\ k < l
    BY <1>1
<1> QED BY <1>2, <1>3 DEF Before

(* Nobody is before who may take the lock. *)
LEMMA FirstHasNoneBefore ==
    ASSUME TypeOK, 1 \in Instances, NEW m \in Messages, NEW n \in Messages,
           lock[1] # <<>>, m = Head(lock[1])
    PROVE  ~Before(n, m)
<1>1. lock[1] \in Seq(Messages)
    BY DEF TypeOK, Types
<1>2. lock[1][1] = m /\ 1 \in DOMAIN lock[1]
    BY <1>1
<1>3. \A l \in DOMAIN lock[1] : lock[1][l] = m => l = 1
    BY <1>2 DEF TypeOK, Line
<1> QED BY <1>1, <1>3 DEF Before

(* A step of p after its first poll, with the first instance running.      *)
LEMMA LineMoves ==
    ASSUME TypeOK, Calm, NEW p \in Messages, cur = 1, Handle(p), ~FirstPoll(p)
    PROVE  /\ UNCHANGED last
           /\ lock[1] \in Seq(Messages) /\ lock[1] # <<>> /\ p = Head(lock[1])
           /\ \/ at'[p] \in Locked /\ UNCHANGED lock
              \/ at'[p] = "done" /\ lock'[1] = Tail(lock[1])
           /\ at[p] \in Locked \/ Acquires(p)
<1>0. inst[p] = 1 /\ lock \in [Instances -> Seq(Messages)] /\ 1 \in Instances
    BY CommandsAssumption DEF Calm, TypeOK, Types, Instances
<1>1. \A l : Goto(p, l) => at'[p] = l
    BY DEF Goto, TypeOK, Types
<1>2. End(p) => at'[p] = "done" /\ lock'[1] = Tail(lock[1])
    BY <1>0, <1>1 DEF End
<1>3. at[p] \in Locked \/ Acquires(p)
    BY DEF Handle, Operate, FirstPoll, Begin, PassGate, Wait, GateTimesOut, Fail,
       Look, ReadSettings, ReadStatus, WriteDuration, WriteSettings, Respond,
       Locked, Copied
<1>4. lock[1] \in Seq(Messages) /\ lock[1] # <<>> /\ p = Head(lock[1])
    <2>1. CASE at[p] \in Locked
        BY <1>0, <2>1, FirstInLine
    <2>2. CASE Acquires(p)
        <3>1. PICK k \in DOMAIN lock[1] : lock[1][k] = p
            BY <1>0, <2>2 DEF Acquires, TypeOK, Line
        <3> QED BY <1>0, <2>2, <3>1 DEF Acquires
    <2> QED BY <1>3, <2>1, <2>2
<1>5. /\ UNCHANGED last
      /\ \/ at'[p] \in Locked /\ UNCHANGED lock
         \/ at'[p] = "done" /\ lock'[1] = Tail(lock[1])
    BY <1>1, <1>2
       DEF Handle, Operate, Begin, PassGate, Wait, GateTimesOut, Fail, GiveUp,
           Look, ReadSettings, ReadStatus, WriteDuration, WriteSettings, Respond,
           Locked, Copied
<1> QED BY <1>3, <1>4, <1>5

LEMMA HandleLastInLine ==
    ASSUME TypeOK, Order, NEW p \in Messages, Handle(p)
    PROVE  LastInLine'
<1> USE DEF Locked, Copied
<1>p. /\ at[p] \in {"spawned", "queued"} \cup Locked
      /\ at'[p] \in {"queued", "done"} \cup Locked
      /\ \A n \in Messages \ {p} : at'[n] = at[n]
      /\ UNCHANGED <<request, inst, cur, turns>>
    BY OwnPlace
<1>t. \A z \in Zones : last[z] \subseteq Messages
    BY DEF TypeOK, Types, Option
<1>1. CASE FirstPoll(p)
    <2>0. at[p] = "spawned"
        BY <1>1 DEF FirstPoll
    <2>1. \A z \in Zones : p \notin last[z]
        BY <2>0 DEF Order, LastInLine
    <2>2. CASE request[p].kind = "garbled"
        <3>1. UNCHANGED <<lock, last>> /\ at'[p] = "done"
            BY <1>1, <2>2 DEF FirstPoll, Goto, TypeOK, Types
        <3> QED BY <1>p, <1>t, <2>0, <2>1, <3>1
                DEF Order, LastInLine, Toggles, Before
    <2>3. CASE request[p].kind # "garbled"
        <3>1. at'[p] = "queued"
            BY <1>1, <2>3 DEF FirstPoll, Goto, TypeOK, Types
        <3>2. \A z \in Zones : last'[z] = IF Toggles(p, z) THEN {p} ELSE last[z]
            BY <1>1, <2>3 DEF FirstPoll, Toggles, TypeOK, Types
        <3>3. ASSUME NEW z \in Zones, NEW m \in last'[z]
              PROVE  Toggles(m, z)' /\ at'[m] \notin {"coming", "spawned"}
            BY <1>p, <1>t, <3>1, <3>2, <3>3 DEF Order, LastInLine, Toggles
        <3>4. ASSUME cur' = 1, NEW z \in Zones, NEW m \in last'[z],
                     NEW n \in Messages \ {m}, Toggles(n, z)',
                     at'[n] \in Locked \cup {"queued"}
              PROVE  at'[m] = "queued" /\ Before(n, m)'
            <4>1. /\ 1 \in Instances /\ lock[1] \in Seq(Messages)
                  /\ inst[p] = 1 /\ inst[n] = 1 /\ cur = 1
                BY <1>p, <3>4, CommandsAssumption
                   DEF Order, Calm, TypeOK, Types, Instances
            <4>2. lock'[1] = Append(lock[1], p)
                BY <1>1, <2>3, <4>1 DEF FirstPoll, TypeOK, Types
            <4>3. CASE Toggles(p, z)
                <5>1. m = p /\ n # p
                    BY <3>2, <3>4, <4>3
                <5>2. at[n] \in Locked \cup {"queued"}
                    BY <1>p, <3>4, <5>1
                <5>3. \E k \in DOMAIN lock[1] : lock[1][k] = n
                    BY <4>1, <5>2 DEF TypeOK, Line
                <5> QED BY <3>1, <4>1, <4>2, <5>1, <5>3, NewIsBehind
            <4>4. CASE ~Toggles(p, z)
                <5>1. m \in last[z] /\ m \in Messages /\ m # p /\ n # p /\ Toggles(n, z)
                    BY <1>p, <1>t, <2>1, <3>2, <3>4, <4>4 DEF Toggles
                <5>2. at[n] \in Locked \cup {"queued"}
                    BY <1>p, <3>4, <5>1
                <5>3. at[m] = "queued" /\ Before(n, m)
                    BY <3>4, <4>1, <5>1, <5>2 DEF Order, LastInLine
                <5>4. Before(n, m)'
                    BY <4>1, <4>2, <5>1, <5>3, BeforeInAppend
                <5> QED BY <1>p, <5>1, <5>3, <5>4
            <4> QED BY <4>3, <4>4
        <3> QED BY <3>3, <3>4 DEF LastInLine
    <2> QED BY <2>2, <2>3
<1>2. CASE ~FirstPoll(p) 
    <2>1. UNCHANGED last /\ (at[p] \in Locked \/ Acquires(p))
        BY <1>2 DEF Handle, Operate, Begin, PassGate, Wait, GateTimesOut, Fail,
           GiveUp, End, Look, ReadSettings, ReadStatus, WriteDuration,
           WriteSettings, Respond
    <2>2. ASSUME NEW z \in Zones, NEW m \in last[z]
          PROVE  Toggles(m, z)' /\ at'[m] \notin {"coming", "spawned"}
        BY <1>p, <1>t, <2>2 DEF Order, LastInLine, Toggles
    <2>3. ASSUME cur' = 1, NEW z \in Zones, NEW m \in last[z],
                 NEW n \in Messages \ {m}, Toggles(n, z)',
                 at'[n] \in Locked \cup {"queued"}
          PROVE  at'[m] = "queued" /\ Before(n, m)'
        <3>1. /\ cur = 1 /\ 1 \in Instances /\ m \in Messages /\ Toggles(n, z)
            BY <1>p, <1>t, <2>3, CommandsAssumption DEF Toggles, Instances
        <3>2. /\ lock[1] \in Seq(Messages) /\ lock[1] # <<>> /\ p = Head(lock[1])
              /\ \/ at'[p] \in Locked /\ UNCHANGED lock
                 \/ at'[p] = "done" /\ lock'[1] = Tail(lock[1])
            BY <1>2, <3>1, LineMoves DEF Order
        <3>3. at[n] \in Locked \cup {"queued"}
            BY <1>p, <2>1, <2>3 DEF Acquires
        <3>4. at[m] = "queued" /\ Before(n, m)
            BY <2>3, <3>1, <3>3 DEF Order, LastInLine
        <3>5. m # p
            BY <3>1, <3>2, <3>4, FirstHasNoneBefore
        <3>6. Before(n, m)'
            <4>1. CASE UNCHANGED lock
                BY <3>4, <4>1 DEF Before
            <4>2. CASE at'[p] = "done" /\ lock'[1] = Tail(lock[1])
                <5>1. n # p
                    BY <2>3, <4>2
                <5> QED BY <3>1, <3>2, <3>4, <4>2, <5>1, BeforeInTail
            <4> QED BY <3>2, <4>1, <4>2
        <3> QED BY <1>p, <3>1, <3>4, <3>5, <3>6
    <2> QED BY <2>1, <2>2, <2>3 DEF LastInLine
<1> QED BY <1>1, <1>2

LEMMA HandleWinner ==
    ASSUME TypeOK, InHand, Order, NEW p \in Messages, Handle(p)
    PROVE  Winner'
<1> USE DEF Locked, Copied
<1>p. /\ at'[p] \in {"queued", "done"} \cup Locked
      /\ \A n \in Messages \ {p} : at'[n] = at[n]
      /\ UNCHANGED <<request, inst, cur, turns>>
    BY OwnPlace
<1>t. \A z \in Zones : last[z] \subseteq Messages
    BY DEF TypeOK, Types, Option
<1>1. CASE WriteSettings(p)
    <2>1. /\ at[p] = "write" /\ at'[p] = "respond" /\ UNCHANGED last
          /\ \A n \in Messages \ {p} : ok'[n] = ok[n]
          /\ \A z \in Zones : switches'[z] = IF z = request[p].zone
                                             THEN request[p].kind = "start"
                                             ELSE copy[p][z]
        BY <1>1 DEF WriteSettings, Goto, TypeOK, Types, Switches
    <2>2. request[p].kind \in {"start", "stop"}
        BY <2>1 DEF Order, KindAtWork
    <2>3. ASSUME cur' = 1, turns' = 0, NEW z \in Zones, NEW m \in last[z], ok'[m]
          PROVE  switches'[z] = (request[m].kind = "start")
        <3>1. cur = 1 /\ turns = 0 /\ m \in Messages /\ Toggles(m, z)
            BY <1>p, <1>t, <2>3 DEF Order, LastInLine
        <3>2. CASE m = p
            BY <2>1, <3>1, <3>2 DEF Toggles
        <3>3. CASE m # p
            <4>1. ok[m] /\ at[m] \in {"respond", "done"}
                BY <2>1, <2>3, <3>1, <3>3 DEF Order, Winner
            <4>2. ~Toggles(p, z)
                BY <2>1, <3>1, <3>3, <4>1 DEF Order, LastInLine
            <4>3. z # request[p].zone
                BY <2>2, <4>2 DEF Toggles
            <4>4. copy[p] = switches
                BY <2>1, <3>1 DEF Order, Calm, InHand, CopyIsCurrent
            <4> QED BY <2>1, <2>3, <3>1, <4>1, <4>3, <4>4 DEF Order, Winner
        <3> QED BY <3>2, <3>3
    <2>4. \A m \in Messages : ok'[m] => at'[m] \in {"respond", "done"}
        BY <1>p, <2>1 DEF Order, Winner
    <2> QED BY <1>p, <2>1, <2>3, <2>4 DEF Winner
<1>2. CASE ~WriteSettings(p)
    <2>1. UNCHANGED <<ok, switches>>
        BY <1>2 DEF Handle, Operate, FirstPoll, Begin, PassGate, Wait, GateTimesOut,
           Fail, Look, ReadSettings, ReadStatus, WriteDuration, Respond
    <2>2. at[p] = "respond" => at'[p] = "done"
        BY <1>2 DEF Handle, Operate, FirstPoll, Begin, Acquires, PassGate, Wait,
           GateTimesOut, Fail, Look, ReadSettings, ReadStatus, WriteDuration,
           Respond, End, Goto, TypeOK, Types
    <2>3. at[p] # "done"
        BY OwnPlace
    <2>4. \A m \in Messages : ok'[m] => at'[m] \in {"respond", "done"}
        BY <1>p, <2>1, <2>2, <2>3 DEF Order, Winner
    <2>5. \A z \in Zones : \A m \in last'[z] : ok[m] => m \in last[z]
        <3>1. CASE FirstPoll(p)
            <4>1. ~ok[p]
                BY <3>1 DEF FirstPoll, Order, Winner
            <4>2. \A z \in Zones : last'[z] \subseteq last[z] \cup {p}
                BY <3>1 DEF FirstPoll, TypeOK, Types
            <4> QED BY <4>1, <4>2
        <3>2. CASE ~FirstPoll(p)
            BY <1>2, <3>2 DEF Handle, Operate, Begin, PassGate, Wait, GateTimesOut,
               Fail, Look, ReadSettings, ReadStatus, WriteDuration, Respond
        <3> QED BY <3>1, <3>2
    <2> QED BY <1>p, <2>1, <2>4, <2>5 DEF Order, Winner
<1> QED BY <1>1, <1>2

LEMMA NextOrder == TypeOK /\ InHand /\ Order /\ [Next]_vars => Order'
<1> SUFFICES ASSUME TypeOK, InHand, Order, [Next]_vars PROVE Order'
    OBVIOUS
<1>1. Calm' /\ KindAtWork'
    BY NextCalm, NextKind DEF Order
<1>2. ASSUME NEW m \in Messages, Handle(m) PROVE LastInLine' /\ Winner'
    BY <1>2, HandleLastInLine, HandleWinner
<1>3. ASSUME NEW m \in Messages, Receive(m) PROVE LastInLine' /\ Winner'
    <2>1. /\ at[m] = "coming" /\ at'[m] = "spawned"
          /\ \A n \in Messages \ {m} : at'[n] = at[n]
          /\ UNCHANGED <<request, ok, lock, cur, switches, turns, last>>
        BY <1>3 DEF Receive, Goto, TypeOK, Types
    <2>2. \A z \in Zones : last[z] \subseteq Messages
        BY DEF TypeOK, Types, Option
    <2>3. \A z \in Zones : m \notin last[z]
        BY <2>1 DEF Order, LastInLine
    <2>4. LastInLine'
        BY <2>1, <2>2, <2>3
           DEF Order, LastInLine, Toggles, Before, Locked, Copied
    <2>5. Winner'
        BY <2>1, <2>2, <2>3 DEF Order, Winner
    <2> QED BY <2>4, <2>5
<1>4. ASSUME NEW z \in Zones, DeviceTurns(z) PROVE LastInLine' /\ Winner'
    <2>1. UNCHANGED <<request, at, ok, lock, cur, last>> /\ turns' # 0
        BY <1>4, CommandsAssumption DEF DeviceTurns, TypeOK, Types
    <2> QED BY <2>1 DEF Order, LastInLine, Winner, Toggles, Before
<1>5. ASSUME Session \/ InstanceRestart \/ UNCHANGED vars
      PROVE  LastInLine' /\ Winner'
    <2>1. UNCHANGED <<request, at, ok, lock, switches, turns, last>>
        BY <1>5 DEF Session, InstanceRestart, vars
    <2>2. cur' = 1 => cur = 1
        BY <1>5 DEF Session, InstanceRestart, vars, TypeOK, Types, Instances
    <2> QED BY <2>1, <2>2 DEF Order, LastInLine, Winner, Toggles, Before
<1> QED BY <1>1, <1>2, <1>3, <1>4, <1>5 DEF Next, Order

(* The last to queue wins, for any number of commands and whatever fails,  *)
(* while the first instance runs and the device does nothing by itself.    *)
THEOREM LastQueuedAlwaysWins == Spec => []LastQueuedWins
<1>1. Init => TypeOK /\ InHand /\ Order
    BY InitTypeOK, InitInHand, InitOrder
<1>2. (TypeOK /\ InHand /\ Order) /\ [Next]_vars => (TypeOK /\ InHand /\ Order)'
    BY NextTypeOK, NextInHand, NextOrder
<1>3. TypeOK /\ InHand /\ Order => LastQueuedWins
    BY DEF Order, Winner, LastQueuedWins
<1> QED BY <1>1, <1>2, <1>3, PTL DEF Spec
-----------------------------------------------------------------------------
(* The instances implement the server.                                     *)

(* The overtaken and the stale of the server. *)
StaleSet == {m \in Messages : since[m] \cap {"turn", "settings"} # {}}
OvertakenSet == {m \in Messages : "duration" \in since[m]}

(* The run times in seconds. *)
InSeconds == [z \in Zones |-> {Seconds(t) : t \in duration[z]}]

(* A task that goes somewhere enters the phase of that place. *)
LEMMA PhaseMoves ==
    ASSUME TypeOK, NEW m \in Messages, NEW l, Goto(m, l)
    PROVE  Server!Enter(m, Phase(l))
BY DEF Server!Enter, Goto, TypeOK, Types

(* Who works on the device is who has read it. *)
LEMMA PhaseOfPlace ==
    ASSUME TypeOK, NEW m \in Messages
    PROVE  /\ at[m] \in {"coming", "spawned"} => Phase(at[m]) = "away"
           /\ at[m] \in {"queued", "gate", "waiting", "look", "settings"}
              => Phase(at[m]) = "waiting"
           /\ at[m] \in Copied <=> Phase(at[m]) = "working"
           /\ at[m] = "respond" => Phase(at[m]) = "served"
BY DEF Phase, Copied, TypeOK, Types, Locations, Locked

(* Who is past the lock, or takes it, is first. *)
LEMMA IsFirst ==
    ASSUME TypeOK, NEW m \in Messages, at[m] \in Locked \/ Acquires(m)
    PROVE  inst[m] \in Instances /\ Server!FirstOf(inst[m], m)
<1>1. inst[m] \in Instances
    BY DEF TypeOK, Types
<1>2. CASE at[m] \in Locked
    BY <1>1, <1>2, FirstInLine DEF Server!FirstOf
<1>3. CASE Acquires(m)
    <2>1. PICK k \in DOMAIN lock[inst[m]] : lock[inst[m]][k] = m
        BY <1>3 DEF Acquires, TypeOK, Line
    <2>2. lock[inst[m]] # <<>>
        BY <2>1
    <2> QED BY <1>1, <1>3, <2>2 DEF Acquires, Server!FirstOf
<1> QED BY <1>2, <1>3

(* A task that ends leaves the line and its memory. *)
LEMMA EndLeaves ==
    ASSUME TypeOK, NEW m \in Messages, at[m] \in Locked \/ Acquires(m), End(m),
           UNCHANGED <<request, ok, switches, duration>>,
           \/ UNCHANGED answered
           \/ /\ at[m] = "respond"
              /\ \E told \in BOOLEAN : answered' = [answered EXCEPT ![m] = told]
    PROVE  Server!Leave(m)
<1>1. Server!Enter(m, "gone")
    BY PhaseMoves DEF End, Phase, Copied
<1>2. Phase(at[m]) \in {"waiting", "working", "served"}
    BY PhaseOfPlace DEF Locked, Acquires
<1>3. \E i \in Instances :
          Server!FirstOf(i, m) /\ lock' = [lock EXCEPT ![i] = Tail(@)]
    BY IsFirst DEF End
<1>4. StaleSet' = StaleSet \ {m} /\ OvertakenSet' = OvertakenSet \ {m}
    BY DEF End, StaleSet, OvertakenSet, TypeOK, Types
<1>5. at[m] = "respond" => Phase(at[m]) = "served"
    BY PhaseOfPlace
<1> QED BY <1>1, <1>2, <1>3, <1>4, <1>5
        DEF Server!Leave, StaleSet, OvertakenSet

(* A task past the lock that goes on to its response without an effect. *)
LEMMA RespondConcludes ==
    ASSUME TypeOK, NEW m \in Messages, at[m] \in Locked \/ Acquires(m),
           at[m] # "respond", Goto(m, "respond"),
           UNCHANGED <<request, lock, since, switches, duration, ok, answered>>
    PROVE  Server!Conclude(m)
<1>1. Server!Enter(m, "served")
    BY PhaseMoves DEF Phase, Copied
<1>2. Phase(at[m]) \in {"waiting", "working"}
    BY PhaseOfPlace DEF Locked, Acquires
<1>3. Server!First(m)
    BY IsFirst DEF Server!First
<1> QED BY <1>1, <1>2, <1>3 DEF Server!Conclude

LEMMA GiveUpServes ==
    ASSUME TypeOK, NEW m \in Messages, at[m] \in Locked, at[m] # "respond",
           GiveUp(m),
           UNCHANGED <<request, switches, duration, ok, answered>>
    PROVE  Server!Serve(m)
<1>1. CASE End(m)
    BY <1>1, EndLeaves DEF Server!Serve
<1>2. CASE Goto(m, "respond") /\ UNCHANGED <<lock, copy, since>>
    BY <1>2, RespondConcludes DEF Server!Serve
<1> QED BY <1>1, <1>2 DEF GiveUp

(* A task that stays in its phase does nothing to the server. *)
LEMMA SamePhase ==
    ASSUME TypeOK, NEW m \in Messages, NEW l, Goto(m, l), Phase(l) = Phase(at[m]),
           UNCHANGED <<request, lock, since, switches, duration, ok, answered>>
    PROVE  UNCHANGED Server!vars
<1>1. [n \in Messages |-> Phase(at'[n])] = [n \in Messages |-> Phase(at[n])]
    BY DEF Goto, TypeOK, Types
<1> QED BY <1>1 DEF Server!vars

(* What one task does to the device is known to be news to all the others  *)
(* that have read it: these are of other instances.                        *)
LEMMA BefallsOthers ==
    ASSUME TypeOK, NEW m \in Messages, at[m] \in Copied,
           NEW what \in {"settings", "duration"}, Befalls(what, m)
    PROVE  /\ what = "settings" =>
                /\ StaleSet' = StaleSet \cup (Server!Working \ {m})
                /\ OvertakenSet' = OvertakenSet
           /\ what = "duration" =>
                /\ StaleSet' = StaleSet
                /\ OvertakenSet' = OvertakenSet \cup (Server!Working \ {m})
<1>1. Server!Working = {n \in Messages : at[n] \in Copied}
    BY PhaseOfPlace DEF Server!Working
<1>2. \A n \in Messages :
          at[n] \in Copied /\ inst[n] # inst[m] <=> n \in Server!Working \ {m}
    BY <1>1, OneHolder DEF Locked
<1>3. since' = [n \in Messages |-> IF n \in Server!Working \ {m}
                                   THEN since[n] \cup {what} ELSE since[n]]
    BY <1>2 DEF Befalls
<1>4. \A n \in Messages :
          since'[n] = IF n \in Server!Working \ {m}
                      THEN since[n] \cup {what} ELSE since[n]
    BY <1>3
<1>5. Server!Working \ {m} \subseteq Messages
    BY <1>1
<1>6. CASE what = "settings"
    <2>1. \A S : /\ (S \cup {what}) \cap {"turn", "settings"} # {}
                 /\ "duration" \in S \cup {what} <=> "duration" \in S
        BY <1>6
    <2>2. \A n \in Messages :
              /\ n \in StaleSet' <=> n \in StaleSet \cup (Server!Working \ {m})
              /\ n \in OvertakenSet' <=> n \in OvertakenSet
        BY <1>4, <2>1 DEF StaleSet, OvertakenSet
    <2> QED BY <1>5, <1>6, <2>2 DEF StaleSet, OvertakenSet
<1>7. CASE what = "duration"
    <2>1. \A n \in Messages :
              /\ n \in StaleSet' <=> n \in StaleSet
              /\ n \in OvertakenSet' <=> n \in OvertakenSet \cup (Server!Working \ {m})
        BY <1>4, <1>7 DEF StaleSet, OvertakenSet
    <2> QED BY <1>5, <1>7, <2>1 DEF StaleSet, OvertakenSet
<1> QED BY <1>6, <1>7

(* A task that reads the device starts to work on it. *)
LEMMA ReadServes ==
    ASSUME TypeOK, NEW m \in Messages, ReadSettings(m)
    PROVE  Server!Read(m)
<1>1. at[m] \in Locked /\ Phase(at[m]) = "waiting"
    BY PhaseOfPlace DEF ReadSettings, Locked
<1>2. Server!Enter(m, "working")
    BY PhaseMoves DEF ReadSettings, Phase, Copied
<1>3. StaleSet' = StaleSet \ {m} /\ OvertakenSet' = OvertakenSet \ {m}
    BY DEF ReadSettings, StaleSet, OvertakenSet, TypeOK, Types
<1>4. Server!First(m)
    BY <1>1, IsFirst DEF Server!First
<1> QED BY <1>1, <1>2, <1>3, <1>4
        DEF ReadSettings, Server!Read, StaleSet, OvertakenSet

(* The run time that is written is the one that was asked for, in seconds. *)
LEMMA DurationServes ==
    ASSUME TypeOK, InHand, KindAtWork, NEW m \in Messages, WriteDuration(m)
    PROVE  Server!Program(m)
<1>1. at[m] \in Copied /\ at[m] \in Locked /\ Phase(at[m]) = "working"
    BY PhaseOfPlace DEF WriteDuration, Locked, Copied
<1>2. Server!First(m)
    BY <1>1, IsFirst DEF Server!First
<1>3. InSeconds' = [InSeconds EXCEPT ![request[m].zone] = {request[m].secs}]
    <2>1. Seconds(Parts(request[m].secs)) = request[m].secs
        <3>1. Representable(request[m].secs) /\ request[m].secs \in Nat
            BY CommandsAssumption
               DEF WriteDuration, InHand, FitsWhenWritten, TypeOK, Types
        <3> QED BY <3>1, DurationKept
    <2>2. request[m].zone \in Zones
        BY CommandsAssumption DEF TypeOK, Types
    <2>3. \A z \in Zones : duration'[z] = IF z = request[m].zone
                                          THEN {Parts(request[m].secs)}
                                          ELSE duration[z]
        BY <2>2 DEF WriteDuration, TypeOK, Types
    <2>4. {Seconds(t) : t \in {Parts(request[m].secs)}} = {request[m].secs}
        BY <2>1
    <2> QED BY <2>2, <2>3, <2>4 DEF InSeconds
<1>4. StaleSet' = StaleSet /\ OvertakenSet' = OvertakenSet \cup (Server!Working \ {m})
    BY <1>1, BefallsOthers DEF WriteDuration
<1>5. request[m].kind = "start"
    BY DEF WriteDuration, KindAtWork
<1>6. \/ [n \in Messages |-> Phase(at'[n])] = [n \in Messages |-> Phase(at[n])]
      \/ Server!Enter(m, "served")
    <2>1. CASE Goto(m, "write")
        <3>1. Phase("write") = Phase(at[m])
            BY <1>1 DEF Phase, Copied
        <3> QED BY <2>1, <3>1 DEF Goto, TypeOK, Types
    <2>2. CASE Goto(m, "respond")
        BY <2>2, PhaseMoves DEF Phase, Copied
    <2> QED BY <2>1, <2>2 DEF WriteDuration
<1> QED BY <1>1, <1>2, <1>3, <1>4, <1>5, <1>6
        DEF WriteDuration, Server!Program, StaleSet, OvertakenSet, InSeconds

(* The write of the settings is the moment of the command. *)
LEMMA SettingsServe ==
    ASSUME TypeOK, InHand, KindAtWork, NEW m \in Messages, WriteSettings(m)
    PROVE  Server!Apply(m)
<1>1. /\ at[m] = "write" /\ at[m] \in Copied /\ at[m] \in Locked
      /\ Phase(at[m]) = "working"
    BY PhaseOfPlace DEF WriteSettings, Locked, Copied
<1>2. Server!First(m)
    BY <1>1, IsFirst DEF Server!First
<1>3. request[m].kind \in {"start", "stop"} /\ request[m].zone \in Zones
    BY <1>1, CommandsAssumption DEF KindAtWork, TypeOK, Types
<1>4. ASSUME request[m].kind = "start", m \notin OvertakenSet
      PROVE  InSeconds[request[m].zone] = {request[m].secs}
    <2>1. PICK t \in duration[request[m].zone] : Seconds(t) = request[m].secs
        BY <1>1, <1>4 DEF InHand, DurationInPlace, OvertakenSet
    <2>2. duration[request[m].zone] = {t}
        BY <1>3, <2>1 DEF TypeOK, Types, Option
    <2> QED BY <1>3, <2>1, <2>2 DEF InSeconds
<1>5. /\ switches' \in [Zones -> BOOLEAN]
      /\ switches'[request[m].zone] = (request[m].kind = "start")
      /\ \A z \in Zones \ {request[m].zone} : switches'[z] = copy[m][z]
    BY <1>3 DEF WriteSettings, TypeOK, Types, Switches
<1>6. m \notin StaleSet => copy[m] = switches
    BY <1>1 DEF InHand, CopyIsCurrent, StaleSet
<1>7. StaleSet' = StaleSet \cup (Server!Working \ {m}) /\ OvertakenSet' = OvertakenSet
    BY <1>1, BefallsOthers DEF WriteSettings
<1>8. Server!Enter(m, "served")
    BY PhaseMoves DEF WriteSettings, Phase, Copied
<1>9. /\ UNCHANGED <<request, lock, duration, answered>>
      /\ \E taken \in BOOLEAN : ok' = [ok EXCEPT ![m] = taken]
    BY DEF WriteSettings
<1> QED BY <1>1, <1>2, <1>3, <1>4, <1>5, <1>6, <1>7, <1>8, <1>9
        DEF Server!Apply, StaleSet, OvertakenSet, InSeconds

(* Each step of a task is one of the server, or none. *)
LEMMA HandleServes ==
    ASSUME TypeOK, InHand, KindAtWork, NEW m \in Messages, Handle(m)
    PROVE  Server!Serve(m) \/ UNCHANGED Server!vars
<1>1. CASE FirstPoll(m)
    <2>1. at[m] = "spawned" /\ Phase(at[m]) = "away" /\ inst[m] \in Instances
        BY <1>1, PhaseOfPlace DEF FirstPoll, TypeOK, Types
    <2>2. UNCHANGED <<request, since, switches, duration, ok, answered>>
        BY <1>1 DEF FirstPoll
    <2>3. CASE request[m].kind = "garbled"
        <3>1. Server!Enter(m, "gone") /\ UNCHANGED lock
            BY <1>1, <2>3, PhaseMoves DEF FirstPoll, Phase, Copied
        <3> QED BY <2>1, <2>2, <3>1 DEF Server!Serve, Server!Reject
    <2>4. CASE request[m].kind # "garbled"
        <3>1. /\ Server!Enter(m, "waiting")
              /\ lock' = [lock EXCEPT ![inst[m]] = Append(@, m)]
            BY <1>1, <2>4, PhaseMoves DEF FirstPoll, Phase, Copied
        <3> QED BY <2>1, <2>2, <3>1 DEF Server!Serve, Server!Join
    <2> QED BY <2>3, <2>4
<1>2. CASE Begin(m)
    <2>1. /\ Acquires(m) /\ at[m] = "queued"
          /\ UNCHANGED <<request, switches, duration, ok, answered>>
        BY <1>2 DEF Begin, Acquires
    <2>2. CASE request[m].kind = "unknown"
        BY <1>2, <2>1, <2>2, EndLeaves DEF Begin, Server!Serve
    <2>3. CASE request[m].kind = "bare"
        BY <1>2, <2>1, <2>3, RespondConcludes DEF Begin, Server!Serve
    <2>4. CASE request[m].kind \notin {"unknown", "bare"}
        <3>1. Goto(m, "gate") /\ UNCHANGED <<lock, since>>
            BY <1>2, <2>4 DEF Begin
        <3>2. Phase("gate") = Phase(at[m])
            BY <2>1 DEF Phase, Copied
        <3> QED BY <2>1, <3>1, <3>2, SamePhase
    <2> QED BY <2>2, <2>3, <2>4
<1>3. CASE PassGate(m) \/ Wait(m)
    <2>1. PICK l \in {"look", "settings", "waiting"} : Goto(m, l)
        BY <1>3 DEF PassGate, Wait
    <2>2. /\ at[m] \in {"gate", "waiting"}
          /\ UNCHANGED <<request, lock, since, switches, duration, ok, answered>>
        BY <1>3 DEF PassGate, Wait
    <2>3. Phase(l) = Phase(at[m])
        BY <2>2 DEF Phase, Copied
    <2> QED BY <2>1, <2>2, <2>3, SamePhase
<1>4. CASE GateTimesOut(m) \/ Fail(m)
    BY <1>4, GiveUpServes DEF GateTimesOut, Fail, Locked, Copied
<1>5. CASE Look(m)
    BY <1>5, RespondConcludes DEF Look, Locked, Server!Serve
<1>6. CASE ReadSettings(m)
    BY <1>6, ReadServes DEF Server!Serve
<1>7. CASE ReadStatus(m)
    <2>1. /\ at[m] = "status"
          /\ UNCHANGED <<request, lock, since, switches, duration, ok, answered>>
        BY <1>7 DEF ReadStatus
    <2>2. CASE Goto(m, "respond")
        BY <2>1, <2>2, RespondConcludes DEF Locked, Copied, Server!Serve
    <2>3. CASE ~Goto(m, "respond")
        <3>1. PICK l \in {"write", "duration"} : Goto(m, l)
            BY <1>7, <2>3 DEF ReadStatus
        <3>2. Phase(l) = Phase(at[m])
            BY <2>1 DEF Phase, Copied
        <3> QED BY <2>1, <3>1, <3>2, SamePhase
    <2> QED BY <2>2, <2>3
<1>8. CASE WriteDuration(m)
    BY <1>8, DurationServes DEF Server!Serve
<1>9. CASE WriteSettings(m)
    BY <1>9, SettingsServe DEF Server!Serve
<1>10. CASE Respond(m)
    BY <1>10, EndLeaves DEF Respond, Locked, Server!Serve
<1> QED BY <1>1, <1>2, <1>3, <1>4, <1>5, <1>6, <1>7, <1>8, <1>9, <1>10
        DEF Handle, Operate

(* Each step is one of the server, or none. *)
LEMMA StepServes ==
    TypeOK /\ InHand /\ KindAtWork /\ [Next]_vars => [Server!Next]_(Server!vars)
<1> SUFFICES ASSUME TypeOK, InHand, KindAtWork, [Next]_vars
             PROVE  Server!Next \/ UNCHANGED Server!vars
    OBVIOUS
<1>1. ASSUME NEW m \in Messages, Handle(m)
      PROVE  Server!Next \/ UNCHANGED Server!vars
    BY <1>1, HandleServes DEF Server!Next
<1>2. ASSUME NEW m \in Messages, Receive(m) PROVE UNCHANGED Server!vars
    <2>1. Phase("spawned") = Phase(at[m])
        BY <1>2 DEF Receive, Phase, Copied
    <2> QED BY <1>2, <2>1, SamePhase DEF Receive
<1>3. ASSUME NEW z \in Zones, DeviceTurns(z) PROVE Server!Turn(z)
    <2>1. Server!Working = {n \in Messages : at[n] \in Copied}
        BY PhaseOfPlace DEF Server!Working
    <2>2. \A n \in Messages :
              since'[n] = IF n \in Server!Working
                          THEN since[n] \cup {"turn"} ELSE since[n]
        BY <1>3, <2>1 DEF DeviceTurns
    <2>3. \A S : /\ (S \cup {"turn"}) \cap {"turn", "settings"} # {}
                 /\ "duration" \in S \cup {"turn"} <=> "duration" \in S
        OBVIOUS
    <2>4. StaleSet' = StaleSet \cup Server!Working /\ OvertakenSet' = OvertakenSet
        <3>1. \A n \in Messages :
                  /\ n \in StaleSet' <=> n \in StaleSet \cup Server!Working
                  /\ n \in OvertakenSet' <=> n \in OvertakenSet
            BY <2>2, <2>3 DEF StaleSet, OvertakenSet
        <3>2. Server!Working \subseteq Messages
            BY <2>1
        <3> QED BY <3>1, <3>2 DEF StaleSet, OvertakenSet
    <2> QED BY <1>3, <2>4 DEF DeviceTurns, Server!Turn, StaleSet, OvertakenSet
<1>4. CASE Session \/ InstanceRestart \/ UNCHANGED vars
    BY <1>4 DEF Session, InstanceRestart, vars, Server!vars
<1> QED BY <1>1, <1>2, <1>3, <1>4 DEF Next, Server!Next

LEMMA InitServes == Init => Server!Init
<1> SUFFICES ASSUME Init PROVE Server!Init
    OBVIOUS
<1>1. \A m \in Messages : Phase(at[m]) = "away" /\ since[m] = {}
    <2>1. Phase("coming") = "away"
        BY DEF Phase, Copied
    <2> QED BY <2>1 DEF Init
<1>2. \A z \in Zones : {Seconds(t) : t \in duration[z]} = {}
    BY DEF Init
<1> QED BY <1>1, <1>2 DEF Init, Server!Init, AllOff

(* The instances implement the server: for any zones, any number of        *)
(* commands, and whatever fails, restarts or is turned by hand.            *)
THEOREM CommandsServed == Spec => ServedOneByOne
<1>1. Init => TypeOK /\ InHand /\ Order
    BY InitTypeOK, InitInHand, InitOrder
<1>2. (TypeOK /\ InHand /\ Order) /\ [Next]_vars => (TypeOK /\ InHand /\ Order)'
    BY NextTypeOK, NextInHand, NextOrder
<1>3. TypeOK /\ InHand /\ Order /\ [Next]_vars => [Server!Next]_(Server!vars)
    BY StepServes DEF Order
<1> QED BY <1>1, <1>2, <1>3, InitServes, PTL DEF Spec, ServedOneByOne, Server!Spec
=============================================================================
