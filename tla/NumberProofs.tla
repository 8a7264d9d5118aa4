---------------------------- MODULE NumberProofs ----------------------------
(***************************************************************************)
(* Theorems about the conversions of RunDuration, Payloads and             *)
(* IntervalUnits, for every value that is converted.                       *)
(***************************************************************************)
EXTENDS RunDuration, IntervalUnits, Payloads, TLAPS

(* A run time that is not refused reaches the device as it is: each part   *)
(* fits its byte, no cast cuts anything off, and the parts add up to the   *)
(* seconds of the command (run_command, lib.rs:162).                       *)
THEOREM DurationKept ==
    ASSUME NEW secs \in Nat, Representable(secs)
    PROVE  Parts(secs) \in Time /\ Seconds(Parts(secs)) = secs
<1> DEFINE h == secs \div 3600
           r == secs % 3600
           m == r \div 60
           s == secs % 60
<1>1. h \in Nat /\ r \in 0 .. 3599 /\ secs = 3600 * h + r
    OBVIOUS
<1>2. m \in 0 .. 59 /\ r = 60 * m + (r % 60)
    BY <1>1
<1>3. s \in 0 .. 59 /\ r % 60 = s
    BY <1>1
<1>4. h % 256 = h /\ m % 256 = m /\ s % 256 = s
    BY <1>1, <1>2, <1>3 DEF Representable
<1>5. Parts(secs) = [hour |-> h, minute |-> m, second |-> s]
    BY <1>4 DEF Parts
<1>6. h <= 255
    BY DEF Representable
<1>7. secs = 3600 * h + 60 * m + s
    BY <1>1, <1>2, <1>3
<1> HIDE DEF h, r, m, s
<1> QED BY <1>1, <1>2, <1>3, <1>5, <1>6, <1>7 DEF Time, Byte, Seconds

(* A run time that is refused could not be sent: no three bytes whose      *)
(* minutes and seconds stay below sixty mean it.                           *)
THEOREM RefusedOnlyIfTooLong ==
    ASSUME NEW secs \in Nat, ~Representable(secs)
    PROVE  \A t \in Time : t.minute < 60 /\ t.second < 60 => Seconds(t) < secs
<1>1. secs >= 3600 * 256
    BY DEF Representable
<1> SUFFICES ASSUME NEW t \in Time, t.minute < 60, t.second < 60
             PROVE  Seconds(t) < secs
    OBVIOUS
<1> DEFINE h == t.hour
           m == t.minute
           s == t.second
<1>2. h \in 0 .. 255 /\ m \in 0 .. 59 /\ s \in 0 .. 59
    BY DEF Time, Byte
<1>3. Seconds(t) = 3600 * h + 60 * m + s
    BY DEF Seconds
<1> HIDE DEF h, m, s
<1>4. 3600 * h + 60 * m + s < secs
    BY <1>1, <1>2
<1> QED BY <1>3, <1>4

(* A command writes the settings back as it read them, byte for byte, but  *)
(* for the manual switch of its zone and, at a start, the special setting: *)
(* the schedules of both zones and the switch of the other zone survive,   *)
(* whatever they hold (run_command, lib.rs:157).                           *)
THEOREM SettingsKept ==
    ASSUME NEW d \in Seq(Byte), Readable83(d), NEW zone \in {1, 2}
    PROVE  LET on == Second83Bytes(Started(Second83From(d), zone))
               off == Second83Bytes(Stopped(Second83From(d), zone))
           IN  /\ on[ManualByte(zone)] = 1 /\ off[ManualByte(zone)] = 0
               /\ \A i \in 1 .. 12 \ {ManualByte(zone)} :
                    off[i] = d[i] /\ (i # 12 => on[i] = d[i])
<1> DEFINE s == Second83From(d)
<1>1. CASE zone = 1
    <2>1. Second83Bytes(Started(s, zone))
            = <<d[1], d[2], d[3], d[4], 1, d[6], d[7], d[8], d[9], d[10], d[11], 0>>
        BY <1>1 DEF Started, Second83From, Second83Bytes
    <2>2. Second83Bytes(Stopped(s, zone))
            = <<d[1], d[2], d[3], d[4], 0, d[6], d[7], d[8], d[9], d[10], d[11], d[12]>>
        BY <1>1 DEF Stopped, Second83From, Second83Bytes
    <2> HIDE DEF s
    <2> QED BY <1>1, <2>1, <2>2 DEF ManualByte, s
<1>2. CASE zone = 2
    <2>1. Second83Bytes(Started(s, zone))
            = <<d[1], d[2], d[3], d[4], d[5], d[6], d[7], 1, d[9], d[10], d[11], 0>>
        BY <1>2 DEF Started, Second83From, Second83Bytes
    <2>2. Second83Bytes(Stopped(s, zone))
            = <<d[1], d[2], d[3], d[4], d[5], d[6], d[7], 0, d[9], d[10], d[11], d[12]>>
        BY <1>2 DEF Stopped, Second83From, Second83Bytes
    <2> HIDE DEF s
    <2> QED BY <1>2, <2>1, <2>2 DEF ManualByte, s
<1> QED BY <1>1, <1>2

(* The bytes of a start mean the seconds of the command to who reads them  *)
(* as the device's own format has them.                                    *)
THEOREM DurationSent ==
    ASSUME NEW secs \in Nat, Representable(secs)
    PROVE  Seconds(Second86Time(Second86Bytes(Parts(secs)))) = secs
<1>1. Parts(secs) \in Time /\ Seconds(Parts(secs)) = secs
    BY DurationKept
<1>2. \A t \in Time : Second86Time(Second86Bytes(t)) = t
    BY DEF Time, Second86Time, Second86Bytes
<1> QED BY <1>1, <1>2

(* Every interval the configuration lets through gives an update that a    *)
(* controller accepts, and the guard takes the interval it leads to for    *)
(* on target: it does not re-apply what was applied (hci_monitor.rs:96).   *)
THEOREM UpdatesAccepted ==
    ASSUME NEW ms \in Configurable
    PROVE  /\ Accepted(Parameters(ms))
           /\ Parameters(ms).max = TargetUnits(ms)
<1>1. IntervalSteps(ms) \in 6 .. 3200
    <2> DEFINE q == (ms * 4) \div 5
    <2>1. ms \in Nat /\ 8 <= ms /\ ms <= 4000
        BY DEF Configurable
    <2>2. q \in Nat /\ 5 * q <= ms * 4 /\ ms * 4 < 5 * q + 5
        BY <2>1
    <2>3. q \in 6 .. 3200
        <3> HIDE DEF q
        <3> QED BY <2>1, <2>2
    <2>4. q % 65536 = q
        <3> HIDE DEF q
        <3> QED BY <2>3
    <2> QED BY <2>3, <2>4 DEF IntervalSteps
<1>2. TimeoutSteps(SUPERVISION_TIMEOUT_MS) = 2000
    BY DEF TimeoutSteps, SUPERVISION_TIMEOUT_MS
<1>3. IntervalSteps(ms) = TargetUnits(ms)
    BY DEF IntervalSteps, TargetUnits
<1> DEFINE p == Parameters(ms)
<1>4. p = [min |-> IntervalSteps(ms), max |-> IntervalSteps(ms),
           latency |-> 0, timeout |-> 2000]
    BY <1>2 DEF Parameters
<1> HIDE DEF p
<1>5. /\ p.min = IntervalSteps(ms) /\ p.max = IntervalSteps(ms)
      /\ p.latency = 0 /\ p.timeout = 2000
    BY <1>4
<1> DEFINE x == IntervalSteps(ms)
<1>6. x \in 6 .. 3200
    BY <1>1
<1> HIDE DEF x
<1>7. x <= x /\ 16000 > 2 * x
    BY <1>6
<1>8. p.min = x /\ p.max = x /\ p.latency = 0 /\ p.timeout = 2000
    BY <1>5 DEF x
<1>9. 8 * p.timeout > 2 * (1 + p.latency) * p.max
    <2>1. 8 * p.timeout = 16000 /\ 2 * (1 + p.latency) = 2
        BY <1>8
    <2>2. 2 * (1 + p.latency) * p.max = 2 * x
        BY <1>8, <2>1
    <2> QED BY <1>7, <2>1, <2>2
<1>10. Accepted(p)
    BY <1>6, <1>7, <1>8, <1>9 DEF Accepted
<1> QED BY <1>3, <1>5, <1>10 DEF p
=============================================================================
