------------------------------ MODULE Payloads ------------------------------
(***************************************************************************)
(* What a command reads and writes of the device's settings, byte by byte  *)
(* (src/src/protocol.rs): the settings of ff83, which it reads, changes    *)
(* and writes back, and the run time of ff86 and ff8b.  Positions count    *)
(* from 1.                                                                 *)
(***************************************************************************)
EXTENDS RunDuration, Sequences

(* Second83Protocol::from_bytes takes its fields from the first bytes of   *)
(* the payload, and to_bytes lines them up again.                          *)
Readable83(d) == Len(d) >= 12

Second83From(d) ==
    [enabled |-> d[1], suspend_watering |-> d[2],
     zone1_enabled |-> d[3], zone1_mode |-> d[4], zone1_enable_manual |-> d[5],
     zone2_enabled |-> d[6], zone2_mode |-> d[7], zone2_enable_manual |-> d[8],
     run_all_hh |-> d[9], run_all_mm |-> d[10], run_all_ss |-> d[11],
     special_setting |-> d[12]]

Second83Bytes(s) ==
    <<s.enabled, s.suspend_watering,
      s.zone1_enabled, s.zone1_mode, s.zone1_enable_manual,
      s.zone2_enabled, s.zone2_mode, s.zone2_enable_manual,
      s.run_all_hh, s.run_all_mm, s.run_all_ss, s.special_setting>>

(* What a start and a stop do to the settings. *)
Started(s, zone) ==
    IF zone = 1
    THEN [s EXCEPT !.special_setting = 0, !.zone1_enable_manual = 1]
    ELSE [s EXCEPT !.special_setting = 0, !.zone2_enable_manual = 1]

Stopped(s, zone) ==
    IF zone = 1 THEN [s EXCEPT !.zone1_enable_manual = 0]
                ELSE [s EXCEPT !.zone2_enable_manual = 0]

ManualByte(zone) == IF zone = 1 THEN 5 ELSE 8

(* Second86Protocol with w_index 4 and the run time, the rest zero. *)
Second86Bytes(t) ==
    <<4, 0, 0, 0, 0, 0, 0, 0, 0, 0, 0, t.hour, t.minute, t.second, 0, 0, 0>>

(* The run time that Second86Protocol::from_bytes finds. *)
Second86Time(d) == [hour |-> d[12], minute |-> d[13], second |-> d[14]]
=============================================================================
