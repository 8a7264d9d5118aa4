---------------------------- MODULE RunDuration -----------------------------
(***************************************************************************)
(* The run time of a start (src/src/lib.rs, run_command): seconds from the *)
(* command, sent to the device as three bytes of Second86Protocol.         *)
(***************************************************************************)
EXTENDS Naturals

Byte == 0 .. 255

(* zm_hour, zm_minute and zm_second; the other fields are constant. *)
Time == [hour : Byte, minute : Byte, second : Byte]

(* A variant that is off by one. *)
Representable_OneMore(secs) == secs \div 3600 <= 256

(* A start whose hours do not fit is refused before anything is written. *)
Representable(secs) == secs \div 3600 <= 255

(* The casts "as u8" keep the low byte. *)
Parts(secs) ==
    [hour |-> (secs \div 3600) % 256, minute |-> ((secs % 3600) \div 60) % 256,
     second |-> (secs % 60) % 256]

(* What the device makes of it. *)
Seconds(t) == 3600 * t.hour + 60 * t.minute + t.second
=============================================================================
