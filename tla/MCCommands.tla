----------------------------- MODULE MCCommands -----------------------------
(* Small instances of Commands. *)
EXTENDS Commands

(* 3723 s is 1:02:03; 921600 s is 256 hours, one more than a byte holds. *)
Request(kind, zone, secs) == [kind |-> kind, zone |-> zone, secs |-> secs]

SomeRequests ==
    {Request("start", 1, 3723), Request("start", 1, 60), Request("start", 2, 7200),
     Request("start", 1, 921600), Request("stop", 1, 0),
     Request("status", 1, 0), Request("bare", 1, 0), Request("unknown", 1, 0),
     Request("garbled", 1, 0)}

StatusRequests == {Request("status", 1, 0), Request("stop", 1, 0)}
=============================================================================
