---------------------------- MODULE MCEscalation ----------------------------
(* Small instances of Escalation: the thresholds keep the order of the     *)
(* code's (window < power-cycle limit < reboot limit < day), a setup is    *)
(* instantaneous, short, or longer than the failure window.                *)
EXTENDS Escalation

MCDurations == {0, 1, 4}
NoFaults == {}
Interrupted == {"unsaved"}
Dying == {"torn", "unsaved"}
=============================================================================
