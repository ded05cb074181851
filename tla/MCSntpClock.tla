----------------------------- MODULE MCSntpClock -----------------------------
(* The local clock may be right, fast or slow by more than any transit time. *)
EXTENDS SntpClock

MCSkews == {-7, 0, 7}
=============================================================================
