---------------------------- MODULE MCCalendarApp ----------------------------
(* Instances of CalendarApp for TLC. *)
EXTENDS CalendarApp

=============================================================================
